---------------------------- MODULE PieceManager ----------------------------
(***************************************************************************)
(* PieceManager and Piece: which blocks to request next, which requests    *)
(* are outstanding and which pieces are done.  A piece lies in             *)
(* missingPieces_, then in ongoingPieces_, then in havePieces.             *)
(*                                                                         *)
(* The operators are the bodies of the methods between two points at       *)
(* which other threads may run.  nextRequest and the two locked parts of   *)
(* blockReceived hold lock_; the rest of blockReceived (storing the block, *)
(* the completeness test, the hash, the write) holds no lock.              *)
(*                                                                         *)
(* Abstractions.  missingPieces_ is a set: getRarestPiece takes the        *)
(* smallest pointer of a map from Piece* to a count that is always one,    *)
(* so any missing piece the peer has may come first.  A block's bytes are  *)
(* "good" (what the piece's hash was computed from) or "bad".  Time is the *)
(* age of a pending request in seconds, which stops at MaxPendingTime.     *)
(***************************************************************************)
EXTENDS PeerRegistry, DiskManager, SequencesExt

CONSTANTS MaxPendingTime,  \* MAX_PENDING_TIME
          Header,          \* `header` of isComplete: 4 in the code
          Contents         \* the bytes peers send for a block

ASSUME PieceManagerAssumption == /\ MaxPendingTime \in Nat \ {0}
                                 /\ Header \in Nat
                                 /\ Contents \subseteq {"good", "bad"}

VARIABLES missingPieces,    \* missingPieces_: not started yet
          ongoingPieces,    \* ongoingPieces_: owns the Piece objects
          pendingRequests,  \* pendingRequests_: requests with their age
          havePieces,       \* havePieces: Piece pointers, one per completion
          status,           \* Block::status
          data              \* Block::data, "none" before the first arrival

pieceVars == <<missingPieces, ongoingPieces, pendingRequests, havePieces, status, data>>

PendingRequest == [block : BlockIds, age : 0 .. MaxPendingTime]

PieceTypeOK == /\ missingPieces \subseteq Pieces
               /\ ongoingPieces \in Seq(Pieces)
               /\ pendingRequests \in Seq(PendingRequest)
               /\ havePieces \in Seq(Pieces)
               /\ status \in [BlockIds -> {"missing", "pending", "retrieved"}]
               /\ data \in [BlockIds -> {"none", "good", "bad"}]

PieceInit == /\ missingPieces = Pieces
             /\ ongoingPieces = <<>>
             /\ pendingRequests = <<>>
             /\ havePieces = <<>>
             /\ status = [b \in BlockIds |-> "missing"]
             /\ data = [b \in BlockIds |-> "none"]

Ongoing == ToSet(ongoingPieces)
Have == ToSet(havePieces)

IsComplete == Len(havePieces) + Header = TotalPieces

\* Variant of PieceComplete that is content with one block.
PieceBegun(p) == \E b \in Blocks(p) : status[b] = "retrieved"

PieceComplete(p) == \A b \in Blocks(p) : status[b] = "retrieved"

HashMatches(p) == \A b \in Blocks(p) : data[b] = "good"

-----------------------------------------------------------------------------
(* nextRequest, one operator for each place a block may come from.         *)

\* Variant of Expired that does not look at the timestamp.
PendingFor(q, i) == PeerHasPiece(q, PieceOf(pendingRequests[i].block))

Expired(q, i) == /\ PeerHasPiece(q, PieceOf(pendingRequests[i].block))
                 /\ pendingRequests[i].age >= MaxPendingTime

SomeExpired(q) == \E i \in DOMAIN pendingRequests : Expired(q, i)

\* Piece::nextRequest: the missing block with the smallest offset.
NextOfPiece(p, b) == /\ b \in Blocks(p)
                     /\ status[b] = "missing"
                     /\ \A c \in Blocks(p) : status[c] = "missing" => b[2] <= c[2]

CanContinue(q, i) == /\ PeerHasPiece(q, ongoingPieces[i])
                     /\ \E b \in Blocks(ongoingPieces[i]) : status[b] = "missing"

SomeToContinue(q) == \E i \in DOMAIN ongoingPieces : CanContinue(q, i)

\* expiredRequest: the oldest entry that has expired is stamped again.
ExpiredRequest(q, b) ==
    \E i \in DOMAIN pendingRequests :
        /\ Expired(q, i)
        /\ \A j \in 1 .. i - 1 : ~Expired(q, j)
        /\ b = pendingRequests[i].block
        /\ pendingRequests' = [pendingRequests EXCEPT ![i].age = 0]
        /\ UNCHANGED <<missingPieces, ongoingPieces, status>>

\* Variant of NextOngoing that records no pending request.
NextOngoingUntracked(q, b) ==
    /\ ~SomeExpired(q)
    /\ \E i \in DOMAIN ongoingPieces :
          CanContinue(q, i) /\ NextOfPiece(ongoingPieces[i], b)
    /\ status' = [status EXCEPT ![b] = "pending"]
    /\ UNCHANGED <<missingPieces, ongoingPieces, pendingRequests>>

\* nextOngoing: the next block of the first ongoing piece that has one.
NextOngoing(q, b) ==
    /\ ~SomeExpired(q)
    /\ \E i \in DOMAIN ongoingPieces :
        /\ CanContinue(q, i)
        /\ \A j \in 1 .. i - 1 : ~CanContinue(q, j)
        /\ NextOfPiece(ongoingPieces[i], b)
    /\ status' = [status EXCEPT ![b] = "pending"]
    /\ pendingRequests' = Append(pendingRequests, [block |-> b, age |-> 0])
    /\ UNCHANGED <<missingPieces, ongoingPieces>>

\* getRarestPiece()->nextRequest(): a new piece is started.  Its first block
\* gets no entry in pendingRequests_.
StartPiece(q, b) ==
    /\ ~SomeExpired(q)
    /\ ~SomeToContinue(q)
    /\ \E p \in missingPieces :
        /\ PeerHasPiece(q, p)
        /\ NextOfPiece(p, b)
        /\ missingPieces' = missingPieces \ {p}
        /\ ongoingPieces' = Append(ongoingPieces, p)
    /\ status' = [status EXCEPT ![b] = "pending"]
    /\ UNCHANGED pendingRequests

NextRequest(q, b) ==
    /\ ExpiredRequest(q, b) \/ NextOngoing(q, b) \/ StartPiece(q, b)
    /\ UNCHANGED <<havePieces, data>>

\* getRarestPiece returns nullptr and nextRequest is called on it.
RarestIsNull(q) == /\ ~SomeExpired(q)
                   /\ ~SomeToContinue(q)
                   /\ \A p \in missingPieces : ~PeerHasPiece(q, p)

-----------------------------------------------------------------------------
(* blockReceived, from one interleaving point to the next.                 *)

\* Variant of ErasePending that leaves the entry.
ErasePendingNever(b) == b \in BlockIds /\ UNCHANGED pendingRequests

\* The first entry for block b, if there is one, leaves pendingRequests_.
ErasePending(b) ==
    \/ /\ \A i \in DOMAIN pendingRequests : pendingRequests[i].block # b
       /\ UNCHANGED pendingRequests
    \/ \E i \in DOMAIN pendingRequests :
        /\ pendingRequests[i].block = b
        /\ \A j \in 1 .. i - 1 : pendingRequests[j].block # b
        /\ pendingRequests' = RemoveAt(pendingRequests, i)

\* Piece::blockReceived
StoreBlock(b, content) ==
    /\ status' = [status EXCEPT ![b] = "retrieved"]
    /\ data' = [data EXCEPT ![b] = content]
    /\ UNCHANGED <<missingPieces, ongoingPieces, pendingRequests, havePieces>>

\* Piece::reset: the data stays.
ResetPiece(p) ==
    /\ status' = [b \in BlockIds |-> IF PieceOf(b) = p THEN "missing" ELSE status[b]]
    /\ UNCHANGED <<missingPieces, ongoingPieces, pendingRequests, havePieces, data>>

\* Variant of PublishPiece that leaves the piece in ongoingPieces_.
PublishPieceKept(p) ==
    /\ havePieces' = Append(havePieces, p)
    /\ UNCHANGED <<missingPieces, ongoingPieces, pendingRequests, status, data>>

\* The last locked part.  Erasing the unique_ptr from ongoingPieces_ frees
\* the Piece; the raw pointer goes to havePieces whether or not it was there.
PublishPiece(p) ==
    /\ \/ p \notin Ongoing /\ UNCHANGED ongoingPieces
       \/ \E i \in DOMAIN ongoingPieces :
            /\ ongoingPieces[i] = p
            /\ ongoingPieces' = RemoveAt(ongoingPieces, i)
    /\ havePieces' = Append(havePieces, p)
    /\ UNCHANGED <<missingPieces, pendingRequests, status, data>>

-----------------------------------------------------------------------------
\* The clock the timestamps are compared with: one more second has passed.
TimePasses ==
    /\ \E i \in DOMAIN pendingRequests : pendingRequests[i].age < MaxPendingTime
    /\ pendingRequests' =
         [i \in DOMAIN pendingRequests |->
            [pendingRequests[i] EXCEPT !.age = IF @ < MaxPendingTime THEN @ + 1 ELSE @]]
    /\ UNCHANGED <<missingPieces, ongoingPieces, havePieces, status, data>>

=============================================================================
