--------------------------- MODULE PieceLifecycle ---------------------------
(***************************************************************************)
(* What a download promises while peers send what the hashes stand for,    *)
(* whatever threads run it: a piece is started by the first request for    *)
(* one of its blocks, a block is requested before it is stored and stays   *)
(* stored, and a piece is done, for good, when all its blocks are stored.  *)
(***************************************************************************)
EXTENDS Torrent

VARIABLES stage,    \* of every piece: "missing", "ongoing" or "done"
          blocks    \* of every block: "missing", "pending" or "retrieved"

LifecycleInit == /\ stage = [p \in Pieces |-> "missing"]
                 /\ blocks = [b \in BlockIds |-> "missing"]

Request(b) == /\ stage[PieceOf(b)] # "done"
              /\ blocks[b] = "missing"
              /\ blocks' = [blocks EXCEPT ![b] = "pending"]
              /\ stage' = [stage EXCEPT ![PieceOf(b)] = "ongoing"]

Retrieve(b) == /\ stage[PieceOf(b)] = "ongoing"
               /\ blocks[b] = "pending"
               /\ blocks' = [blocks EXCEPT ![b] = "retrieved"]
               /\ UNCHANGED stage

Finish(p) == /\ stage[p] = "ongoing"
             /\ \A b \in Blocks(p) : blocks[b] = "retrieved"
             /\ stage' = [stage EXCEPT ![p] = "done"]
             /\ UNCHANGED blocks

LifecycleNext == \/ \E b \in BlockIds : Request(b) \/ Retrieve(b)
                 \/ \E p \in Pieces : Finish(p)

LifecycleSpec == LifecycleInit /\ [][LifecycleNext]_<<stage, blocks>>

=============================================================================
