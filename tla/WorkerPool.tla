----------------------------- MODULE WorkerPool -----------------------------
(***************************************************************************)
(* The main thread and the worker threads around the queue of peers:       *)
(* Queue, TorrentClient::downloadFile and terminate, and the two loops of  *)
(* PeerConnection::start.  A call of the queue holds its mutex for one     *)
(* step, except that push_back notifies after it has let go of it, and     *)
(* that a thread that waits in pop_front lets go of it meanwhile.  The     *)
(* connections are the modules Wire and PeerConnection: here a connection  *)
(* publishes pieces until it ends, and nothing keeps two connections from  *)
(* publishing the same one.                                                *)
(*                                                                         *)
(* pc[w]: "outer" the test of the outer loop, "pop" pop_front's first test *)
(* of the queue, "waiting" in cond_.wait, "awake" out of it but without    *)
(* the mutex, "establish" and "session" with a peer, "exit" returned.      *)
(* main: "test" the loop of downloadFile, "ask" in retrievePeers, "clear", *)
(* "push", "notify" in the queue's operations, "stop" and "join" in        *)
(* terminate, "done", or "dead" when an exception has ended the process.   *)
(***************************************************************************)
EXTENDS Integers, Sequences, FiniteSets

CONSTANTS Workers,        \* the threads of threadPool_
          TrackerLists,   \* the lists of ips retrievePeers may return
          TrackerThrows,  \* whether it may throw instead
          DummyIp,        \* DUMMY_PEER_IP
          TotalPieces,
          Header          \* the `header` of isComplete

ASSUME WorkersAssumption == IsFiniteSet(Workers)
ASSUME PoolAssumption == /\ TotalPieces \in Nat /\ Header \in Nat
                         /\ TrackerThrows \in BOOLEAN

Ips == {DummyIp} \union UNION {{list[i] : i \in DOMAIN list} : list \in TrackerLists}

ASSUME ListsAssumption == \A list \in TrackerLists : list \in Seq(Ips)

VARIABLES pc,
          main,
          queue,      \* queue_: the ips of the peers
          toPush,     \* what main has yet to push
          due,        \* a minute has passed since the tracker was asked
          ending,     \* main is in terminate
          stopped,    \* the workers whose terminated_ is set
          have        \* the size of havePieces: see PublishPiece

vars == <<pc, main, queue, toPush, due, ending, stopped, have>>

WorkerLabels == {"outer", "pop", "waiting", "awake", "establish", "session", "exit"}
MainLabels == {"test", "ask", "clear", "push", "notify", "stop", "join", "done", "dead"}

TypeOK == /\ pc \in [Workers -> WorkerLabels]
          /\ main \in MainLabels
          /\ queue \in Seq(Ips)
          /\ toPush \in Seq(Ips)
          /\ due \in BOOLEAN
          /\ ending \in BOOLEAN
          /\ stopped \in SUBSET Workers
          /\ have \in Nat

\* The first query is due at once.
Init == /\ pc = [w \in Workers |-> "outer"]
        /\ main = "test"
        /\ queue = <<>>
        /\ toPush = <<>>
        /\ due = TRUE
        /\ ending = FALSE
        /\ stopped = {}
        /\ have = 0

IsComplete == have + Header = TotalPieces

At(w, label) == main # "dead" /\ pc[w] = label

GoTo(w, label) == pc' = [pc EXCEPT ![w] = label]

Those(label) == {w \in Workers : pc[w] = label}

mainVars == <<main, toPush, due, ending, stopped>>

-----------------------------------------------------------------------------
(* A worker.                                                               *)

OuterTest(w) == /\ At(w, "outer")
                /\ GoTo(w, IF w \in stopped \/ IsComplete THEN "exit" ELSE "pop")
                /\ UNCHANGED <<mainVars, queue, have>>

\* Variant of Take that takes a dummy for a peer.
TakeAnything(w) == /\ queue # <<>>
                   /\ queue' = Tail(queue)
                   /\ GoTo(w, "establish")

\* The front is popped; a dummy ends the thread.
Take(w) == /\ queue # <<>>
           /\ queue' = Tail(queue)
           /\ GoTo(w, IF Head(queue) = DummyIp THEN "exit" ELSE "establish")

\* pop_front's predicate is tested, at the call and after each wakeup.
PopFront(w) == /\ At(w, "pop") \/ At(w, "awake")
               /\ Take(w)
               /\ UNCHANGED <<mainVars, have>>

Wait(w) == /\ At(w, "pop") \/ At(w, "awake")
           /\ queue = <<>>
           /\ GoTo(w, "waiting")
           /\ UNCHANGED <<mainVars, queue, have>>

\* A condition variable may wake a thread for no reason.
WakeSpuriously(w) == /\ At(w, "waiting")
                     /\ GoTo(w, "awake")
                     /\ UNCHANGED <<mainVars, queue, have>>

Establish(w) == /\ At(w, "establish")
                /\ GoTo(w, "session")
                /\ UNCHANGED <<mainVars, queue, have>>

\* The connection is not established, or a receive throws: the outer loop.
ConnectionFails(w) == /\ At(w, "establish") \/ At(w, "session")
                      /\ GoTo(w, "outer")
                      /\ UNCHANGED <<mainVars, queue, have>>

\* The inner loop finds the download complete.
SessionEnds(w) == /\ At(w, "session") /\ IsComplete
                  /\ GoTo(w, "outer")
                  /\ UNCHANGED <<mainVars, queue, have>>

\* havePieces grows, whatever it holds already.  The first count that is past
\* isComplete's value stands for all greater ones, for which it is false too.
PublishPiece(w) == /\ At(w, "session")
                   /\ have' = IF have + Header > TotalPieces THEN have ELSE have + 1
                   /\ UNCHANGED <<pc, mainVars, queue>>

\* A keep-alive: start returns.
SessionExits(w) == /\ At(w, "session")
                   /\ GoTo(w, "exit")
                   /\ UNCHANGED <<mainVars, queue, have>>

-----------------------------------------------------------------------------
(* The main thread.                                                        *)

\* Variant of Dummies whose peers have no ip.
DummiesUnnamed == [i \in 1 .. Cardinality(Workers) |-> ""]

\* Variant of Dummies that is one short.
DummiesOneShort == [i \in 1 .. Cardinality(Workers) - 1 |-> DummyIp]

Dummies == [i \in 1 .. Cardinality(Workers) |-> DummyIp]

MainGoesOn == UNCHANGED <<pc, queue, stopped, have>>

\* The loop ends, and terminate has a dummy to push for each thread.
LoopEnds == /\ main = "test" /\ IsComplete
            /\ ending' = TRUE
            /\ toPush' = Dummies
            /\ main' = "push"
            /\ UNCHANGED due
            /\ MainGoesOn

\* Else it sleeps for 100 ms and tests again.
LoopAsks == /\ main = "test" /\ ~IsComplete
            /\ due \/ queue = <<>>
            /\ main' = "ask"
            /\ UNCHANGED <<toPush, due, ending>>
            /\ MainGoesOn

\* The answer has no peers: the queue is left alone.
AnswerEmpty == /\ main = "ask" /\ <<>> \in TrackerLists
               /\ due' = FALSE
               /\ main' = "test"
               /\ UNCHANGED <<toPush, ending>>
               /\ MainGoesOn

Answer == /\ main = "ask"
          /\ toPush' \in TrackerLists \ {<<>>}
          /\ due' = FALSE
          /\ main' = "clear"
          /\ UNCHANGED ending
          /\ MainGoesOn

\* Nobody catches what decodeResponse throws.
AnswerThrows == /\ main = "ask" /\ TrackerThrows
                /\ main' = "dead"
                /\ UNCHANGED <<toPush, due, ending>>
                /\ MainGoesOn

\* Variant of Clear that drops nothing.
ClearNotifiesOnly == /\ main = "clear"
                     /\ pc' = [w \in Workers |-> IF pc[w] = "waiting" THEN "awake" ELSE pc[w]]
                     /\ main' = "push"
                     /\ UNCHANGED <<queue, toPush, due, ending, stopped, have>>

\* clear: the peers are dropped and notify_all called.
Clear == /\ main = "clear"
         /\ queue' = <<>>
         /\ pc' = [w \in Workers |-> IF pc[w] = "waiting" THEN "awake" ELSE pc[w]]
         /\ main' = "push"
         /\ UNCHANGED <<toPush, due, ending, stopped, have>>

\* Variant of PushBack that notifies only if the queue was empty.
PushBackIfEmpty == /\ main = "push" /\ toPush # <<>>
                   /\ queue' = Append(queue, Head(toPush))
                   /\ toPush' = Tail(toPush)
                   /\ main' = IF queue = <<>> THEN "notify" ELSE "push"
                   /\ UNCHANGED <<pc, due, ending, stopped, have>>

PushBack == /\ main = "push" /\ toPush # <<>>
            /\ queue' = Append(queue, Head(toPush))
            /\ toPush' = Tail(toPush)
            /\ main' = "notify"
            /\ UNCHANGED <<pc, due, ending, stopped, have>>

\* notify_one wakes a thread that waits, if there is one.
NotifyOne == /\ main = "notify"
             /\ \/ Those("waiting") = {} /\ UNCHANGED pc
                \/ \E w \in Those("waiting") : GoTo(w, "awake")
             /\ main' = "push"
             /\ UNCHANGED <<queue, toPush, due, ending, stopped, have>>

AllPushed == /\ main = "push" /\ toPush = <<>>
             /\ main' = IF ending THEN "stop" ELSE "test"
             /\ UNCHANGED <<toPush, due, ending>>
             /\ MainGoesOn

Stop(w) == /\ main = "stop" /\ w \notin stopped
           /\ stopped' = stopped \union {w}
           /\ UNCHANGED <<pc, main, queue, toPush, due, ending, have>>

AllStopped == /\ main = "stop" /\ stopped = Workers
              /\ main' = "join"
              /\ UNCHANGED <<toPush, due, ending>>
              /\ MainGoesOn

Join == /\ main = "join" /\ Those("exit") = Workers
        /\ main' = "done"
        /\ UNCHANGED <<toPush, due, ending>>
        /\ MainGoesOn

\* PEER_QUERY_INTERVAL passes.
Minute == /\ main # "dead" /\ ~due
          /\ due' = TRUE
          /\ UNCHANGED <<pc, main, queue, toPush, ending, stopped, have>>

\* Nothing runs any more.
Finished == main \in {"done", "dead"} /\ UNCHANGED vars

-----------------------------------------------------------------------------

InQueue(w) == OuterTest(w) \/ PopFront(w) \/ Wait(w)

InConnection(w) == \/ Establish(w) \/ ConnectionFails(w)
                   \/ SessionEnds(w) \/ PublishPiece(w) \/ SessionExits(w)

Terminate == \/ LoopEnds \/ PushBack \/ NotifyOne \/ AllPushed
             \/ AllStopped \/ Join \/ \E w \in Workers : Stop(w)

AskTracker == LoopAsks \/ AnswerEmpty \/ Answer \/ AnswerThrows \/ Clear

Next == \/ \E w \in Workers : InQueue(w) \/ WakeSpuriously(w) \/ InConnection(w)
        \/ Terminate \/ AskTracker \/ Minute \/ Finished

Spec == Init /\ [][Next]_vars

\* A thread that can run does so in the end.  A connection to which nothing is
\* left to say falls silent between two messages, and poll times out: the peers
\* that fall silent within one (OnlyRecvHolds of Wire) are assumed away.
FairSpec == /\ Spec
            /\ WF_vars(Terminate)
            /\ \A w \in Workers : WF_vars(InQueue(w)) /\ WF_vars(ConnectionFails(w))

-----------------------------------------------------------------------------
(* Properties.                                                             *)

\* No wakeup is lost: while a thread waits in pop_front, every peer in the
\* queue has a thread that is awake on its way to it, or main is about to
\* notify one, although push_back notifies after it has let go of the mutex
\* and other threads may take the peer first.
NoLostWakeup ==
    Those("waiting") # {} =>
        Len(queue) <= Cardinality(Those("awake")) + (IF main = "notify" THEN 1 ELSE 0)

\* What is left of a list of which some have been taken.
IsRest(s, list) == \E taken \in 0 .. Len(list) : s = SubSeq(list, taken + 1, Len(list))

\* The queue and what main has yet to push are the rest of one answer of the
\* tracker, and after it, in terminate, the dummies: however the workers take
\* peers while main clears the queue and fills it again, no peer of an answer
\* before is left, and none is skipped, out of turn or there twice.
PeersOfOneAnswer ==
    \E list \in TrackerLists \union {<<>>} :
        IsRest(IF main = "clear" THEN queue ELSE queue \o toPush,
               IF ending THEN list \o Dummies ELSE list)

DummiesQueued == {i \in DOMAIN queue : queue[i] = DummyIp}

\* From the end of the loop on there is a dummy in the queue, or still to be
\* pushed, for every thread that has not returned: none waits in pop_front
\* for ever, whichever of them take the dummies or return without one.
DummyForEach ==
    ending => Cardinality(Workers \ Those("exit")) <=
                  Cardinality(DummiesQueued) + Len(toPush)

\* When terminate has pushed its dummies no thread waits in pop_front any
\* more, and none will again: join never waits for one that nobody wakes.
NoneWaitsAtJoin == main \in {"stop", "join"} => Those("waiting") = {}

\* terminate returns: every thread is joined.
PoolEnds == ending ~> main = "done"

=============================================================================
