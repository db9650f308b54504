# Verification of home-made-bittorrent

TLA+ models of the BitTorrent client in `src/`, checked with TLC and proved about
with TLAPS. Paths below are relative to `src/src/`, except `lib/`.

## The system

| Component | State | Operations | Talks to |
|---|---|---|---|
| `core/Piece`, `core/Block` | status and bytes of each block | `nextRequest`, `blockReceived`, `isComplete`, `isHashMatching`, `getData`, `reset` | owned by PieceManager |
| `core/PieceManager` | `missingPieces_`, `ongoingPieces_`, `pendingRequests_`, `havePieces`, `lock_` | `initiatePieces`, `nextRequest`, `blockReceived`, `isComplete`, `bytesDownloaded` | PeerRegistry, DiskManager; called by all workers and the main thread |
| `core/PeerRegistry` | peer id -> bitfield, a mutex | `addPeer`, `updatePeer`, `removePeer`, `hasPeer`, `peerHasPiece` | called by workers and by PieceManager |
| `infra/DiskManager` | one output stream with its put position | `allocateFile`, `writePiece` | called by PieceManager, without a lock |
| `network/PeerConnection` | socket, `peerId_`, `peerBitField_`, `choked_`, `requestPending_`, `terminated_` | `start` (a thread each), `stop`, `closeSock` | Queue, PieceManager, PeerRegistry, one remote peer |
| `infra/Queue` | deque, mutex, condition variable | `push_back`, `pop_front`, `clear`, `is_empty` | main thread pushes, workers pop |
| `core/TorrentClient` | thread pool, connections | `start`, `downloadFile`, `terminate` | tracker, Queue, workers, TorrentState |
| `core/TorrentState`, `infra/DatabaseService` | the record of downloaded torrents | `getState`, `storeState` | called by TorrentClient |
| `network/PeerRetriever` | none | `retrievePeers`, decoding | tracker, called by TorrentClient |
| `network/connect`, `BitTorrentMessage` | none | `createConnection`, `sendData`, `receiveData`, framing | called by PeerConnection |
| `utils`, `lib/bencode` | none | parsing and encoding | called by the above |

Fifty worker threads run `PeerConnection::start` by default. They share the
PieceManager, the PeerRegistry and, through the PieceManager, the output
stream; the main thread polls `isComplete`, feeds the queue and shuts the pool
down. The hard behaviour comes from that sharing: `lock_` covers the choice of
a block and the two ends of `blockReceived`, while storing, testing for
completeness, hashing and writing happen in between without it. Connections
break at any time, requests expire and are handed out twice, peers lie, TCP
cuts messages anywhere, the program may be killed and started again, and
`isComplete` is an equality that must be observed at the right moment.
`PROJECT.json` lists the hazards line by line.

What makes each component correct:

* PieceManager: no piece is lost or started twice; an outstanding request is
  known, and only for a block that is awaited; a retrieved block is not
  requested again; a complete piece gets published; what is counted is on disk.
  The blocks cut a file up without gaps.
* PeerRegistry: it shows what the peers have announced.
* DiskManager: the data of a piece lands where the piece belongs.
* PeerConnection and sockets: whole messages in order; no descriptor leaks; no
  peer holds a worker for ever that a timeout could free; never waits for an answer nobody owes it.
* TorrentClient and Queue: no wakeup is lost; every worker ends.
* TorrentState: a row is inserted once; what is recorded as downloaded stays.
* Bencode: the info hash is the one everybody else computes; a key is found.

## Modules

Four groups, each around one state machine.

**The download** (`PeerConnection`, all workers, the granularity of the locks)

* `Torrent`: pieces, blocks, and the assumption on their numbers.
* `PeerRegistry`: the shared map. The three updating methods are single steps,
  the two reading ones are operators without a lock, as in the code. A peer that
  announces an empty string as its bitfield is in the map, but is none for
  `hasPeer` (`EmptyBitField`).
* `DiskManager`: put position and file contents, piece by piece. `writePiece`
  is two steps, `SeekToPiece` and `WriteAtPutPos`.
* `PieceManager`: the state of PieceManager and its pieces; one operator for
  each stretch of `nextRequest` and `blockReceived` between two points at which
  another thread may run.
* `PeerConnection`: the workers. `pc[w]` names the stretch of code the worker
  runs next; the actions compose the operators above into the handlers of
  `PeerConnection::start`. `lock_` is held across steps only at label `pick`,
  so every locked step requires that no worker is there. `closeSock` is two steps:
  `isComplete` takes `lock_` and lets go of it (`CloseSock`), and `removePeer`
  follows without it (`Deregister`, at label `remove`), so that it may fall
  between another worker's `hasPeer` and `getRarestPiece`. Queue and remote peers
  are nondeterministic inputs, limited by `BitFields` and `PeerEvents`.
* `PieceLifecycle`: what all of this promises while peers are honest. Pieces go
  missing, ongoing, done and blocks missing, pending, retrieved, never back.
  `PeerConnection` implements it (`StagesInOrder`).

**A connection** (`Wire`, one worker, byte by byte)

* `BitField`: `hasPiece` and `setPiece` on the bytes of a bitfield.
* `Wire`: `createConnection`, `receiveData`, `BitTorrentMessage`, the handshake,
  `receiveBitField` and the reading of messages. `pc` follows `receiveData`'s
  poll, its read of the length and its loop; `Arrive` delivers one byte, so that
  TCP may cut a message anywhere; `late` is the clock of `kReadTimeout`.
* `FifoChannel`: what a worker expects of its socket, a prefix of the peer's
  messages, each whole and once. `Wire` implements it (`FramesKept`).

**The pool** (`WorkerPool`, the main thread and the workers around the queue)

* `WorkerPool`: `pop_front` as test, wait and wakeup (spurious ones included),
  `push_back` as push and, after the unlock, notify; `downloadFile`'s loop,
  `clear`, and `terminate` with its dummies, flags and joins. A connection is a
  session that publishes pieces until it ends.
* `CompactPeers`: the compact form of a list of peers, six bytes each.
* `Tracker`: `retrievePeers` from the answer on, compact and long form, with its
  errors and the exceptions nobody catches.

**The program** (`Session`, one run after another)

* `Bencode`: Decoder, Encoder and the recursive `getValue`, on tokens.
* `TorrentFile`: the getters of TorrentFileParser and the info hash.
* `PieceLayout`: `initiatePieces`, and what a layout is for (`Tiles`).
* `Session`: `main`, the constructor of PieceManager, `TorrentClient::start` and
  the table of downloads; a run may be killed at any point and another started,
  with any torrent file. What the getters read of a file is the constant
  `Metadata`, about which it assumes only types.
* `SessionFiles`: the value that `Metadata` has, by `TorrentFile` and `Bencode`,
  and what is right about it.

`MCPeerConnection`, `MCWire`, `MCWorkerPool` and `MCSession` give the constants
their values for TLC. `PeerConnectionProofs`, `RequestProofs`,
`SerialProofs`, `WorkerPoolProofs`, `WireProofs`, `BitFieldProofs` and
`SessionProofs` hold the theorems.

How the groups fit: `WorkerPool` abstracts a connection to "it ends"; `Wire`'s
`OnlyRecvHolds` says when that fails. `PeerConnection` takes whole messages in order, which
is `FramesKept`, and bitfields as sets, which is `RegistryShowsAnnounced` with
`SetPieceAddsPiece`. `Session` takes a download as two numbers, the pieces counted
and the pieces that lie in their places in the file, and relates them by nothing:
a write may land elsewhere (`disk_race`) and a piece may be counted twice
(`counted_twice`).

The definitions called "Variant of ..." are deliberate mistakes; the list
`mutants` of `PROJECT.json` says which property each one breaks.

### How the state corresponds to the code

* A Piece is its index, a Block the pair of piece and position. `status` and
  `data` are the fields of the blocks of all pieces, so that an object that has
  been freed is seen as memory that still holds its last contents. A step on a
  freed piece either goes on with these (the usual outcome) or ends the process
  (`FreedPiece`, `FreedBlock`). Corruption of other objects by such a step is
  not modelled.
* The assertion in `Piece::getData` may be compiled in (Makefile) or out (CI
  release): `AssertFails` and the action that goes on are both possible.
* `requestPending_`, `choked_` and `peerId_` survive a reconnection unless
  `closeSock` resets them, as in the code.
* In `PeerConnection`, `conn` stands for `sock_` and `peerBitField_`, bytes are
  `good` or `bad`, whatever the peer, and time is an age per request that stops
  at `MaxPendingTime` (5 s in the code, one step in the runs). A remote peer
  answers the request it holds, once, or never.
* `Header` is the literal 4 of `isComplete`. The runs of the download and the
  pool scale it to 1 with three pieces (0 in `download_serial`), which keeps the
  order of events at the end: missing pieces run out before, or after, the count
  is reached. `Session` keeps 4.
* In `Wire` a peer is a script: the torrent it serves, the bytes it writes, the
  messages in them and where each ends; what follows the last need not be a
  message. `delivered` records what the code handled. A write of `setPiece`
  beyond the bitfield is undefined: `WriteBeyondBitField` and `HandleMessage` are
  both possible. `refused` marks descriptors that `establishNewConnection` leaves
  open when it returns an error.
* In `WorkerPool` a queue operation is one step under the mutex; `terminated_`
  is `stopped`, set one worker at a time; `have` is the size of `havePieces`. It
  grows at every publication, without a bound: its first value past the one
  `isComplete` looks for stands for all greater ones. `Session` has it the same way.
  `PeerConnection`, which has no queue, takes `terminate`'s dummies and flags as
  one step.
* In `Bencode` a token is a character, a whole integer or a whole string; what
  is malformed is the token `?`. The decoder also takes integers with a plus
  sign, a minus zero, and lengths with leading zeros, and the encoder writes them
  without: such a token is `NotPlain`, and decoding and encoding it makes it plain.
  SHA-1 is taken to tell texts apart, so that an info hash is the text it is taken
  of. `KeyOrder` is the order of `std::map`. `SearchFindsKey` accepts any value that
  `getValue` may find: which of several it should be is stated nowhere.
* In `Session` `disk` maps a file name to the torrent and number of pieces that
  lie in it, since two torrents may have the same name. `WritePiece` leaves any
  number of pieces in place, `PublishPiece` counts one more. A file without `info`
  passes the constructor, which truncates its output, and ends the process in
  `CheckRecord`.

## Runs

| Run | Instance | What it shows |
|---|---|---|
| `download_concurrent` | 2 workers, 2 peers that announce all pieces or piece 0 only, 3 pieces, 4 blocks, good blocks, choking, timeouts | the invariants of the bookkeeping, three action properties (what may be requested, and which steps may be fatal), and the refinement of `PieceLifecycle` |
| `download_corrupt` | 2 workers, 2 seeders, 2 pieces, 3 blocks, bad blocks, timeouts, failed connections | tracked requests and complete pieces survive resets under another worker's feet; how often a piece may be counted; when a pending flag outlives its connection |
| `download_serial` | 2 workers that take turns in `blockReceived`, 2 peers that announce all pieces or an empty bitfield, 2 pieces, bad blocks, every event but choking | the file is right and no entry is stale; the process still dies, but only when a peer leaves the registry at the wrong moment |
| `wire` | 2 connections, 6 peers, a 3-byte handshake | framing, descriptors, the registry and what may hold a worker, with every cut of the bytes and every time of the timeout |
| `session` | 23 torrent files, any number of runs and crashes | insertions never fail, the info hash is that of the file exactly if its numbers are plain, keys are found, and which layouts are right |
| `pool` | 3 workers, 3 pieces, 15 tracker answers | no wakeup is lost, the queue holds the rest of one answer, dummies suffice, nobody is left waiting when threads are joined, `terminate` returns, peers are those the tracker lists |
| `disk_race` | 2 workers | violated: data of one piece in another's place |
| `counted_twice` | 2 workers | violated: one piece is twice in `havePieces` |
| `starved_endgame` | 2 workers | violated: null although blocks are missing |
| `terminate_stops` | 2 workers | violated: a worker outlives `terminate` |
| `other_torrent` | 1 worker, a peer of another torrent | violated: it gets through the handshake |
| `record_truncated` | 2 runs of one torrent | violated: the second erases what the first recorded |

The bounds. *Download*: two workers are enough for every pairwise interleaving
of the unlocked code; one piece with two blocks gives the first block (no
pending entry), a later block (with one) and two workers in one piece, and two
more pieces give two pieces in progress and one to start. `MaxPendingTime = 1`
lets a request be fresh or expired. In `download_corrupt` the entries of
`pendingRequests_` can pile up without end (stale entries of reset blocks), so
that states with more than two are not extended (`FewPendingRequests`).
Its `Header` is 1 of 2 pieces, so that a publication by the second worker takes
the count past `isComplete`'s value while the first has already left its peer.
It goes without choking because `PendingIsInFlight` fails with it: a choking peer
discards the request and `requestPending_` stays set. `download_serial` does not
extend the states in which two workers are in the critical code, from the decision
to store a block to the end of its `blockReceived`, and `pick` (`BlocksInTurn`);
nothing in the code keeps them out of there, so that its properties are about the
code with a lock around that stretch. TLC checks the invariants in the first state
outside of it, too. Two pieces are enough there for one to be written while the
other is requested or reset; `Header` is 0 so that both are. Its `OnlyRemovalKills`
is not idle: the death it admits is reached.
*Wire*: two connections are the least in which something of the first (a
descriptor, a bitfield) can be wrong in the second. The scripts contain each way
in which a message can be malformed, a Have inside and outside the bitfield, a
length that is cut short and one that is out of range. Of the 68 bytes of a
handshake only their number matters. *Session*: the files are one of each kind
that takes another path through the getters or through `initiatePieces`; lengths
are real. *Pool*: three workers so that a wakeup may go to one, the
peer to another and the third be left waiting; the answers are one of
each kind `decodeResponse` tells apart, among them 0.0.0.0, which is a dummy.

### Fairness

* `PeerConnection!FairSpec` (`terminate_stops` only): weak for the code of each
  worker and for the main thread's poll, which only the scheduler can hold up;
  strong for a successful connection (the tracker hands out peers again and again,
  and among them is one that accepts), for the unchoke and for the answer to a
  request a peer goes on holding. That a download ends is not claimed: with two
  workers it is false in several ways, of which `terminate_stops` and
  `starved_endgame` show two; a lost first block, which nobody requests again, and
  a peer id shared by two connections, one of which closes, are others.
* `Wire!FairSpec`: weak for the worker's code and for time, and nothing for
  `Arrive`: a peer may stop at any byte. Only the poll before a length has a
  timeout; the `recv` of the handshake and of the rest of a message blocks, and
  a peer that stops there holds the worker for ever. `OnlyRecvHolds` says that
  nothing else does, unless bytes go on arriving.
* `WorkerPool!FairSpec`: weak for the main thread in `terminate` and for the
  workers around the queue. Weak for `ConnectionFails`, which is an assumption
  about the peers: those of `OnlyRecvHolds`, which fall silent inside a message,
  and that of `terminate_stops`, which keeps talking for ever to a worker that does
  not look at its flag, are outside of it. A spurious wakeup, a tracker's answer
  and the minute between queries are not assumed to come.

### What the failing runs and the models show

Six disagreements between the code and what its comments and messages say have
a run and an entry under `findings`. For two of them theorems say under which
condition the property holds, which is also what a repair would have to bring
about:

* `disk_race`: that workers take turns in `blockReceived`, or, as long as peers
  are honest, that no two are between `seekp` and `write`
  (`FileHoldsPiecesInTurn`, `FileHoldsPiecesHonest`).
* `counted_twice`: that workers take turns (`CountedOnceInTurn`). Two workers that
  store the last two blocks of a piece may both see it complete; the second
  looks for a freed Piece (`FreedPiece`) and counts it again all the same.
  `CountsAreByThoseInside` says how far this can go without turns: once for each
  worker that was handling the piece when it was first published.

Taking turns does not repair everything: `OnlyRemovalKillsInTurn` says that the
process can then die in one way only, and TLC finds that way: `closeSock` of one
worker removes a peer while another, connected to the same peer id, is between
`hasPeer` and `getRarestPiece` (or one connects to the same id, which announces an
empty bitfield this time).

Others were met while modelling and are part of the model, with no statement in
the repository to hold them against:

* A worker that leaves its peer because `isComplete` holds keeps `requestPending_`.
  If another publication makes `isComplete` false again, it connects with the stale
  flag and waits for an answer nobody owes it: the second half of
  `PendingIsInFlight`.
* The first block of every piece has no entry in `pendingRequests_`. If its
  connection breaks, nobody requests it again; hence `b[2] > 1` in
  `RequestsTracked`.
* `getRarestPiece` gives a null pointer for a peer that has none of the missing
  pieces, and it is dereferenced (`NullRarest`). `OnlyRacesKill` says
  that this, and a piece that another worker has published (`FreedPiece`), are the
  only ways to crash with honest peers: a freed block and the assertion in `getData`
  need a reset.
* A file whose size is a multiple of the piece length, such as the
  `debian.torrent` of the repository, gets a last block of length zero: the
  last piece is requested with length 0 and cannot pass its hash. `LayoutTiles`
  says exactly which files are cut up right, and `TilesIffRegular` proves it.
* A torrent of exactly four pieces is complete at once; one of fewer never is.
* A torrent file with `i+5e` or `04:name` in its `info` is accepted, and its info
  hash is that of another text: `InfoHashOfFile` says exactly when the hash is right.
* A tracker that lists 0.0.0.0 hands out dummies; the pool still ends.

## Proofs

All theorems hold for every value of the constants that the `ASSUME`s allow.

**`PeerConnectionProofs`** needs nothing of the peers' behaviour.
`TypeCorrect`: by three lemmas on groups of variables. `PiecesAreConserved`:
`PiecesConserved` is not inductive, because `Publish` acts on the piece of the
worker's target; `TargetsStarted` (a target's piece is not missing) is added.
The lemmas on `RemoveAt` and `Append` say what happens to the elements of a
sequence without duplicates. `CompletePiecesAreInHand`: needs in addition
`TargetsSingle`, and conservation for the step that publishes. It is the reason
why the completeness test may run outside the lock at all: the store that
completes a piece is followed by a test of the same worker that sees it.

**`RequestProofs`** builds on it. `StepCases` sorts the steps into those that
leave pieces and requests alone (`QuietStep`) and the others, so that each
invariant is shown for the few steps that can disturb it.

* `RequestsAreTracked` needs nothing of the peers. It rests on
  `MissingUntouched`: a missing piece has no block that was requested, which
  is why the block a piece is started with is its first.
* The others assume `HonestPeers` (all contents are good), without which they
  are false: a reset leaves stale entries behind. `BlocksInv` says that what is
  stored is good, what is awaited or being stored was requested, and what is
  hashed, written or published is complete, so that no worker ever is at
  `reset`. `EntriesInv` says that entries are for pending blocks, one for
  each, and none for a block that a worker is about to store. Together
  (`HonestInv`) they are inductive; `PendingRequestsStayLive`,
  `RetrievedNeverRequested` and `OnlyExpiredReissued` follow from them, and so
  does `OnlyRacesAreFatal`: an entry with a pending block is of an ongoing piece,
  which is not freed, and what `getData` is called on is complete.
* `EntriesInv` is kept also when a piece is reset, if the reset piece is complete
  and what is stored was requested (`ResetsComplete`, `StoresRequested`). Honest
  peers give the two because nothing is reset, turns because nobody else is in the
  piece; so `EntriesStep` serves both.
* `ImplementsLifecycle` is the refinement. The initial states map to initial
  states, and a step of `SendRequest`, `Store` or `Publish` maps to one of
  `Request`, `Retrieve`, `Finish` or to nothing, every other step to nothing.

**`SerialProofs`** is about any number of workers, with peers that may send bad
blocks. Two of its theorems are about the code as it is:

* `CountsAreByThoseInside`: a piece is counted by `Publish`, which gives up the
  worker's block, and a worker gets a block only of a piece in `ongoingPieces_`,
  which by conservation has not been counted. So the count of a piece and the
  workers in it together never exceed the number of workers. `PlacesAppend` says
  what an append does to the number of places of a piece in `havePieces`.
* `PendingStaysInFlight` needs peers that do not choke. It rests on `PendingReset`:
  a worker at `remove` has no request pending; one at `outer` only if the count has
  reached `isComplete`'s value, for `closeSock` resets the flag and the inner loop
  is left without it only then; one at `connect` only if the count has gone past
  that value, for the outer test stops it at the value itself. The count never goes
  down (`CountGrows`).

The others are about behaviours in which the workers take turns: `BlocksInTurn` (in
`blockReceived` and at `pick`) or `WritesInTurn` (in `writePiece`). The code does
not enforce either; these theorems say what the lock it lacks would bring, and
`disk_race` and `counted_twice` are the counterexamples without it.

* `FileHoldsPiecesInTurn` rests on `WritesInPlace`: from the hash to the
  publication the data matches, then the stream stands in the right place, then
  the file has the data. `FileHoldsPiecesHonest` does with `WritesInTurn`,
  because with honest peers `HonestInv` keeps the data of a complete piece right
  however workers interleave.
* `PendingRequestsStayLiveInTurn`: `RequestInv` adds to `EntriesInv` that entries
  and targets are of ongoing pieces, since nobody else publishes or resets the
  piece a worker is in. That `BlocksInTurn` keeps workers out of `pick`, too, is
  needed: TLC finds a worker that is handed a block again while another is about
  to store it. `CountedOnceInTurn` follows from the same invariant.
* `OnlyRemovalKillsInTurn` needs peers that announce all pieces or an
  empty bitfield (`FullPeers`). `RequestInv` excludes the freed piece, the freed block and the
  assertion; `RegisteredFull` and `PicksFromMissing` (a worker at `pick` has a
  missing piece to find) leave of the null rarest piece only the case that the
  peer is not registered any more.

**`WorkerPoolProofs`**: `NoWakeupIsLost` is inductive by itself, with
`TypeCorrect`. `EveryThreadHasADummy` needs `EndingInv`: once in `terminate`, the
main thread never clears the queue again and pushes nothing but dummies. The
lemmas count the dummies of a queue that loses its head or gains an element.
`NoThreadLeftWaiting` joins the two: when `terminate` joins, the queue holds a
dummy for every thread that has not returned, so that a waiting thread would be a
lost wakeup. `QueueHoldsOneAnswer` says of `PeersOfOneAnswer` that it is
inductive with `ToPushInv` (main has nothing to push before it asks the tracker,
and one whole answer when it clears the queue) and `EndingInv`. The lemmas are about suffixes: what is left
of a list loses its head and stays the rest of it, whether the head goes from
`toPush` to the queue or from the queue to a worker.

**`WireProofs`**, with `ScriptsAssumption` (peers send bytes): `TypeCorrect`
rests on `TypeInv` (what was read was taken out of the socket, a worker that reads
holds an open descriptor). `SocketsAreClosed` rests on `DescriptorInv`: a worker
that looks for the next peer has either no descriptor or one that was given up.
`AnnouncedIsShown` rests on `AnnouncedInv`, which relates the bits to what was
received, and on `SetPieceAddsPiece`. `FramesAreKept` is the refinement of
`FifoChannel`, for every cut of the bytes and every script of which
`FramesAssumption` says that its messages are what `toString` writes and end where
it says. `FrameInv` relates the bytes consumed to the end of the last message
handled; what is handled next is then the next frame (its length by its first
four bytes, its id and payload by the rest), and bytes that are no message are
never handled as one.

**`SessionProofs`** holds for all files, runs and crashes, and any metadata of the
right types. `RunInv` says that a run that was constructed has a file of which there
is metadata, and that one that downloads has found no row of its torrent.
`TypeCorrect` and `InsertsOnce` (the insertion never meets its own row) follow.
`LayoutsTile` applies `TilesIffRegular` to whatever a run reads, which says by
lemmas on quotient and remainder which layouts are right.

**`BitFieldProofs`**: `setPiece` changes one bit (`SetPieceSetsOneBit`), so that
the bytes implement the set of pieces `PeerRegistry` works with
(`SetPieceAddsPiece`). The masks are a table of eight values, so that the
cases are finite. `CompactListsPeers`: decoding the compact form of any list of
peers gives that list, for `BytesOfPeer` finds the six bytes of each in their
place.

Only model-checked:

* Liveness, which the prover cannot do: `OnlyRecvHolds`, `PoolEnds`. What makes the
  second true is proved as safety (`NoThreadLeftWaiting`).
* `DecodesWhatItEncodes`, `InfoHashOfFile` and `SearchFindsKey` (`SessionFiles`) and
  `PeersAsListed`: they reach the recursive operators of `Bencode`, which the
  prover cannot use, and would need induction over the data. Of the last the
  compact form is proved (`CompactListsPeers`).

## Not modelled

* The progress display (`trackProgress`, `displayProgressBar`, `formatTime`),
  Logger and the PrettyPrinter of `lib/bencode`: they only print.
* The HTTP request to the tracker and its parameters (`urlEncode`, `hexEncode`):
  the cpr library sends them, and no state depends on them.
* Failures of `sendData`, and the SIGPIPE that a second send on a connection the
  peer has reset raises: it would end the process from any state.
* `createConnection` by its outcome only (a descriptor or an error); its
  non-blocking connect and `select` are not taken apart.
* Integers beyond int64 in a torrent file: the decoder leaves a value it never
  set.
* The bytes within a bencode token, beyond whether it is plain, and SQLite.
* The vendored code (`lib/` but for bencode) and the data files.
* Data races on `terminated_` and on the registry's map as such: a read sees the
  value before or after a write, never something else.

## Plan

1. (done) The four groups above, the two refinements, and their theorems.
2. (done) Which lock, or which order of steps, would repair what the failing runs
   show, as theorems about behaviours in which workers take turns.
3. (done) The steps of `closeSock` taken apart, counts without bounds, and what
   remains true of counting, crashing and waiting for any number of workers.
4. The refinement of `WorkerPool`'s connection by `Wire`, for several workers.
