# Verification of Waves Fork Detector

TLA+ specifications of the fork detector, their TLC models and their TLAPS proofs. The
specifications are translated from the Go code; definitions keep the names of the functions
they stand for, and `PROJECT.json` maps every one of them to its lines.

## 1. Inventory

The detector connects to the nodes of a Waves network, stores every block and micro-block
they announce in one tree, remembers for every node the block it is on (its *leash*), and
answers HTTP requests about the forks it sees.

| Part | State | Operations | Talks to |
|---|---|---|---|
| Block store, `chains/` | LevelDB tables: blocks, index of IDs, skip-list links, heads, leashes, counters; a read-write mutex | `PutBlock`, `PutMicroBlock`, `MoveLeash`; queries `LastIDs`, `LCB`, `Fork(s)`, `ForkGenerators`, `Stats` | called by Distributor, Loader, API |
| Loader, `loading/` | the peer being loaded, its state machine and queue, failure counters, timer and ticker | `sync`, `tick`, `handleIDs`, `handleBlock`, reports `OK` and `Fail` | reads the registry, writes the store, asks a peer for IDs and blocks |
| Distributor, `distributor.go` | unbuffered channels to the Loader | one handler per kind of network message | writes the store and the registry, sends to the Loader |
| Registry, `peers/` | stored peers; connections and pending addresses in memory | register, unregister, mark as hostile, scores, available addresses, versions to try | called by everyone |
| Respawn, Listener, Connection manager | a timer; sockets | dial, accept, handshake | registry, network library |
| API, `api/` | the HTTP server | status, peers, heads, leashes, forks; a documentation page (Swagger UI) | reads store and registry |
| `forkdetector.go` | none | start, ordered shutdown | all |

What is hard here:

* **Two batches in one call.** `PutBlock` writes the block and then the leash. A crash or a
  failing write in between leaves the first batch only.
* **Derived tables.** Links, heads and the index repeat what the parent IDs say; they are
  maintained by hand, in any order of key blocks and micro-blocks.
* **The skip list.** `lca` and `fastBackwardFarthest` index parent lists whose length depends
  on the height; mistakes show only for certain shapes of the tree.
* **Two writers per peer.** The Distributor stores blocks of a peer while the Loader is
  loading the same peer, and may run between any two calls of a Loader handler.
* **A state machine with absorbing states.** A peer loader left in `Idle` or `Done` is never
  released, and then nobody is synchronised any more.
* **Unbuffered channels and shutdown.** The Distributor waits for the Loader with every block
  and list it passes on; after the signal each of the two stops on its own.
* **Tables keyed by address, events by connection.** A node may be dialled, connect by itself
  and disconnect at the same time; dial failures and ends of connections are reported late, by
  different goroutines, and the registry only knows the address.
* **Error paths that skip the clean-up**: a read that fails in Respawn or in `UnregisterPeer`.
* **Paths in four places**: routes, mount point, relative references of the page, description.

Correctness of each part: the store is an append-only tree with leashes into it, whatever
crashes; its derived tables agree with that tree; queries agree with what the parent IDs say;
the Loader always waits for a peer or has none, loses nothing it received, and gives up on
silent peers; no connection or pending address stays in the registry after its goroutine has ended, nodes are
dialled again and again with all versions; services wait for each other only until they stop;
the documentation describes the routes.

`PROJECT.json` lists the hazards at their lines, with the properties that would catch them.

## 2. Modules

| Module | Stands for |
|---|---|
| `KeyValue` | a LevelDB table as a partial function, `Put`, `PutAll` and `Delete` (external library) |
| `Loops` | a Go loop as the iteration of its body |
| `History` | abstract specification: a growing tree of IDs and one leash per peer |
| `Chains` | the tables of `chains/storage.go` and the writing operations of `chains/linkage.go` |
| `ChainsProofs`, `SkipLinksProofs` | proofs about `Chains`: the tables and the refinement, the skip lists |
| `ChainQueries` | the reading operations, as operators over a state of `Chains` |
| `QueriesProofs` | proofs about `ChainQueries` |
| `Loading` | `loading/loader.go`, `peer_loader.go` and `queue.go`, with the Distributor's writes |
| `LoadingProofs` | proofs about `Loading` |
| `LoadingGhosts` | `Loading` and a history variable that remembers the Distributor's last block per peer |
| `Detector` | `Loading`, the handlers of `distributor.go` that use it, the channels between them, and `main` from the signal on |
| `DetectorProofs` | proofs about `Detector`, which reuse those about `Loading` |
| `Registry` | `peers/` with its callers: Respawn, Listener, Connection manager and the Distributor's handlers of connections, addresses and scores |
| `RegistryProofs` | proofs about `Registry` |
| `ApiDocs` | the routes and files of `api/api.go`, the page of `api/swagger/` with its initializer, and a browser |
| `ApiDocsProofs` | proofs about `ApiDocs` |
| `NaturalNumbers` | least element, induction and recursion over the natural numbers, iterations |
| `MCChains`, `MCQueries`, `MCLoading`, `MCLoadingGhosts`, `MCDetector`, `MCRegistry`, `MCApiDocs`, `LoadingUniverse` | instances for TLC |

**Chains.** One variable per table or counter. A LevelDB batch is atomic, so a batch is one
action; `owed` is the leash that the call holding the mutex still has to write (`FinishPut`),
which may fail (`FailPut`) or be cut off (`Crash`). `NewLinkage` reopens the database. The
messages of peers are arbitrary sets, and nothing relates two of them: a block may have any
parent, and one total ID may be announced over several references. Scores are natural numbers
(`big.Int` in the code) with the numerator 2^64 as the constant `MaxBlockScore`; the panic of
`calculateScore` for a base target above the largest int64 ends the process before anything is
written, which is a `Crash`. Timestamps and the CBOR encoding are left out. `MoveLeash` carries the guard of its only caller. Reads take a
snapshot inside the mutex and are part of their action. Writes are not synced: a power loss may
drop a suffix of the batches, and every prefix of the batches is itself a reachable state.
Lookups never fail in the model for keys that exist: an error of LevelDB ends a call before its
batch is written, which is the behaviour in which the call does not happen.

**ChainQueries.** A query holds the read lock and sees one state. Where the code iterates over
a Go map or sorts with an unstable sort, the operator is the *set* of possible results; where
the code would index outside a slice the result is `Panic`. The loops of `getAncestors`,
`getBlocks`, `fastBackwardFarthest` and `lca` are iterations (`Loops`) of their bodies, which
are functions from the loop's variables to their next values; a loop that has ended stays where
it is, and the number of turns is the loop's own bound. The main chain is chosen in three places,
and each is translated on its own: the running maximum of `LCB` (`lcbTurn`), that of `Fork`
(`forkTurn`), which also fills the reply when it meets the peer's chain, and the sort of `forks`
(`longestOf`). The order in which Go iterates over the map is a bijection (`orders`), a set of
replies the replies for all orders. A count is a natural number (`Counts`):
Go's `make` panics on a negative one before the walk begins.

**Loading.** A handler releases the store's lock between two calls, so it is a sequence of
steps, one per call that changes the store; `pc` is the running handler and `Distribute` may
happen between any two steps. `requestBlocks` walks the list with one `HasBlock`/`MoveLeash` per
step, `appendBlock` and `handleFailure` put one block per step. The `stateless` state machine
queues an event fired inside a handler until it has returned, and sets the new state before it
runs the entry action: `OK` runs in `Idle`, `Fail` in `Done`. `late` abstracts the clock: more
than `timeoutDuration` has passed since the timestamp (the zero time for a new peer loader).
Blocks are their IDs with a constant parent and score. What the Loader asks for is left out and
answers are arbitrary lists of `Replies`; `Honest` restricts them to lists that start with a
known block, `StorageFails` lets every storage call fail. A failing `PutBlock` has three ways to
fail (`PutBlockFails`): the parent is missing, the block is not written, or it is and the leash is
not; it ends the handler of the Loader or of the Distributor (`DistributeFails`). `sync` and `OK` read the registry and
the leash in one step: each value is read once, and the steps that change them are independent.

**Detector** extends `Loading`. `package` is what the Distributor holds while it waits in a send
to the Loader; while it does it handles nothing else, so every other handler requires
`selecting`. A block is stored first and sent then, also if its parent is missing. `receive` is
the case of the Loader's `select`; what the Loader does not expect it drops. `cancel` is the
signal, after which the two loops return on their own and `main` waits for the Loader, then for
the Distributor, and closes the channels. `DetectorAssumption` says that peers may send any
list: in this module lists reach the Loader through the channel, which the flag `Honest` of
`Loading` would restrict once more. The Listener, Respawn and the API stop before the Loader in
`main` and wait for nobody modelled here. The micro-block handler stores a block and sends
nothing, like `Distribute` in `Loading`; respawn's dial failures unregister a peer at any time.

**Registry.** Each method of the registry holds its mutex throughout and is one step. A
connection is a goroutine, of Respawn (`Out`) or of the Listener (`In`), that goes through
`phase`: started, handshake, up, down (closed, its end not yet noticed), returned (`Connect` has
returned an error, which Respawn still has to handle; errors of `Accept` are only logged). Events
for the Distributor wait in `inbox`, in order per connection and in any order between
connections. `RegisterPeer` chooses the version, the network and the declared address of the
handshake; `checkPort` has four outcomes (`Declarations`). A version is its minor number, a port
is there or not, a score is there or not, and times are due or not: `DelayPasses` stands for the
ten minutes of `delay`. Any storage call may fail with `StorageFails`; `broken` records that a
*read* has failed at one of the two places where the code leaves a table or a timer behind
(`TakeAvailableAddresses` in Respawn's loop, which is not re-armed then, and `UnregisterPeer`),
and the properties about left-overs are claimed until then. `establishConnections` is a turn of
that loop that succeeds, `handleEvents` any turn. A failure in `SuggestVersion`
(`SuggestVersionFails`) leaves nothing behind: Respawn unregisters the address. `Restart` keeps the storage only, at any time. Left out: the
detector's own address and addresses that are not IPv4, which are refused at every entrance;
names and nonces; `MarkAsHostile`, which has no caller.

**ApiDocs.** A URL is the sequence of its segments, so that the mount point, `StripPrefix`, the
trailing slash and relative references are modelled by what they do. The browser and the Swagger
UI bundles are external and modelled from what `index.html` and `swagger-initializer.js` ask of
them: files are fetched in parallel and arrive in any order, scripts run in the order of the
page, the handler of `load` builds the UI if both globals are defined, and the UI asks for the
description. The server may be shut down at any time; requests that it has accepted may still
be answered. A value that a user enters for a parameter is one segment and not empty, which the
UI requires (`ValuesAssumption`).

## 3. Runs

| Run | States | Question | Result |
|---|---|---|---|
| `MCChains` | 48 249 | do the tables stay consistent and implement `History`; are `Forks`, `Fork` and `LCB` right, do they agree, and are active forks about the right peers? | holds |
| `MCLca` | 70 071 | are the skip lists exact, and `lca`, `LastIDs`, `ForkGenerators` right? | holds |
| `MCLoading` | 470 608 | with honest lists: never stuck, nothing lost, silent peers released? | holds |
| `MCDetector` | 220 958 | with gaps in the lists, failing storage, channels and a signal: what remains of that, does anybody wait for good, are channels closed in use? | holds |
| `MCRegistry` | 32 374 | does anything outlive its connection, which versions are offered, is a node dialled again, with every version? | holds |
| `MCApiDocs` | 558 | does the page find everything, do documented operations reach their handlers? | holds |
| `MCNoLcb` | – | does `lca` answer for any two blocks? | violated |
| `MCLongForks` | – | is a fork of five blocks a long one? | violated |
| `MCStuck` | – | is a silent peer released after a list with a gap? | violated |
| `MCLeash` | – | does a leash stay with the last block received? | violated |
| `MCShutdown` | – | does the process end after the signal? | violated |
| `MCLateUnregister` | – | does the registry list a connection until its end? | violated |

Bounds. `MCChains`: a trunk of two blocks, a fork beside it with a higher score, a micro-block
that can be announced over two references and makes chains of equal score, a block on top of it,
and a message of every kind that is refused; block numbers are bounded by the number of IDs. Three
peers make all patterns of equal and unequal numbers of peers on equal scores. `MCLca`: a trunk of height 9, so that
skip lists of every length from 0 to 4 occur, on both sides of a power of two, and a fork of
four blocks above the genesis block, which reaches the bound of `LcaReturns` (height 5 with the
first different blocks at height 2; at height 6, in `MCNoLcb`, `lca` panics). `MCLongForks`: the threshold of the code, a short chain with a high score and
a fork of five blocks with a low one. `MCLoading`: two peers, since a peer's failures and releases concern the
next one; three blocks, so that a queue can be empty, partly and completely received; a
threshold of two failures. `MCStuck`: one peer, four blocks and a list with a gap.
`MCDetector` and `MCShutdown`: one peer, three blocks, an empty list and one with a gap; storage fails at any step in `MCDetector` and never in `MCShutdown`, where the wait
does not need it.
`MCRegistry`: one node, since no method of the registry relates two addresses except by going
through a list; one outgoing and one incoming connection of it, so that they overlap in every
phase; three versions 5, 4 and 3, and handshakes of the node with 5 or 2, so that a handshake can
make the node hostile and a version outside of the list can be learned. Respawn takes no addresses while its one goroutine holds a connection (`exhausted`).
`MCApiDocs` is exhaustive but for the values a user enters. Deadlock is not checked for
`Loading`, `Detector` and `ApiDocs`: they stop after a shutdown, and a page when it is loaded.

Fairness. `Loading`: weak fairness of the Loader's own steps (a runnable goroutine
runs), of the clock and of the ticker. The ticker is armed by `continueSync` and re-armed after
every tick; the Loader waits in a `select` that nothing but its handlers leaves. Nothing is
assumed of peers: `SilentPeerReleased` starts where they have stopped for good (`GoSilent`).
`Detector`: weak fairness of running handlers and of `main`, and strong fairness of the cases of
the two `select`s, which Go chooses at random among the ready ones; `Terminates` fails although
every one of these is granted. `Registry`: timers fire, handshakes end (the network library sets
deadlines), goroutines run and the Distributor receives; nodes owe nothing, and a connection may
stay up for ever. Fairness of the timer is fairness of `establishConnections`: no behaviour is
required in which the storage fails. `DialledAgain` and `EveryVersionTried` are about outgoing
dials only and are claimed of runs in which, from some time on, the process is not restarted and
the node does not connect by itself (`Undisturbed`): every restart begins Respawn's interval
again, and every attempt of the node puts off the next dial and moves the stored version on. With
incoming attempts for ever TLC finds a node that is never dialled and a version that no dial
offers, so "Fork Detector attempts to handshake with each version from the list"
(`README.md:39`) depends on the node keeping still. Both are claimed until a read fails
(`broken`), and `EveryVersionTried` if `SuggestVersion` stops failing. `ApiDocs`: the browser
goes on with a page it has begun.

Every property has a mutant in `PROJECT.json`: a definition marked `Mutant` in its module, with
which the property fails.

## 4. What the violated runs show

* `lca` panics if two chains diverged early. With five blocks on each side above the genesis
  block, the first jump lands on links whose list is shorter than the loop's next index.
  `LcaReturns` is the range in which it does return: always if the lower block is less than three
  times as high as the first blocks above the last common one. The bound is tight, since the
  panic of `MCNoLcb` is at height 6 with these blocks at height 2. `LCB`, `Fork` and `Forks` all depend on it, and `LCB` runs in the
  Loader's goroutine.
* `Stats` counts forks *longer than* 5 blocks as long, the README those of "more or equal than 5
  blocks" (`README.md:192`), and `openapi.yaml:326-330` those of more than 10. The chain of length
  0, the main one, is counted as a short fork.
* `handleFailure` returns before `Fail` if `PutBlock` fails; the Loader then keeps a peer in
  `Done` for ever and `sync` never starts another one. A list of IDs with a gap is enough.
* The Loader moves a leash back: between the arrival of a list and its processing, or with the
  queue of an earlier iteration, which `handleFailure` applies again, older blocks overtake the
  one the Distributor stored.
* After the signal the Loader may leave its loop while the Distributor waits to send to it. The
  Distributor then never looks at its context again, and `main` waits in `distributor.Shutdown`.
* `UnregisterPeer` goes by address. A node is being dialled and connects by itself; the dial
  fails, and Respawn unregisters the node with its live connection. The late end of an old
  connection does the same to a new one. The node is then missing from `/api/connections` and
  from the Loader's choice of peers, and is dialled a second time after the delay.

Noted and not a run of its own:

* `Forks` panics on `r[0]` if no leash is selected; `ActiveForksSelect` shows that one selected
  leash is enough, unless `lca` panics on the selected chains. With nobody connected, active forks are those of all peers ever seen.
* With a list of peers, `Forks` compares the listed chains among themselves, so `longest` need
  not be the main chain.
* `Fail` does not reset `prevDiff`, so a peer's difference is compared with another peer's.
* The test for hostile peers in `RegisterPeer` cannot succeed (`AddressKnown`): a hostile peer
  whose other connection is in its handshake is registered again, and a peer that becomes
  hostile keeps an older connection in the registry.
* After a failed `TakeAvailableAddresses` Respawn's timer is not re-armed and nothing is ever
  dialled again; after a failed read in `UnregisterPeer` its address stays pending or connected,
  and is never dialled again. Both are in the model (`broken`), and excepted by the properties.
* `Accept` offers what `SuggestVersion` says before it has read the node's handshake, where
  `README.md:39` says that it "responds with the version received from the node".
* A node that has connected with a version outside of the list is offered that version from then
  on (`VersionOffered`).
* An incoming connection without a declared address erases the known port of the node, which is
  then never dialled; incoming attempts advance the cycle of versions as outgoing ones do.
* Two supported versions that differ only in the patch are equal after `newVersions`, and
  `nextVersion` would return to the first of them; the versions behind are never tried.
* `MarkAsHostile` has no caller, and parses `host:port` as an address, which always fails.
* `openapi.yaml:171` and `README.md:307` have `/api/forks/{address}/generators/{blocks}`, the route is
  `/fork/...` (`api.go:135`); `DocumentedAnswered` excepts it. `README.md:118` has a slash at the
  end of `/api/heads/`, which no route has.
* The page opened as `/api`, without the slash, is served but finds none of its scripts.

## 5. Proofs

TLAPS (SMT, Zenon, and PTL for the temporal steps) checks a proof of every invariant and action
property that a passing run checks, for every value of the constants that satisfies the named
assumptions. TLC evaluates these assumptions on the instances of the runs.

| Module | Theorem | Says |
|---|---|---|
| `ChainsProofs` | `Invariance` | `IInv` is an inductive invariant |
| | `TypeCorrect`, `IndexAgrees`, `StoreConsistent`, `LeashesStored`, `HeadTablesInverse`, `HeadsAreTips`, `HeadlessContinued` | `Spec => []P` for `TypeOK`, `IndexConsistent`, `ChainsGrowByOne`, `LeashStored`, `HeadsInverse`, `HeadIsTip`, `HeadlessSuperseded` |
| | `HeadsOnlyAdvance` | `Spec => HeadsAdvance` |
| | `Refinement` | `Spec => ImplementsHistory` |
| `SkipLinksProofs` | `SkipInvariance`, `SkipListsExact` | `[]SkipInv`, `[]SkipLinksExact` |
| `QueriesProofs` | `LcaIsCorrect`, `LcaDoesReturn` | `[]LcaCorrect`, `[]LcaReturns` |
| | `WalksFollow` | `[]WalksFollowChain` |
| | `ForksDescribed`, `ViewsDoAgree`, `ActiveForksSelected` | `[]ForksAgainstMain`, `[]ViewsAgree`, `[]ActiveForksSelect` |
| `LoadingProofs` | `TypeCorrect`, `FailuresAreBounded`, `NothingReceivedLost` | `[]TypeOK`, `[]FailuresBounded`, `ReceivedKept` |
| | `LoaderNeverStuck` | `[]NeverStuck`, if lists are pieces of chains that start with a known block and the storage does not fail |
| `DetectorProofs` | `DetectorRunsLoading` | `DSpec => Init /\ [][Next]_vars`: the composed system is a `Loading` |
| | `DTypeCorrect`, `ChannelsClosedUnused` | `[]DTypeOK`, `[]ClosedUnused` |
| | `DetectorFailuresBounded`, `DetectorKeepsReceived` | `[]FailuresBounded`, `ReceivedKept` |
| `RegistryProofs` | `Invariance`, `TypeCorrect` | `[]SafeInv`, `[]TypeOK` |
| | `AddressesKnown`, `RegisteredConnectionsEnd`, `PendingAddressesDialled`, `VersionsOffered`, `ScoresKept` | `[]AddressKnown`, `[]RegisteredEnds`, `[]PendingIsDialled`, `[]VersionOffered`, `ScoreKept` |
| `ApiDocsProofs` | `TypeCorrect`, `DescriptionAnswered` | `[]TypeOK`, `[]DocumentedAnswered` |

**The tables** (`ChainsProofs`). Assumed: `Genesis` is an ID, `NoID` is none, messages have the
types of their fields, scores are natural numbers. `putProtoBlock` and `putMicroBlock` are two
cases of one operation, "insert the record `r` on top of, or in place of, block number `on`"
(`Insertable`, `Inserted`); lemmas `ProtoInserts` and `MicroInserts` show that. What an insertion
does to the tables is stated once (`InsertedTables`), and each invariant is shown to survive it.
The invariants need one another: a micro-block is a legal insertion only because the referenced
block's parent is stored one level below it (`ChainsGrowByOne`), the new number is fresh only by
`TypeOK`, a head moves to a child only because the block found by its number has the ID it was
looked up by (`IndexConsistent`), and `HeadIsTip` needs the tables of heads to be inverse.
`Opened` adds that an open database is not empty. `Refinement` uses `StepKinds`: a step inserts,
moves one leash, writes the genesis block or leaves database and leashes alone.

**The skip lists** (`SkipLinksProofs`). `SkipInv` adds to the property that the lists contain
block numbers. The new list is derived from the lists of the blocks it names: after `l` turns the
loop of `putNewLinkForBlock` stands at the 2^l-th ancestor, since position `l` of the block it
comes from is that block's 2^(l-1)-th ancestor (`LoopFacts`, `JumpsExact`); for that, `Iter` of a
sum is an iteration of an iteration (`IterSum`), and the ancestors of old blocks do not change
when a block is added (`IterAgree`). Lists have length ceil(log2(height)) by `MaxParents`.

**The queries** (`QueriesProofs`). All rest on `QInv`: consistent tables, exact lists, leashes to
stored blocks. `Under(m, n)` says that `m` is `n` or an ancestor of it; a chain has one block at
every height (`UnderFacts`).
`fastBackwardFarthest`: the distance to the wanted height stays below 2^i, where `i` is the
position (`Backward`); it is 0 at the end.
The second loop of `lca`: the two blocks are different, of equal height, and at position `i`
their 2^i-th ancestors are equal, block 1 counting as its own parent (`Apart`); when the loop ends at position 0
the blocks below are equal, and are the last common block. `LcaReturns` uses a second invariant
(`Short`): as long as the height is less than three times that of the first different blocks, the
position exists in the shorter lists after each jump.
`getAncestors` and `getBlocks` are the same walk over two tables (`WalkExact`). The length of a
fork is a cardinality in the property and a difference of heights in the code; `ForkLength` gives
the bijection.
`ViewsAgree` is about three separate pieces of code. For the loops of `LCB` and `Fork` the
invariant is that the block kept so far beats, by score and then by number of peers, all that have
been visited (`Scan`, `ScanLoop`), in any order of iteration; so each loop ends at a block that no
other one beats, which is also what the sort puts first (`LCBExact`, `ForkExact`). The loops visit
every block with a leash only if these are finitely many, which is an invariant
(`LeashesStayFinite`), not an assumption about addresses.

**The Loader** (`LoadingProofs`, `DetectorProofs`). `SafeInv` adds to `TypeOK` which states of the
peer's state machine go with which running handler (`Control`), that the counter is below the
threshold while a peer is loaded (`FailuresInv`), and that what `handleFailure` and `appendBlock`
have passed in the queue is stored (`KeptInv`). `LoaderNeverStuck` has hypotheses, which the
instance of `MCLoading` satisfies and without which it is false (`MCStuck`); its invariant
`LinkedInv` is that the parent of the next block to be stored is known, in the list, in the queue
and in the loop of `handleFailure`. Every step of `Detector` is a step of `Loading` or leaves
its variables alone, so the Loader's invariants carry over; `StopOrder` adds the order in which
`main` waits.

**The registry** (`RegistryProofs`). Assumed: outgoing and incoming goroutines are different, the
list of versions is not empty. `Mailbox` says which events a connection in each phase can have
sent and in which order: without it the end of a connection could be handled before its
beginning, and the connection would stay registered. `DialledStored` is that Respawn dials stored
addresses only. `Learned` is that the version of a peer that has been seen is that of one of its
handshakes; `VersionOffered` needs it, and that no step makes a seen peer unknown again
(`KeepsVersions`), since other connections may change the record while a handshake is under way.

**The description** (`ApiDocsProofs`). Assumed: no value is empty. The routes differ in the
number of segments, in the first of them or, for the two lists of peers, in the second
(`NoOtherRoute`), so no value of a parameter leads to the handler of another operation.

`NaturalNumbers` derives least elements, induction and definition by recursion from the
well-foundedness of the natural numbers, as facts about *sets* of numbers. That is how loops of
any length are within reach here, although the library's induction theorems, which take a
predicate as a parameter, are not.

Only model-checked: liveness (`SilentPeerReleased`, `PackageReceived`, `DialledAgain`,
`EveryVersionTried`, `DocumentShown`), which is out of TLAPS's reach as it needs fairness and
`ENABLED`; and the properties of the violated runs, which do not hold.

## 6. Plan

1. *Done*: `Chains`, `History`, `ChainQueries`, `Loading`, `Detector`, `Registry`, `ApiDocs`; proofs of
   all invariants, action properties and the refinement.
2. Safety lemmas behind the liveness properties, such as a bound on the attempts between two tries
   of one version.
3. What holds of leashes and of connections instead of the violated `LeashKeepsUp` and
   `ConnectedIsListed`.

## 7. Not modelled

* The network library and the HTTP libraries, but for the steps the code relies on.
* Handlers of the API other than `activeForks`, and the lists of the registry (`Peers`,
  `FriendlyPeers`, `Broadcast`, answers to GetPeers): they read one query or table and format it.
* Start-up: opening databases, binding sockets, parameters and the environment. A nil listener
  at shutdown after a failed `Listen` belongs here, as does a socket left open when
  `SuggestVersion` refuses an incoming connection.
* `MarkAsHostile` (no caller), generated code, mocks, and the minified Swagger UI bundles. The
  initializer is the only JavaScript of the project's own; all other mapped code is Go.
