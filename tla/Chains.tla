------------------------------- MODULE Chains -------------------------------
(***************************************************************************)
(* The block store: chains/storage.go and the operations of                *)
(* chains/linkage.go that change it.                                       *)
(*                                                                         *)
(* Every variable but the last two is a table or a counter of the LevelDB  *)
(* database.  A leveldb.Batch is written atomically, so a batch is one     *)
(* action.  PutBlock and PutMicroBlock write TWO batches, the block and    *)
(* then the leash, while they hold the mutex: `owed' is the leash update   *)
(* the call that holds the mutex still has to write.  A crash, or a        *)
(* failing second write, leaves the first batch alone in the database.     *)
(*                                                                         *)
(* The contents of blocks come from peers and nothing relates them to one  *)
(* another: Blocks and MicroInvs are arbitrary sets of messages.           *)
(***************************************************************************)
EXTENDS Integers, Sequences, KeyValue, Loops

CONSTANTS
    Addr,           \* addresses of peers
    ID,             \* block IDs
    Genesis,        \* ID of the genesis block
    NoID,           \* the absent parent of the genesis block
    Generator,      \* addresses of block generators
    Blocks,         \* blocks peers can send
    MicroInvs,      \* micro-block announcements peers can send
    GenesisTarget,  \* base target of the genesis block
    GenesisGenerator,
    MaxBlockScore   \* 2^64 in the code

ASSUME IDAssumption == Genesis \in ID /\ NoID \notin ID

ASSUME MessagesAssumption ==
    /\ Blocks \subseteq
          [id : ID, parent : ID, baseTarget : Nat, generator : Generator]
    /\ MicroInvs \subseteq [total : ID, ref : ID]

ASSUME ScoreAssumption ==
    GenesisTarget \in Nat /\ MaxBlockScore \in Nat /\ GenesisGenerator \in Generator

VARIABLES
    blocksCnt,      \* counter of blocks; block numbers are 1..blocksCnt
    numOf,          \* block ID -> block number
    blocks,         \* block number -> block
    links,          \* block number -> link (skip list of ancestors)
    headsCnt,       \* counter of heads
    headToBlock,    \* head number -> block number
    blockToHead,    \* block number -> head number
    leashes,        \* peer address -> block ID
    up,             \* the process runs and has opened the database
    owed            \* leash update of the unfinished call, a set of <<addr, id>>

store == <<blocksCnt, numOf, blocks, links>>
heads == <<headsCnt, headToBlock, blockToHead>>
vars == <<blocksCnt, numOf, blocks, links, headsCnt, headToBlock, blockToHead,
          leashes, up, owed>>

-----------------------------------------------------------------------------
(* Scores                                                                  *)

\* A base target above MaxInt64, which makes the code panic before anything is
\* written, ends the process: see Crash.
calculateScore(baseTarget) ==
    IF baseTarget = 0 THEN 0 ELSE MaxBlockScore \div baseTarget

\* Mutant: the score of the parent is forgotten.
calculateScoreAlone(parentScore, baseTarget) == calculateScore(baseTarget)

calculateCumulativeScore(parentScore, baseTarget) ==
    calculateScore(baseTarget) + parentScore

-----------------------------------------------------------------------------
(* Links: parents[l] of a link is meant to be the number of the block      *)
(* 2^(l-1) levels below.  Go counts the positions from 0, TLA+ from 1.     *)

\* The powers of two, in a form that can be reasoned about.
pow2[k \in Nat] == IF k = 0 THEN 1 ELSE 2 * pow2[k - 1]

\* int(math.Ceil(math.Log2(float64(h))))
maxParents(h) == CHOOSE k \in 0..h : /\ pow2[k] >= h
                                     /\ \A j \in 0..(k - 1) : pow2[j] < h

\* Mutant: every position is the parent of the one before.
linkParentsLinear(pn, h) ==
    LET down[l \in Nat] ==
            IF l <= 1 THEN pn ELSE links[down[l - 1]].parents[1]
    IN  [l \in 1..maxParents(h) |-> down[l]]

linkParents(pn, h) ==
    LET jump[l \in Nat] ==
            IF l <= 1 THEN pn
            ELSE LET p == jump[l - 1] IN
                 IF Len(links[p].parents) >= l - 1 THEN links[p].parents[l - 1]
                                                   ELSE p
    IN  [l \in 1..maxParents(h) |-> IF l = 1 THEN pn ELSE jump[l]]

putNewLinkForBlock(n, id, h, parentID) ==
    links' = Put(links, n,
                 [id |-> id, height |-> h,
                  parents |-> linkParents(numOf[parentID], h)])

-----------------------------------------------------------------------------
(* Heads: a head points to the last block of a chain and the block points  *)
(* back.  A block put on top of a head takes the head over, a block put    *)
(* anywhere else opens a new head.                                         *)

\* Mutant: the counter of heads is not saved.
putNewHeadNotCounted(n) ==
    /\ headToBlock' = Put(headToBlock, headsCnt + 1, n)
    /\ blockToHead' = Put(blockToHead, n, headsCnt + 1)
    /\ UNCHANGED headsCnt

putNewHead(n) ==
    /\ headsCnt' = headsCnt + 1
    /\ headToBlock' = Put(headToBlock, headsCnt + 1, n)
    /\ blockToHead' = Put(blockToHead, n, headsCnt + 1)

\* Mutant: the parent keeps its pointer to the head.
putHeadKeepsParent(n, parentNum) ==
    IF parentNum \in DOMAIN blockToHead
    THEN /\ headToBlock' = Put(headToBlock, blockToHead[parentNum], n)
         /\ blockToHead' = Put(blockToHead, n, blockToHead[parentNum])
         /\ UNCHANGED headsCnt
    ELSE putNewHead(n)

\* Mutant: the head of the parent is not looked up.
putHeadAlwaysNew(n, parentNum) == putNewHead(n)

\* Mutant: a block on top of a block without a head takes over head 1.
putHeadNeverNew(n, parentNum) ==
    LET h == IF parentNum \in DOMAIN blockToHead THEN blockToHead[parentNum] ELSE 1
    IN  /\ blockToHead' = Put(Delete(blockToHead, headToBlock[h]), n, h)
        /\ headToBlock' = Put(headToBlock, h, n)
        /\ UNCHANGED headsCnt

putHead(n, parentNum) ==
    \/ /\ parentNum \in DOMAIN blockToHead
       /\ blockToHead' = Put(Delete(blockToHead, parentNum),
                             n, blockToHead[parentNum])
       /\ headToBlock' = Put(headToBlock, blockToHead[parentNum], n)
       /\ UNCHANGED headsCnt
    \/ /\ parentNum \notin DOMAIN blockToHead
       /\ putNewHead(n)

-----------------------------------------------------------------------------
(* Operations                                                              *)

hasBlock(id) == id \in DOMAIN numOf

\* NewLinkage: opens the database and, if it is empty, writes the genesis block.
initialize ==
    /\ blocksCnt' = 1
    /\ numOf' = Put(numOf, Genesis, 1)
    /\ blocks' = Put(blocks, 1,
                     [id |-> Genesis, parent |-> NoID, height |-> 1,
                      score |-> calculateScore(GenesisTarget),
                      generator |-> GenesisGenerator])
    /\ links' = Put(links, 1, [id |-> Genesis, height |-> 1, parents |-> <<>>])
    /\ headsCnt' = 1
    /\ headToBlock' = Put(headToBlock, 1, 1)
    /\ blockToHead' = Put(blockToHead, 1, 1)

NewLinkage ==
    /\ ~up
    /\ up' = TRUE
    /\ IF blocksCnt = 0 THEN initialize ELSE UNCHANGED <<store, heads>>
    /\ UNCHANGED <<leashes, owed>>

\* The batch of putProtoBlock: block b becomes number n.
putProtoBlock(b) ==
    LET n == blocksCnt + 1
        parentNum == numOf[b.parent]
        parent == blocks[parentNum]
    IN  /\ blocksCnt' = n
        /\ numOf' = Put(numOf, b.id, n)
        /\ blocks' = Put(blocks, n,
                         [id |-> b.id, parent |-> b.parent,
                          height |-> parent.height + 1,
                          score |-> calculateCumulativeScore(parent.score, b.baseTarget),
                          generator |-> b.generator])
        /\ putNewLinkForBlock(n, b.id, parent.height + 1, b.parent)
        /\ putHead(n, parentNum)

\* The batch of putMicroBlock: the block with the micro-block added to it takes
\* the place of the referenced block: same parent, height, score and generator.
putMicroBlock(inv) ==
    LET n == blocksCnt + 1
        refNum == numOf[inv.ref]
        ref == blocks[refNum]
    IN  /\ blocksCnt' = n
        /\ numOf' = Put(numOf, inv.total, n)
        /\ blocks' = Put(blocks, n,
                         [id |-> inv.total, parent |-> ref.parent,
                          height |-> ref.height, score |-> ref.score,
                          generator |-> ref.generator])
        /\ putNewLinkForBlock(n, inv.total, ref.height, ref.parent)
        /\ putHead(n, refNum)

updateLeash(addr, id) == leashes' = Put(leashes, addr, id)

\* No call holds the mutex.
Free == up /\ owed = {}

\* Mutant: the leash moves before the block is looked up.
PutKnownBlockUnchecked(addr, id) ==
    /\ updateLeash(addr, id)
    /\ UNCHANGED <<store, heads, up, owed>>

\* PutBlock of a stored block: only the leash moves.
PutKnownBlock(addr, id) ==
    /\ hasBlock(id)
    /\ updateLeash(addr, id)
    /\ UNCHANGED <<store, heads, up, owed>>

\* Mutant: a block that is stored is stored again.
PutBlockAgain(b, addr) ==
    /\ Free
    /\ hasBlock(b.parent)
    /\ putProtoBlock(b)
    /\ owed' = {<<addr, b.id>>}
    /\ UNCHANGED <<leashes, up>>

PutBlock(b, addr) ==
    /\ Free
    /\ \/ PutKnownBlock(addr, b.id)
       \/ /\ ~hasBlock(b.id)
          /\ ~hasBlock(b.parent)            \* ErrParentNotFound
          /\ UNCHANGED vars
       \/ /\ ~hasBlock(b.id)
          /\ hasBlock(b.parent)
          /\ putProtoBlock(b)
          /\ owed' = {<<addr, b.id>>}
          /\ UNCHANGED <<leashes, up>>

\* Mutant: a micro-block that is stored is stored again.
PutMicroBlockAgain(inv, addr) ==
    /\ Free
    /\ hasBlock(inv.ref)
    /\ blocks[numOf[inv.ref]].parent # NoID
    /\ putMicroBlock(inv)
    /\ owed' = {<<addr, inv.total>>}
    /\ UNCHANGED <<leashes, up>>

PutMicroBlock(inv, addr) ==
    /\ Free
    /\ \/ PutKnownBlock(addr, inv.total)
       \/ /\ ~hasBlock(inv.total)
          /\ ~hasBlock(inv.ref)             \* ErrRefNotFound
          /\ UNCHANGED vars
       \/ /\ ~hasBlock(inv.total)
          /\ hasBlock(inv.ref)
          /\ blocks[numOf[inv.ref]].parent = NoID   \* no block ID to decode
          /\ UNCHANGED vars
       \/ /\ ~hasBlock(inv.total)
          /\ hasBlock(inv.ref)
          /\ blocks[numOf[inv.ref]].parent # NoID
          /\ putMicroBlock(inv)
          /\ owed' = {<<addr, inv.total>>}
          /\ UNCHANGED <<leashes, up>>

\* The second batch of PutBlock and PutMicroBlock, and the end of the call.
FinishPut ==
    /\ up
    /\ \E o \in owed : updateLeash(o[1], o[2])
    /\ owed' = {}
    /\ UNCHANGED <<store, heads, up>>

\* The second batch fails: the call returns the error, the block stays.
FailPut ==
    /\ up
    /\ owed # {}
    /\ owed' = {}
    /\ UNCHANGED <<store, heads, leashes, up>>

\* MoveLeash does not look at the block.  Its only caller, requestBlocks of
\* loading/peer_loader.go, calls it when HasBlock has returned true; blocks are
\* never removed.
MoveLeash(id, addr) ==
    /\ Free
    /\ hasBlock(id)
    /\ updateLeash(addr, id)
    /\ UNCHANGED <<store, heads, up, owed>>

\* The process stops, in the middle of a call or not.
Crash ==
    /\ up
    /\ up' = FALSE
    /\ owed' = {}
    /\ UNCHANGED <<store, heads, leashes>>

-----------------------------------------------------------------------------
Init ==
    /\ blocksCnt = 0 /\ headsCnt = 0
    /\ numOf = Empty /\ blocks = Empty /\ links = Empty
    /\ headToBlock = Empty /\ blockToHead = Empty
    /\ leashes = Empty
    /\ up = FALSE
    /\ owed = {}

Next ==
    \/ NewLinkage
    \/ \E b \in Blocks, addr \in Addr : PutBlock(b, addr)
    \/ \E inv \in MicroInvs, addr \in Addr : PutMicroBlock(inv, addr)
    \/ FinishPut
    \/ FailPut
    \/ \E id \in ID, addr \in Addr : MoveLeash(id, addr)
    \/ Crash

Spec == Init /\ [][Next]_vars

-----------------------------------------------------------------------------
(* Properties                                                              *)

Numbers == 1..blocksCnt

\* Every table and counter has the keys and values of its type.
TypeOK ==
    /\ blocksCnt \in Nat /\ headsCnt \in Nat
    /\ numOf \in [DOMAIN numOf -> Numbers] /\ DOMAIN numOf \subseteq ID
    /\ blocks \in [Numbers -> [id : ID, parent : ID \cup {NoID}, height : Nat,
                               score : Nat, generator : Generator]]
    /\ DOMAIN links = Numbers
    /\ headToBlock \in [1..headsCnt -> Numbers]
    /\ blockToHead \in [DOMAIN blockToHead -> 1..headsCnt]
    /\ DOMAIN blockToHead \subseteq Numbers
    /\ leashes \in [DOMAIN leashes -> ID] /\ DOMAIN leashes \subseteq Addr
    /\ up \in BOOLEAN
    /\ owed \subseteq Addr \X ID

\* The index from IDs to numbers (putID) and the tables of blocks (putBlock)
\* and links (putLink) describe the same blocks, each stored once.
IndexConsistent ==
    /\ \A n \in Numbers : /\ blocks[n].id \in DOMAIN numOf
                          /\ numOf[blocks[n].id] = n
                          /\ links[n].id = blocks[n].id
                          /\ links[n].height = blocks[n].height
    /\ \A id \in DOMAIN numOf : blocks[numOf[id]].id = id

\* The stored blocks are one tree: only block 1 has no parent, every other one
\* has a parent stored before it and one level below it.  Its score exceeds its
\* parent's by the weight of a full block of that parent, so a micro-block,
\* which replaces the referenced block, adds no height and no score.
ChainsGrowByOne ==
    \A n \in Numbers :
        IF n = 1
        THEN blocks[n].parent = NoID /\ blocks[n].height = 1
        ELSE /\ blocks[n].parent \in DOMAIN numOf
             /\ LET p == numOf[blocks[n].parent]
                IN  /\ p < n
                    /\ blocks[n].height = blocks[p].height + 1
                    /\ \E b \in Blocks :
                          /\ b.parent = blocks[n].parent
                          /\ blocks[n].score =
                                blocks[p].score + calculateScore(b.baseTarget)

\* A leash names a stored block, whatever crashed or failed between the batch
\* with the block and the batch with the leash: Leash, LeashScore, LCB and Fork
\* look the block up and report a storage failure if it is not there.
LeashStored ==
    /\ \A a \in DOMAIN leashes : hasBlock(leashes[a])
    /\ \A o \in owed : hasBlock(o[2])

\* The two head tables are inverse to each other.
HeadsInverse ==
    /\ \A h \in DOMAIN headToBlock :
          /\ headToBlock[h] \in DOMAIN blockToHead
          /\ blockToHead[headToBlock[h]] = h
    /\ \A n \in DOMAIN blockToHead : headToBlock[blockToHead[n]] = n

\* A head is the end of a chain: no stored block continues its block.
HeadIsTip ==
    \A n \in DOMAIN blockToHead, m \in Numbers : blocks[m].parent # blocks[n].id

\* No chain is lost: a block without a head was continued by a later block, or
\* replaced by a later one with the same parent and height.
HeadlessSuperseded ==
    \A n \in Numbers \ DOMAIN blockToHead :
        \E m \in Numbers :
            /\ m > n
            /\ \/ blocks[m].parent = blocks[n].id
               \/ /\ blocks[m].parent = blocks[n].parent
                  /\ blocks[m].height = blocks[n].height

HeadMove(h) ==
    /\ h \in DOMAIN headToBlock'
    /\ headToBlock'[h] # headToBlock[h] =>
          LET old == blocks[headToBlock[h]]
              new == blocks'[headToBlock'[h]]
          IN  \/ new.parent = old.id /\ new.height = old.height + 1
              \/ /\ new.parent = old.parent
                 /\ new.height = old.height
                 /\ new.score = old.score

\* Heads are never removed, and a head moves only to a child of its block or to
\* a block that takes its block's place (putHead).
HeadsAdvance == [][\A h \in DOMAIN headToBlock : HeadMove(h)]_vars

\* The block below every block, found by its parent ID; nothing is below the first.
below == [n \in Numbers |-> IF n = 1 THEN 1 ELSE numOf[blocks[n].parent]]

\* The k-th ancestor of block n.
NthAncestor(n, k) == Iter(below, n, k)

\* putNewLinkForBlock builds a skip list: position l of a link holds the
\* 2^(l-1)-th ancestor, for every power of two below the height and no other.
SkipLinksExact ==
    \A n \in Numbers :
        LET ps == links[n].parents
        IN  /\ \A l \in 1..Len(ps) : ps[l] = NthAncestor(n, pow2[l - 1])
            /\ blocks[n].height <= pow2[Len(ps)]
            /\ Len(ps) > 0 => pow2[Len(ps) - 1] < blocks[n].height

-----------------------------------------------------------------------------
(* The store implements the abstract history.                              *)

\* The tree of IDs the tables represent; an unopened, empty database stands for
\* the tree with the genesis block, which NewLinkage writes before any use.
treeOf == IF blocksCnt = 0
          THEN Put(Empty, Genesis, NoID)
          ELSE [id \in DOMAIN numOf |-> blocks[numOf[id]].parent]

Hist == INSTANCE History WITH parentOf <- treeOf, leash <- leashes

\* Every step of the tables inserts one block under a known one, moves one leash
\* to a known block, or changes nothing a client can see; no call, failure,
\* crash or restart removes a block or alters its parent.
ImplementsHistory == Hist!Spec
=============================================================================
