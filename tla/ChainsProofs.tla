---------------------------- MODULE ChainsProofs ----------------------------
(***************************************************************************)
(* The invariants of Chains, proved for every set of messages and peers.   *)
(* The inductive invariant is the conjunction of the invariants that TLC   *)
(* checks on MCChains and of Opened.                                       *)
(***************************************************************************)
EXTENDS Chains, TLAPS

Record == [id : ID, parent : ID \cup {NoID}, height : Nat, score : Nat,
           generator : Generator]

\* A running process has found or written the genesis block.
Opened == up => blocksCnt > 0

StoreInv == TypeOK /\ IndexConsistent /\ ChainsGrowByOne /\ Opened

HeadsInv == HeadsInverse /\ HeadIsTip /\ HeadlessSuperseded

IInv == StoreInv /\ LeashStored /\ HeadsInv

\* The part of the database that MoveLeash, FinishPut, FailPut and Crash keep.
database == <<store, heads>>

-----------------------------------------------------------------------------
(* The helpers                                                             *)

\* A score is a natural number.
LEMMA ScoreType ==
    ASSUME NEW t \in Nat
    PROVE  calculateScore(t) \in Nat
  BY ScoreAssumption DEF calculateScore

-----------------------------------------------------------------------------
(* The batch of putProtoBlock and the batch of putMicroBlock insert a      *)
(* record r on top of, or in the place of, the block with number `on'.     *)

Inserted(r, on) ==
    /\ blocksCnt' = blocksCnt + 1
    /\ numOf' = Put(numOf, r.id, blocksCnt + 1)
    /\ blocks' = Put(blocks, blocksCnt + 1, r)
    /\ putNewLinkForBlock(blocksCnt + 1, r.id, r.height, r.parent)
    /\ putHead(blocksCnt + 1, on)

\* What the two operations guarantee of r and `on'.
Insertable(r, on) ==
    /\ r \in Record
    /\ r.id \notin DOMAIN numOf
    /\ r.parent \in DOMAIN numOf
    /\ r.height = blocks[numOf[r.parent]].height + 1
    /\ \E b \in Blocks :
          /\ b.parent = r.parent
          /\ r.score = blocks[numOf[r.parent]].score + calculateScore(b.baseTarget)
    /\ on \in Numbers
    /\ \/ r.parent = blocks[on].id
       \/ /\ r.parent = blocks[on].parent
          /\ r.height = blocks[on].height
          /\ r.score = blocks[on].score

\* The tables after an insertion.
Tables(r) ==
    /\ Numbers' = Numbers \cup {blocksCnt + 1}
    /\ blocksCnt + 1 \notin Numbers
    /\ DOMAIN blocks' = Numbers'
    /\ blocks'[blocksCnt + 1] = r
    /\ \A n \in Numbers : blocks'[n] = blocks[n]
    /\ DOMAIN numOf' = DOMAIN numOf \cup {r.id}
    /\ numOf'[r.id] = blocksCnt + 1
    /\ \A id \in DOMAIN numOf : id # r.id /\ numOf'[id] = numOf[id]
    /\ DOMAIN links' = Numbers'
    /\ links'[blocksCnt + 1].id = r.id
    /\ links'[blocksCnt + 1].height = r.height
    /\ \A n \in Numbers : links'[n] = links[n]

\* An insertion adds one row to the index and to the tables of blocks and links.
LEMMA InsertedTables ==
    ASSUME TypeOK, NEW r, NEW on, Insertable(r, on), Inserted(r, on)
    PROVE  Tables(r)
  <1>1. /\ Numbers' = Numbers \cup {blocksCnt + 1}
        /\ blocksCnt + 1 \notin Numbers
    BY DEF Numbers, TypeOK, Inserted
  <1>2. DOMAIN blocks = Numbers /\ DOMAIN links = Numbers
    BY DEF TypeOK
  <1>3. /\ DOMAIN blocks' = Numbers'
        /\ blocks'[blocksCnt + 1] = r
        /\ \A n \in Numbers : blocks'[n] = blocks[n]
    BY <1>1, <1>2 DEF Inserted, Put
  <1>4. /\ DOMAIN numOf' = DOMAIN numOf \cup {r.id}
        /\ numOf'[r.id] = blocksCnt + 1
        /\ \A id \in DOMAIN numOf : id # r.id /\ numOf'[id] = numOf[id]
    BY DEF Inserted, Insertable, Put
  <1>5. /\ DOMAIN links' = Numbers'
        /\ links'[blocksCnt + 1].id = r.id
        /\ links'[blocksCnt + 1].height = r.height
        /\ \A n \in Numbers : links'[n] = links[n]
    BY <1>1, <1>2 DEF Inserted, putNewLinkForBlock, Put
  <1> QED
    BY <1>1, <1>3, <1>4, <1>5 DEF Tables

\* An insertion keeps the types of the tables.
LEMMA InsertedType ==
    ASSUME TypeOK, NEW r, NEW on, Insertable(r, on), Inserted(r, on),
           UNCHANGED <<leashes, up>>, owed' \subseteq Addr \X ID
    PROVE  TypeOK'
  <1> DEFINE n == blocksCnt + 1
  <1>t. Tables(r)
    BY InsertedTables DEF StoreInv
  <1>1. blocksCnt' \in Nat /\ n \in Numbers'
    BY DEF TypeOK, Inserted, Numbers
  <1>2. /\ numOf' \in [DOMAIN numOf' -> Numbers']
        /\ DOMAIN numOf' \subseteq ID
    <2>1. numOf' = [x \in DOMAIN numOf \cup {r.id} |-> IF x = r.id THEN n ELSE numOf[x]]
      BY DEF Inserted, Put
    <2>2. r.id \in ID
      BY DEF Insertable, Record
    <2>3. \A x \in DOMAIN numOf : numOf[x] \in Numbers'
      BY <1>t DEF Tables, TypeOK
    <2> QED
      BY <1>1, <2>1, <2>2, <2>3 DEF TypeOK
  <1>3. blocks' \in [Numbers' -> Record]
    <2>1. blocks' = [x \in Numbers' |-> IF x = n THEN r ELSE blocks[x]]
      BY <1>t DEF Tables, Inserted, Put, TypeOK
    <2>2. \A x \in Numbers : blocks[x] \in Record
      BY DEF TypeOK, Record
    <2> QED
      BY <2>1, <2>2, <1>t DEF Tables, Insertable
  <1>4. /\ headsCnt' \in Nat
        /\ headToBlock' \in [1..headsCnt' -> Numbers']
        /\ blockToHead' \in [DOMAIN blockToHead' -> 1..headsCnt']
        /\ DOMAIN blockToHead' \subseteq Numbers'
    <2>1. Numbers \subseteq Numbers'
      BY <1>t DEF Tables
    <2>2. CASE on \in DOMAIN blockToHead
      <3> DEFINE h == blockToHead[on]
      <3>1. /\ headsCnt' = headsCnt
            /\ headToBlock' = Put(headToBlock, h, n)
            /\ blockToHead' = Put(Delete(blockToHead, on), n, h)
        BY <2>2 DEF Inserted, putHead
      <3>2. h \in 1..headsCnt /\ DOMAIN headToBlock = 1..headsCnt
        BY <2>2 DEF TypeOK
      <3>3. headToBlock' \in [1..headsCnt -> Numbers']
        BY <1>1, <2>1, <3>1, <3>2 DEF TypeOK, Put
      <3>4. /\ DOMAIN blockToHead' = (DOMAIN blockToHead \ {on}) \cup {n}
            /\ blockToHead' \in [(DOMAIN blockToHead \ {on}) \cup {n} -> 1..headsCnt]
        BY <3>1, <3>2 DEF TypeOK, Put, Delete
      <3> QED
        BY <1>1, <2>1, <3>1, <3>3, <3>4 DEF TypeOK
    <2>3. CASE on \notin DOMAIN blockToHead
      <3> DEFINE h == headsCnt + 1
      <3>1. /\ headsCnt' = h
            /\ headToBlock' = Put(headToBlock, h, n)
            /\ blockToHead' = Put(blockToHead, n, h)
        BY <2>3 DEF Inserted, putHead, putNewHead
      <3>2. h \in Nat /\ 1..h = (1..headsCnt) \cup {h}
        BY DEF TypeOK
      <3>3. headToBlock' \in [(1..headsCnt) \cup {h} -> Numbers']
        BY <1>1, <2>1, <3>1 DEF TypeOK, Put
      <3>4. /\ DOMAIN blockToHead' = DOMAIN blockToHead \cup {n}
            /\ blockToHead' \in [DOMAIN blockToHead \cup {n} -> (1..headsCnt) \cup {h}]
        BY <3>1 DEF TypeOK, Put
      <3> HIDE DEF h
      <3> QED
        BY <1>1, <2>1, <3>1, <3>2, <3>3, <3>4 DEF TypeOK
    <2> QED
      BY <2>2, <2>3
  <1>5. DOMAIN links' = Numbers'
    BY <1>t DEF Tables
  <1> QED
    BY <1>1, <1>2, <1>3, <1>4, <1>5 DEF TypeOK, Record

\* An insertion keeps the index, the tree and the leashes.
LEMMA InsertedStore ==
    ASSUME StoreInv, NEW r, NEW on, Insertable(r, on), Inserted(r, on)
    PROVE  IndexConsistent' /\ ChainsGrowByOne'
  <1> USE DEF StoreInv
  <1> DEFINE n == blocksCnt + 1
  <1>t. Tables(r)
    BY InsertedTables DEF StoreInv
  <1>1. blocksCnt \in Nat /\ numOf \in [DOMAIN numOf -> Numbers]
    BY DEF TypeOK
  <1>2. IndexConsistent'
    BY <1>1, <1>t DEF Tables, IndexConsistent
  <1>3. ASSUME NEW m \in Numbers
        PROVE  /\ m = 1 => blocks'[m].parent = NoID /\ blocks'[m].height = 1
               /\ m # 1 => /\ blocks'[m].parent \in DOMAIN numOf'
                           /\ numOf'[blocks'[m].parent] = numOf[blocks[m].parent]
                           /\ numOf[blocks[m].parent] \in Numbers
    BY <1>1, <1>3, <1>t DEF Tables, ChainsGrowByOne
  <1>4. n # 1 /\ numOf'[r.parent] = numOf[r.parent] /\ numOf[r.parent] \in Numbers
        /\ numOf[r.parent] < n /\ r.parent \in DOMAIN numOf'
    BY <1>1, <1>t DEF Tables, Insertable, Numbers
  <1>5. ChainsGrowByOne'
    <2> SUFFICES ASSUME NEW m \in Numbers'
                 PROVE IF m = 1
                       THEN blocks'[m].parent = NoID /\ blocks'[m].height = 1
                       ELSE /\ blocks'[m].parent \in DOMAIN numOf'
                            /\ LET p == numOf'[blocks'[m].parent]
                               IN  /\ p < m
                                   /\ blocks'[m].height = blocks'[p].height + 1
                                   /\ \E b \in Blocks :
                                         /\ b.parent = blocks'[m].parent
                                         /\ blocks'[m].score =
                                               blocks'[p].score + calculateScore(b.baseTarget)
      BY DEF ChainsGrowByOne
    <2>1. CASE m = n
      <3>1. blocks'[m] = r /\ m # 1
        BY <1>4, <2>1, <1>t DEF Tables
      <3>2. blocks'[numOf'[r.parent]] = blocks[numOf[r.parent]]
        BY <1>4, <1>t DEF Tables
      <3>3. PICK b \in Blocks :
                /\ b.parent = r.parent
                /\ r.score = blocks[numOf[r.parent]].score + calculateScore(b.baseTarget)
        BY DEF Insertable
      <3>4. r.height = blocks[numOf[r.parent]].height + 1
        BY DEF Insertable
      <3>5. r.parent \in DOMAIN numOf' /\ numOf'[r.parent] < m
        BY <1>4, <2>1
      <3> QED
        BY <3>1, <3>2, <3>3, <3>4, <3>5
    <2>2. CASE m \in Numbers
      BY <1>3, <2>2, <1>t DEF Tables, ChainsGrowByOne
    <2> QED
      BY <2>1, <2>2, <1>t DEF Tables
  <1> QED
    BY <1>2, <1>5

\* An insertion keeps the heads: the block it continues or replaces is the only
\* one that can lose its head, and the new block has one.
LEMMA InsertedHeads ==
    ASSUME StoreInv, HeadsInv, NEW r, NEW on, Insertable(r, on), Inserted(r, on)
    PROVE  HeadsInv'
  <1> DEFINE n == blocksCnt + 1
  <1>t. Tables(r)
    BY InsertedTables DEF StoreInv
  <1> USE DEF StoreInv
  <1>1. n \in Nat /\ \A m \in Numbers : m < n
    BY DEF TypeOK, Numbers
  <1>2. HeadsInverse'
    <2>0. /\ n \notin DOMAIN blockToHead
          /\ \A h \in DOMAIN headToBlock : headToBlock[h] # n
          /\ headsCnt + 1 \notin DOMAIN headToBlock
          /\ \A m \in DOMAIN blockToHead : blockToHead[m] # headsCnt + 1
      BY <1>1 DEF TypeOK
    <2>1. CASE on \in DOMAIN blockToHead
      <3> DEFINE h == blockToHead[on]
      <3>1. /\ headToBlock' = Put(headToBlock, h, n)
            /\ blockToHead' = Put(Delete(blockToHead, on), n, h)
        BY <2>1 DEF Inserted, putHead
      <3>2. /\ DOMAIN headToBlock' = DOMAIN headToBlock \cup {h}
            /\ headToBlock'[h] = n
            /\ \A i \in DOMAIN headToBlock : i # h => headToBlock'[i] = headToBlock[i]
        BY <3>1 DEF Put
      <3>3. /\ DOMAIN blockToHead' = (DOMAIN blockToHead \ {on}) \cup {n}
            /\ blockToHead'[n] = h
            /\ \A m \in DOMAIN blockToHead \ {on} : blockToHead'[m] = blockToHead[m]
        BY <2>0, <3>1 DEF Put, Delete
      <3>4. /\ \A i \in DOMAIN headToBlock : i # h => headToBlock[i] # on
            /\ \A m \in DOMAIN blockToHead \ {on} :
                  blockToHead[m] # h /\ blockToHead[m] \in DOMAIN headToBlock
        BY <2>1 DEF HeadsInv, HeadsInverse, TypeOK
      <3> HIDE DEF h, n
      <3> QED
        BY <2>0, <3>2, <3>3, <3>4 DEF HeadsInv, HeadsInverse
    <2>2. CASE on \notin DOMAIN blockToHead
      <3> DEFINE h == headsCnt + 1
      <3>1. /\ headToBlock' = Put(headToBlock, h, n)
            /\ blockToHead' = Put(blockToHead, n, h)
        BY <2>2 DEF Inserted, putHead, putNewHead
      <3>2. /\ DOMAIN headToBlock' = DOMAIN headToBlock \cup {h}
            /\ headToBlock'[h] = n
            /\ \A i \in DOMAIN headToBlock : headToBlock'[i] = headToBlock[i]
        BY <2>0, <3>1 DEF Put
      <3>3. /\ DOMAIN blockToHead' = DOMAIN blockToHead \cup {n}
            /\ blockToHead'[n] = h
            /\ \A m \in DOMAIN blockToHead : blockToHead'[m] = blockToHead[m]
        BY <2>0, <3>1 DEF Put
      <3>4. \A m \in DOMAIN blockToHead : blockToHead[m] \in DOMAIN headToBlock
        BY DEF TypeOK
      <3> HIDE DEF h, n
      <3> QED
        BY <2>0, <3>2, <3>3, <3>4 DEF HeadsInv, HeadsInverse
    <2> QED
      BY <2>1, <2>2
  <1>3. /\ DOMAIN blockToHead' = (DOMAIN blockToHead \ {on}) \cup {n}
        /\ DOMAIN blockToHead \subseteq Numbers
        /\ on \in Numbers
    BY DEF Inserted, Insertable, putHead, putNewHead, Put, Delete, TypeOK
  <1>4. HeadIsTip'
    <2> SUFFICES ASSUME NEW k \in DOMAIN blockToHead', NEW m \in Numbers'
                 PROVE  blocks'[m].parent # blocks'[k].id
      BY DEF HeadIsTip
    <2>1. CASE k = n
      \* Nothing stored names the new block as its parent.
      <3>1. \A i \in Numbers : blocks[i].parent \in DOMAIN numOf \cup {NoID}
        BY DEF ChainsGrowByOne
      <3>2. r.id # NoID
        BY IDAssumption DEF Insertable, Record
      <3> QED
        BY <2>1, <3>1, <3>2, <1>t DEF Tables, Insertable
    <2>2. CASE k # n
      <3>1. k \in DOMAIN blockToHead /\ k \in Numbers /\ k # on
        BY <1>3, <2>2
      <3>2. CASE m \in Numbers
        BY <3>1, <3>2, <1>t DEF Tables, HeadsInv, HeadIsTip
      <3>3. CASE m = n
        <4>1. blocks[k].id # blocks[on].id
          BY <3>1, <1>3 DEF IndexConsistent
        <4>2. blocks[on].parent # blocks[k].id
          BY <3>1, <1>3 DEF HeadsInv, HeadIsTip
        <4> QED
          BY <3>1, <3>3, <4>1, <4>2, <1>t DEF Tables, Insertable
      <3> QED
        BY <3>2, <3>3, <1>t DEF Tables
    <2> QED
      BY <2>1, <2>2
  <1>5. HeadlessSuperseded'
    <2> SUFFICES ASSUME NEW k \in Numbers' \ DOMAIN blockToHead'
                 PROVE  \E m \in Numbers' :
                            /\ m > k
                            /\ \/ blocks'[m].parent = blocks'[k].id
                               \/ /\ blocks'[m].parent = blocks'[k].parent
                                  /\ blocks'[m].height = blocks'[k].height
      BY DEF HeadlessSuperseded
    <2>1. k \in Numbers /\ k # n
      BY <1>3, <1>t DEF Tables
    <2>2. CASE k = on
      BY <1>1, <2>1, <2>2, <1>t DEF Tables, Insertable
    <2>3. CASE k # on
      <3>1. k \in Numbers \ DOMAIN blockToHead
        BY <1>3, <2>1, <2>3
      <3>2. PICK m \in Numbers :
                /\ m > k
                /\ \/ blocks[m].parent = blocks[k].id
                   \/ /\ blocks[m].parent = blocks[k].parent
                      /\ blocks[m].height = blocks[k].height
        BY <3>1 DEF HeadsInv, HeadlessSuperseded
      <3> QED
        BY <2>1, <3>2, <1>t DEF Tables
    <2> QED
      BY <2>2, <2>3
  <1> QED
    BY <1>2, <1>4, <1>5 DEF HeadsInv

-----------------------------------------------------------------------------
(* The steps of the specification                                          *)

\* PutBlock of a new block is an insertion on top of its parent.
LEMMA ProtoInserts ==
    ASSUME IInv, NEW b \in Blocks, ~hasBlock(b.id), hasBlock(b.parent), putProtoBlock(b)
    PROVE  \E r, on : Insertable(r, on) /\ Inserted(r, on) /\ r.id = b.id
  <1> DEFINE on == numOf[b.parent]
             r == [id |-> b.id, parent |-> b.parent,
                   height |-> blocks[on].height + 1,
                   score |-> calculateCumulativeScore(blocks[on].score, b.baseTarget),
                   generator |-> b.generator]
  <1>1. /\ b.id \in ID /\ b.parent \in ID /\ b.baseTarget \in Nat
        /\ b.generator \in Generator
    BY MessagesAssumption
  <1>2. on \in Numbers /\ blocks[on].id = b.parent
    BY DEF IInv, StoreInv, TypeOK, IndexConsistent, hasBlock
  <1>3. blocks[on].height \in Nat /\ blocks[on].score \in Nat
    BY <1>2 DEF IInv, StoreInv, TypeOK
  <1>4. /\ calculateScore(b.baseTarget) \in Nat
        /\ r.score = blocks[on].score + calculateScore(b.baseTarget)
    BY <1>1, <1>3, ScoreType DEF calculateCumulativeScore
  <1>5. r \in Record
    BY <1>1, <1>3, <1>4 DEF Record
  <1>6. Insertable(r, on)
    BY <1>1, <1>2, <1>4, <1>5 DEF Insertable, hasBlock
  <1>7. Inserted(r, on)
    BY DEF putProtoBlock, Inserted
  <1> QED
    BY <1>6, <1>7

\* PutMicroBlock of a new block is an insertion in the place of the referenced
\* block.
LEMMA MicroInserts ==
    ASSUME IInv, NEW inv \in MicroInvs, ~hasBlock(inv.total), hasBlock(inv.ref),
           blocks[numOf[inv.ref]].parent # NoID, putMicroBlock(inv)
    PROVE  \E r, on : Insertable(r, on) /\ Inserted(r, on) /\ r.id = inv.total
  <1> DEFINE on == numOf[inv.ref]
             r == [id |-> inv.total, parent |-> blocks[on].parent,
                   height |-> blocks[on].height, score |-> blocks[on].score,
                   generator |-> blocks[on].generator]
  <1>1. inv.total \in ID
    BY MessagesAssumption
  <1>2. on \in Numbers /\ blocks[on] \in Record
    BY DEF IInv, StoreInv, TypeOK, Record, hasBlock
  <1>3. r \in Record
    BY <1>1, <1>2 DEF Record
  <1>4. on # 1
    BY <1>2 DEF IInv, StoreInv, ChainsGrowByOne
  <1>5. Insertable(r, on)
    BY <1>2, <1>3, <1>4 DEF Insertable, IInv, StoreInv, ChainsGrowByOne, hasBlock
  <1>6. Inserted(r, on)
    BY DEF putMicroBlock, Inserted
  <1> QED
    BY <1>5, <1>6

\* An insertion keeps the invariant.
LEMMA InsertedInv ==
    ASSUME IInv, NEW r, NEW on, Insertable(r, on), Inserted(r, on),
           NEW addr \in Addr, owed' = {<<addr, r.id>>}, UNCHANGED <<leashes, up>>
    PROVE  IInv'
  <1>t. Tables(r)
    BY InsertedTables DEF IInv, StoreInv
  <1>1. owed' \subseteq Addr \X ID
    BY DEF Insertable, Record
  <1>2. TypeOK'
    BY <1>1, InsertedType DEF IInv, StoreInv
  <1>3. IndexConsistent' /\ ChainsGrowByOne'
    BY InsertedStore DEF IInv
  <1>4. HeadsInv'
    BY InsertedHeads DEF IInv
  <1>5. Opened'
    BY DEF IInv, StoreInv, Opened, TypeOK, Inserted
  <1>6. LeashStored'
    BY <1>t DEF Tables, IInv, LeashStored, hasBlock
  <1> QED
    BY <1>2, <1>3, <1>4, <1>5, <1>6 DEF IInv, StoreInv

\* A step that leaves the blocks and the heads alone keeps their invariants.
LEMMA SameDatabase ==
    ASSUME IInv, UNCHANGED database
    PROVE  /\ IndexConsistent' /\ ChainsGrowByOne' /\ HeadsInv'
           /\ \A id : hasBlock(id)' = hasBlock(id)
           /\ blocksCnt' = blocksCnt
  BY DEF IInv, StoreInv, HeadsInv, database, store, heads, IndexConsistent,
         ChainsGrowByOne, HeadsInverse, HeadIsTip, HeadlessSuperseded, Numbers, hasBlock

\* A stuttering step keeps the invariant.
LEMMA UnchangedInv ==
    ASSUME IInv, UNCHANGED vars
    PROVE  IInv'
  <1>1. UNCHANGED <<database, leashes, up, owed>>
    BY DEF vars, database, store, heads
  <1>2. TypeOK'
    BY <1>1 DEF IInv, StoreInv, TypeOK, database, store, heads, Numbers
  <1>3. LeashStored' /\ Opened'
    BY <1>1, SameDatabase DEF IInv, StoreInv, LeashStored, Opened
  <1> QED
    BY <1>1, <1>2, <1>3, SameDatabase DEF IInv, StoreInv

\* A leash moved to a stored block keeps the invariant.
LEMMA LeashMoves ==
    ASSUME IInv, UNCHANGED database, NEW addr \in Addr, NEW id \in ID, hasBlock(id),
           updateLeash(addr, id), up' = up, owed' \subseteq owed
    PROVE  IInv'
  <1>1. TypeOK'
    BY DEF IInv, StoreInv, TypeOK, database, store, heads, updateLeash, Put, Numbers
  <1>2. LeashStored'
    BY SameDatabase DEF IInv, LeashStored, updateLeash, Put
  <1> QED
    BY <1>1, <1>2, SameDatabase DEF IInv, StoreInv, Opened

\* The genesis block written into an empty database.
LEMMA InitializeInv ==
    ASSUME IInv, blocksCnt = 0, initialize, UNCHANGED <<leashes, owed>>, up' = TRUE
    PROVE  IInv'
  <1> DEFINE gen == [id |-> Genesis, parent |-> NoID, height |-> 1,
                     score |-> calculateScore(GenesisTarget),
                     generator |-> GenesisGenerator]
  <1>1. /\ DOMAIN numOf = {} /\ DOMAIN blockToHead = {} /\ headsCnt = 0
        /\ DOMAIN blocks = {} /\ DOMAIN links = {} /\ DOMAIN headToBlock = {}
    BY DEF IInv, StoreInv, TypeOK, Numbers
  <1>2. DOMAIN leashes = {} /\ owed = {}
    BY <1>1 DEF IInv, LeashStored, hasBlock
  <1>3. Numbers' = {1} /\ blocksCnt' = 1
    BY DEF initialize, Numbers
  <1>4. /\ numOf' = [x \in {Genesis} |-> 1]
        /\ blocks' = [x \in {1} |-> gen]
        /\ links' = [x \in {1} |-> [id |-> Genesis, height |-> 1, parents |-> <<>>]]
        /\ headsCnt' = 1
        /\ headToBlock' = [x \in {1} |-> 1]
        /\ blockToHead' = [x \in {1} |-> 1]
    BY <1>1 DEF initialize, Put
  <1>5. gen \in Record
    BY IDAssumption, ScoreAssumption, ScoreType DEF Record
  <1>6. TypeOK'
    BY <1>2, <1>3, <1>4, <1>5, IDAssumption DEF TypeOK, Record, IInv, StoreInv
  <1>7. IndexConsistent' /\ ChainsGrowByOne' /\ Opened'
    BY <1>3, <1>4 DEF IndexConsistent, ChainsGrowByOne, Opened
  <1>8. LeashStored'
    BY <1>2 DEF LeashStored
  <1>9. HeadsInv'
    <2>1. HeadsInverse' /\ HeadlessSuperseded'
      BY <1>3, <1>4 DEF HeadsInverse, HeadlessSuperseded
    <2>2. HeadIsTip'
      BY <1>3, <1>4, IDAssumption DEF HeadIsTip
    <2> QED
      BY <2>1, <2>2 DEF HeadsInv
  <1> QED
    BY <1>6, <1>7, <1>8, <1>9 DEF IInv, StoreInv

\* The invariant holds of the empty database.
LEMMA InitInv == Init => IInv
  <1> SUFFICES ASSUME Init PROVE IInv
    OBVIOUS
  <1>1. Numbers = {} /\ 1..headsCnt = {}
    BY DEF Init, Numbers
  <1>2. /\ DOMAIN numOf = {} /\ DOMAIN blockToHead = {} /\ DOMAIN leashes = {}
        /\ DOMAIN links = {} /\ DOMAIN headToBlock = {} /\ owed = {} /\ ~up
    BY DEF Init, Empty
  <1>3. \A S : Empty \in [{} -> S]
    BY DEF Empty
  <1>4. TypeOK
    BY <1>1, <1>2, <1>3 DEF TypeOK, Init
  <1>5. IndexConsistent /\ ChainsGrowByOne /\ Opened /\ LeashStored
    BY <1>1, <1>2 DEF IndexConsistent, ChainsGrowByOne, Opened, LeashStored
  <1>6. HeadsInv
    BY <1>1, <1>2 DEF HeadsInv, HeadsInverse, HeadIsTip, HeadlessSuperseded
  <1> QED
    BY <1>4, <1>5, <1>6 DEF IInv, StoreInv

\* Every step keeps the invariant.
LEMMA NextInv == IInv /\ [Next]_vars => IInv'
  <1> SUFFICES ASSUME IInv, [Next]_vars PROVE IInv'
    OBVIOUS
  <1>1. CASE NewLinkage
    <2>1. CASE blocksCnt = 0
      BY <1>1, <2>1, InitializeInv DEF NewLinkage
    <2>2. CASE blocksCnt # 0
      <3>1. UNCHANGED <<database, leashes, owed>> /\ up' = TRUE
        BY <1>1, <2>2 DEF NewLinkage, database
      <3>2. TypeOK'
        BY <3>1 DEF IInv, StoreInv, TypeOK, database, store, heads, Numbers
      <3>3. LeashStored' /\ Opened'
        BY <2>2, <3>1, SameDatabase DEF IInv, StoreInv, LeashStored, Opened, TypeOK
      <3> QED
        BY <3>1, <3>2, <3>3, SameDatabase DEF IInv, StoreInv
    <2> QED
      BY <2>1, <2>2
  <1>2. ASSUME NEW b \in Blocks, NEW addr \in Addr, PutBlock(b, addr)
        PROVE  IInv'
    <2>1. b.id \in ID
      BY MessagesAssumption
    <2>2. CASE PutKnownBlock(addr, b.id)
      BY <2>1, <2>2, LeashMoves DEF PutKnownBlock, database
    <2>3. CASE UNCHANGED vars
      BY <2>3, UnchangedInv
    <2>4. CASE /\ ~hasBlock(b.id) /\ hasBlock(b.parent) /\ putProtoBlock(b)
               /\ owed' = {<<addr, b.id>>} /\ UNCHANGED <<leashes, up>>
      <3>1. PICK r, on : Insertable(r, on) /\ Inserted(r, on) /\ r.id = b.id
        BY <2>4, ProtoInserts
      <3> QED
        BY <2>4, <3>1, InsertedInv
    <2> QED
      BY <1>2, <2>2, <2>3, <2>4 DEF PutBlock
  <1>3. ASSUME NEW inv \in MicroInvs, NEW addr \in Addr, PutMicroBlock(inv, addr)
        PROVE  IInv'
    <2>1. inv.total \in ID
      BY MessagesAssumption
    <2>2. CASE PutKnownBlock(addr, inv.total)
      BY <2>1, <2>2, LeashMoves DEF PutKnownBlock, database
    <2>3. CASE UNCHANGED vars
      BY <2>3, UnchangedInv
    <2>4. CASE /\ ~hasBlock(inv.total) /\ hasBlock(inv.ref)
               /\ blocks[numOf[inv.ref]].parent # NoID /\ putMicroBlock(inv)
               /\ owed' = {<<addr, inv.total>>} /\ UNCHANGED <<leashes, up>>
      <3>1. PICK r, on : Insertable(r, on) /\ Inserted(r, on) /\ r.id = inv.total
        BY <2>4, MicroInserts
      <3> QED
        BY <2>4, <3>1, InsertedInv
    <2> QED
      BY <1>3, <2>2, <2>3, <2>4 DEF PutMicroBlock
  <1>4. CASE FinishPut
    <2>1. PICK o \in owed : updateLeash(o[1], o[2])
      BY <1>4 DEF FinishPut
    <2>2. o[1] \in Addr /\ o[2] \in ID /\ hasBlock(o[2])
      BY <2>1 DEF IInv, StoreInv, TypeOK, LeashStored
    <2> QED
      BY <1>4, <2>1, <2>2, LeashMoves DEF FinishPut, database
  <1>5. CASE FailPut \/ Crash
    <2>1. UNCHANGED <<database, leashes>> /\ owed' = {} /\ (up' => up) /\ up' \in BOOLEAN
      BY <1>5 DEF FailPut, Crash, database, IInv, StoreInv, TypeOK
    <2>2. TypeOK'
      BY <2>1 DEF IInv, StoreInv, TypeOK, database, store, heads, Numbers
    <2>3. LeashStored' /\ Opened'
      BY <2>1, SameDatabase DEF IInv, StoreInv, LeashStored, Opened
    <2> QED
      BY <2>1, <2>2, <2>3, SameDatabase DEF IInv, StoreInv
  <1>6. ASSUME NEW id \in ID, NEW addr \in Addr, MoveLeash(id, addr)
        PROVE  IInv'
    BY <1>6, LeashMoves DEF MoveLeash, database
  <1>7. CASE UNCHANGED vars
    BY <1>7, UnchangedInv
  <1> QED
    BY <1>1, <1>2, <1>3, <1>4, <1>5, <1>6, <1>7 DEF Next

-----------------------------------------------------------------------------
(* Theorems                                                                *)

\* The inductive invariant holds in every reachable state.
THEOREM Invariance == Spec => []IInv
  BY InitInv, NextInv, PTL DEF Spec

\* Tables and counters always have the keys and values of their types.
THEOREM TypeCorrect == Spec => []TypeOK
  <1>1. IInv => TypeOK
    BY DEF IInv, StoreInv
  <1> QED
    BY <1>1, Invariance, PTL

\* After any sequence of calls, failed writes, crashes and restarts the index of
\* IDs and the tables of blocks and links describe the same blocks.
THEOREM IndexAgrees == Spec => []IndexConsistent
  <1>1. IInv => IndexConsistent
    BY DEF IInv, StoreInv
  <1> QED
    BY <1>1, Invariance, PTL

\* The stored blocks form one tree: putProtoBlock and putMicroBlock give every
\* block a stored parent, one level below it, and a score above it.
THEOREM StoreConsistent == Spec => []ChainsGrowByOne
  <1>1. IInv => ChainsGrowByOne
    BY DEF IInv, StoreInv
  <1> QED
    BY <1>1, Invariance, PTL

\* A leash never points to a block that is not stored.
THEOREM LeashesStored == Spec => []LeashStored
  <1>1. IInv => LeashStored
    BY DEF IInv
  <1> QED
    BY <1>1, Invariance, PTL

\* The two tables of heads that putHead and putNewHead keep are inverse.
THEOREM HeadTablesInverse == Spec => []HeadsInverse
  <1>1. IInv => HeadsInverse
    BY DEF IInv, HeadsInv
  <1> QED
    BY <1>1, Invariance, PTL

\* A head is the end of a stored chain.
THEOREM HeadsAreTips == Spec => []HeadIsTip
  <1>1. IInv => HeadIsTip
    BY DEF IInv, HeadsInv
  <1> QED
    BY <1>1, Invariance, PTL

\* No chain loses its head: a block without one was continued or replaced.
THEOREM HeadlessContinued == Spec => []HeadlessSuperseded
  <1>1. IInv => HeadlessSuperseded
    BY DEF IInv, HeadsInv
  <1> QED
    BY <1>1, Invariance, PTL

-----------------------------------------------------------------------------
(* The moves of the heads and the refinement of History                    *)

\* Every step inserts one block, moves one leash to a stored block, writes the
\* genesis block into an empty database, or leaves blocks and leashes alone.
LEMMA StepKinds ==
    ASSUME IInv, [Next]_vars
    PROVE  \/ /\ up /\ UNCHANGED leashes
              /\ \E r, on : Insertable(r, on) /\ Inserted(r, on)
           \/ /\ up /\ UNCHANGED database
              /\ \E addr \in Addr, id \in ID : hasBlock(id) /\ updateLeash(addr, id)
           \/ blocksCnt = 0 /\ initialize /\ UNCHANGED leashes
           \/ UNCHANGED <<database, leashes>>
  <1>1. CASE NewLinkage
    BY <1>1 DEF NewLinkage, database
  <1>2. ASSUME NEW b \in Blocks, NEW addr \in Addr, PutBlock(b, addr)
        PROVE  \/ /\ up /\ UNCHANGED leashes
                  /\ \E r, on : Insertable(r, on) /\ Inserted(r, on)
               \/ /\ up /\ UNCHANGED database
                  /\ hasBlock(b.id) /\ updateLeash(addr, b.id)
               \/ UNCHANGED <<database, leashes>>
    BY <1>2, ProtoInserts
       DEF PutBlock, PutKnownBlock, Free, vars, database, store, heads
  <1>3. ASSUME NEW inv \in MicroInvs, NEW addr \in Addr, PutMicroBlock(inv, addr)
        PROVE  \/ /\ up /\ UNCHANGED leashes
                  /\ \E r, on : Insertable(r, on) /\ Inserted(r, on)
               \/ /\ up /\ UNCHANGED database
                  /\ hasBlock(inv.total) /\ updateLeash(addr, inv.total)
               \/ UNCHANGED <<database, leashes>>
    BY <1>3, MicroInserts
       DEF PutMicroBlock, PutKnownBlock, Free, vars, database, store, heads
  <1>4. CASE FinishPut
    <2>1. PICK o \in owed : updateLeash(o[1], o[2])
      BY <1>4 DEF FinishPut
    <2>2. o[1] \in Addr /\ o[2] \in ID /\ hasBlock(o[2])
      BY <2>1 DEF IInv, StoreInv, TypeOK, LeashStored
    <2> QED
      BY <1>4, <2>1, <2>2 DEF FinishPut, database
  <1>5. CASE FailPut \/ Crash \/ UNCHANGED vars
    BY <1>5 DEF FailPut, Crash, vars, database, store, heads
  <1>6. ASSUME NEW id \in ID, NEW addr \in Addr, MoveLeash(id, addr)
        PROVE  up /\ UNCHANGED database /\ hasBlock(id) /\ updateLeash(addr, id)
    BY <1>6 DEF MoveLeash, Free, database
  <1>7. /\ \A b \in Blocks : b.id \in ID
        /\ \A inv \in MicroInvs : inv.total \in ID
    BY MessagesAssumption
  <1> QED
    BY <1>1, <1>2, <1>3, <1>4, <1>5, <1>6, <1>7 DEF Next

\* The abstract tree of a database with blocks.
LEMMA TreeFacts ==
    ASSUME IInv, blocksCnt > 0
    PROVE  /\ treeOf = [id \in DOMAIN numOf |-> blocks[numOf[id]].parent]
           /\ DOMAIN treeOf = DOMAIN numOf
  BY DEF treeOf, IInv, StoreInv, TypeOK

\* The empty database stands for the initial history.
LEMMA RefinesInit == Init => Hist!Init
  BY DEF Init, Hist!Init, treeOf, Hist!Put, Hist!Empty, Put, Empty

\* Every step of the store is a step of the history or leaves it alone.
LEMMA RefinesNext == IInv /\ [Next]_vars => [Hist!Next]_(Hist!hvars)
  <1> SUFFICES ASSUME IInv, [Next]_vars
               PROVE  Hist!Next \/ UNCHANGED <<treeOf, leashes>>
    BY DEF Hist!hvars
  <1>0. IInv'
    BY NextInv
  <1>1. ASSUME up, UNCHANGED leashes, NEW r, NEW on, Insertable(r, on), Inserted(r, on)
        PROVE  Hist!Next
    <2>t. Tables(r)
      BY <1>1, InsertedTables DEF IInv, StoreInv
    <2>1. blocksCnt > 0 /\ blocksCnt' > 0
      BY <1>1 DEF IInv, StoreInv, Opened, TypeOK, Inserted
    <2>2. /\ treeOf = [id \in DOMAIN numOf |-> blocks[numOf[id]].parent]
          /\ DOMAIN treeOf = DOMAIN numOf
      BY <2>1, TreeFacts
    <2>3. treeOf' = [id \in DOMAIN numOf' |-> blocks'[numOf'[id]].parent]
      BY <2>1 DEF treeOf
    <2>4. \A id \in DOMAIN numOf : numOf[id] \in Numbers
      BY DEF IInv, StoreInv, TypeOK
    <2>5. treeOf' = [id \in DOMAIN treeOf \cup {r.id} |->
                        IF id = r.id THEN r.parent ELSE treeOf[id]]
      BY <2>t, <2>2, <2>3, <2>4 DEF Tables
    <2>6. r.id \in ID /\ r.id \notin DOMAIN treeOf
          /\ r.parent \in DOMAIN treeOf /\ r.parent \in ID
      BY <1>1, <2>2 DEF Insertable, Record, IInv, StoreInv, TypeOK
    <2>7. Hist!Insert(r.id, r.parent)
      BY <1>1, <2>5, <2>6 DEF Hist!Insert, Hist!Known, Hist!Put
    <2> QED
      BY <2>6, <2>7 DEF Hist!Next
  <1>2. ASSUME up, UNCHANGED database, NEW addr \in Addr, NEW id \in ID,
               hasBlock(id), updateLeash(addr, id)
        PROVE  Hist!Next
    <2>1. blocksCnt > 0
      BY <1>2 DEF IInv, StoreInv, Opened
    <2>2. id \in DOMAIN treeOf
      BY <1>2, <2>1, TreeFacts DEF hasBlock
    <2>3. treeOf' = treeOf
      BY <1>2 DEF treeOf, database, store
    <2>4. Hist!MoveLeash(addr, id)
      BY <1>2, <2>2, <2>3 DEF Hist!MoveLeash, Hist!Known, Hist!Put, updateLeash, Put
    <2> QED
      BY <2>4 DEF Hist!Next
  <1>3. ASSUME blocksCnt = 0, initialize, UNCHANGED leashes
        PROVE  UNCHANGED <<treeOf, leashes>>
    <2>1. DOMAIN numOf = {} /\ DOMAIN blocks = {}
      BY <1>3 DEF IInv, StoreInv, TypeOK, Numbers
    <2>2. /\ numOf' = [x \in {Genesis} |-> 1]
          /\ blocks'[1].parent = NoID
          /\ blocksCnt' = 1
      BY <1>3, <2>1 DEF initialize, Put
    <2>3. treeOf' = [x \in {Genesis} |-> NoID]
      BY <2>2 DEF treeOf
    <2>4. treeOf = [x \in {Genesis} |-> NoID]
      BY <1>3 DEF treeOf, Put, Empty
    <2> QED
      BY <1>3, <2>3, <2>4
  <1>4. ASSUME UNCHANGED <<database, leashes>>
        PROVE  UNCHANGED <<treeOf, leashes>>
    BY <1>4 DEF treeOf, database, store
  <1> QED
    BY <1>1, <1>2, <1>3, <1>4, StepKinds

\* Heads are never removed and move only to a child of their block or to a block
\* that takes its place.
LEMMA NextHeadsAdvance ==
    IInv /\ [Next]_vars => \A h \in DOMAIN headToBlock : HeadMove(h)
  <1> SUFFICES ASSUME IInv, [Next]_vars, NEW h \in DOMAIN headToBlock
               PROVE  HeadMove(h)
    OBVIOUS
  <1>1. ASSUME NEW r, NEW on, Insertable(r, on), Inserted(r, on)
        PROVE  HeadMove(h)
    <2> DEFINE n == blocksCnt + 1
    <2>t. Tables(r)
      BY <1>1, InsertedTables DEF IInv, StoreInv
    <2>1. CASE on \in DOMAIN blockToHead
      <3>1. headToBlock' = Put(headToBlock, blockToHead[on], n)
        BY <1>1, <2>1 DEF Inserted, putHead
      <3>2. headToBlock[blockToHead[on]] = on
        BY <2>1 DEF IInv, HeadsInv, HeadsInverse
      <3>3. /\ h \in DOMAIN headToBlock'
            /\ \/ headToBlock'[h] = headToBlock[h]
               \/ headToBlock'[h] = n /\ headToBlock[h] = on
        BY <3>1, <3>2 DEF Put
      <3>4. blocks'[n] = r
        BY <2>t DEF Tables
      <3>5. r.parent = blocks[on].id => r.height = blocks[on].height + 1
        BY <1>1 DEF Insertable, IInv, StoreInv, IndexConsistent
      <3>6. \/ r.parent = blocks[on].id
            \/ r.parent = blocks[on].parent /\ r.height = blocks[on].height
               /\ r.score = blocks[on].score
        BY <1>1 DEF Insertable
      <3> QED
        BY <3>3, <3>4, <3>5, <3>6 DEF HeadMove
    <2>2. CASE on \notin DOMAIN blockToHead
      <3>1. headToBlock' = Put(headToBlock, headsCnt + 1, n)
        BY <1>1, <2>2 DEF Inserted, putHead, putNewHead
      <3>2. h # headsCnt + 1
        BY DEF IInv, StoreInv, TypeOK
      <3>3. h \in DOMAIN headToBlock' /\ headToBlock'[h] = headToBlock[h]
        BY <3>1, <3>2 DEF Put
      <3> QED
        BY <3>3 DEF HeadMove
    <2> QED
      BY <2>1, <2>2
  <1>2. CASE UNCHANGED database
    BY <1>2 DEF database, heads, HeadMove
  <1>3. CASE blocksCnt = 0 /\ initialize
    BY <1>3 DEF IInv, StoreInv, TypeOK, Numbers
  <1> QED
    BY <1>1, <1>2, <1>3, StepKinds

\* The heads of the store only advance.
THEOREM HeadsOnlyAdvance == Spec => HeadsAdvance
  BY NextHeadsAdvance, Invariance, PTL DEF Spec, HeadsAdvance

\* The store implements the abstract history, for all messages and peers.
THEOREM Refinement == Spec => ImplementsHistory
  <1>1. Init => Hist!Init
    BY RefinesInit
  <1>2. IInv /\ [Next]_vars => [Hist!Next]_(Hist!hvars)
    BY RefinesNext
  <1> QED
    BY <1>1, <1>2, Invariance, PTL DEF Spec, ImplementsHistory, Hist!Spec
=============================================================================
