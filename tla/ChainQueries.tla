---------------------------- MODULE ChainQueries ----------------------------
(***************************************************************************)
(* The read-only operations of chains/linkage.go and chains/storage.go,    *)
(* as operators over a state of Chains.  A query holds the read lock, so   *)
(* it sees one state in which no PutBlock is half done (Free).             *)
(*                                                                         *)
(* A query that indexes a slice out of its range panics: its result is     *)
(* Panic.  A query that iterates over a Go map, or sorts with the unstable *)
(* sort.Sort, may return any of several results: it is the SET of them.    *)
(***************************************************************************)
EXTENDS Chains, FiniteSets, Functions

CONSTANTS
    LongForkThreshold,  \* longForkThreshold, 5 in the code
    Counts,             \* numbers of blocks that clients ask for
    Panic               \* the result of a query that panics

ASSUME CountsAssumption == Counts \subseteq Nat

ASSUME PanicAssumption == Panic \notin ID

ASSUME ThresholdAssumption == LongForkThreshold \in Nat

block(id) == blocks[numOf[id]]

\* The rows of the table of blocks.
Rows == {blocks[n] : n \in Numbers}

-----------------------------------------------------------------------------
(* Walks along the first parents.  The variables of a walk are the number  *)
(* of the next block, 0 after the break, and the result so far.            *)

\* The body of the loop of getAncestors.
ancestorsTurn ==
    [s \in [n : Nat, r : Seq(ID)] |->
        IF s.n = 0 THEN s
        ELSE LET l == links[s.n] IN
             [n |-> IF l.parents = <<>> THEN 0 ELSE l.parents[1], r |-> Append(s.r, l.id)]]

\* Mutant: the loop runs once more.
getAncestorsOneMore(id, count) ==
    Iter(ancestorsTurn, [n |-> numOf[id], r |-> <<>>], count + 1).r

\* LastIDs
getAncestors(id, count) ==
    Iter(ancestorsTurn, [n |-> numOf[id], r |-> <<>>], count).r

\* The body of the loop of getBlocks: the same walk over the table of blocks.
blocksTurn ==
    [s \in [n : Nat, r : Seq(Rows)] |->
        IF s.n = 0 THEN s
        ELSE LET b == blocks[s.n] IN
             [n |-> IF b.parent = NoID THEN 0 ELSE links[s.n].parents[1],
              r |-> Append(s.r, b)]]

getBlocks(id, count) == Iter(blocksTurn, [n |-> numOf[id], r |-> <<>>], count).r

\* How many of the last `count' blocks each generator made.
ForkGenerators(id, count) ==
    LET bs == getBlocks(id, count)
        gens == {bs[i].generator : i \in DOMAIN bs}
    IN  [x \in gens |-> Cardinality({i \in DOMAIN bs : bs[i].generator = x})]

-----------------------------------------------------------------------------
(* Last common ancestor over the skip lists                                *)

\* The body of the loop of fastBackwardFarthest, which descends to the height h:
\* s is the number of `farthest' and the position i, 0 when the loop is over.  The
\* loop goes on from the top of the next list when a jump makes i too large for it.
backwardTurn(h) ==
    [s \in Numbers \X Nat |->
        LET f == links[s[1]]
            i == s[2]
        IN  IF i = 0 THEN s
            ELSE IF f.height - pow2[i - 1] >= h
            THEN LET top == Len(links[f.parents[i]].parents)
                 IN  <<f.parents[i], IF i > top THEN top ELSE i - 1>>
            ELSE <<s[1], i - 1>>]

\* Mutant: a jump must end above the height.
fastBackwardStrict(f, h) ==
    LET top == Len(links[f].parents) IN Iter(backwardTurn(h + 1), <<f, top>>, top)[1]

\* Every turn takes the position down, so there are at most `top' turns.
fastBackwardFarthest(f, h) ==
    LET top == Len(links[f].parents) IN Iter(backwardTurn(h), <<f, top>>, top)[1]

\* The body of the second loop of lca: `farthest', `other' and the position.  After
\* a jump the lists are shorter, but the position only goes down by one: if it
\* does not exist Go panics, and the walk stays where it is.
descendTurn ==
    [s \in Numbers \X Numbers \X Nat |->
        LET fs == links[s[1]].parents
            os == links[s[2]].parents
            i == s[3]
        IN  IF i = 0 \/ Len(fs) < i \/ Len(os) < i THEN s
            ELSE IF fs[i] # os[i] THEN <<fs[i], os[i], i - 1>>
            ELSE <<s[1], s[2], i - 1>>]

\* The loop and the return of lca.
descend(f, o) ==
    LET top == Len(links[f].parents)
        s == Iter(descendTurn, <<f, o, top>>, top)
    IN  IF s[3] > 0 \/ links[s[1]].parents = <<>> THEN Panic
        ELSE links[links[s[1]].parents[1]].id

\* Mutant: the test for a block on the other one's chain is missing.
lcaNoEqualityTest(id1, id2) ==
    LET n1 == numOf[id1]
        n2 == numOf[id2]
        swap == links[n1].height < links[n2].height
        other == IF swap THEN n1 ELSE n2
        farthest == fastBackwardFarthest(IF swap THEN n2 ELSE n1, links[other].height)
    IN  descend(farthest, other)

lca(id1, id2) ==
    LET n1 == numOf[id1]
        n2 == numOf[id2]
        swap == links[n1].height < links[n2].height
        other == IF swap THEN n1 ELSE n2
        farthest == fastBackwardFarthest(IF swap THEN n2 ELSE n1, links[other].height)
    IN  IF links[farthest].id = links[other].id THEN links[farthest].id
        ELSE descend(farthest, other)

-----------------------------------------------------------------------------
(* Forks                                                                   *)

\* The leashes a request is about: all of them if it lists no peers.
selected(peers) == {a \in DOMAIN leashes : peers = {} \/ a \in peers}

peersOn(id, sel) == {a \in sel : leashes[a] = id}

\* byScoreAndPeersDesc.Less
less(id1, id2, sel) ==
    \/ block(id1).score > block(id2).score
    \/ /\ block(id1).score = block(id2).score
       /\ Cardinality(peersOn(id1, sel)) > Cardinality(peersOn(id2, sel))

leashed(sel) == {leashes[a] : a \in sel}

\* The blocks that sort.Sort may put first: the order of equal ones is not determined.
longestOf(sel) ==
    {x \in leashed(sel) : \A y \in leashed(sel) : ~less(y, x, sel)}

\* Mutant: the length counts the last common block too.
forkEntryInclusive(x, longest, sel) ==
    LET c == lca(longest, x)
    IN  [longest |-> x = longest, head |-> x, peers |-> peersOn(x, sel), lcb |-> c,
         length |-> block(x).height - block(c).height + 1]

\* The entry of the reply for the chain that ends in x, compared to longest.
forkEntry(x, longest, sel) ==
    LET c == lca(longest, x)
    IN  [longest |-> x = longest, head |-> x, peers |-> peersOn(x, sel), lcb |-> c,
         length |-> block(x).height - block(c).height]

\* The replies Forks may give; it panics on r[0] if nothing is selected.
Forks(peers) ==
    LET sel == selected(peers)
    IN  IF sel = {} THEN {Panic}
        ELSE {IF \E x \in leashed(sel) : lca(l, x) = Panic THEN Panic
              ELSE {forkEntry(x, l, sel) : x \in leashed(sel)} : l \in longestOf(sel)}

\* Mutant: a list of peers replaces the set of connected ones.
activeForksListed(rps, connections) == Forks(IF rps = {} THEN connections ELSE rps)

\* The handler of GET /api/active-forks: rps are the peers of the request and
\* connections the registered ones.
activeForks(rps, connections) == Forks({a \in connections : rps = {} \/ a \in rps})

\* The orders in which Go may iterate over a map with the keys S.
orders(S) == Bijection(1..Cardinality(S), S)

\* Mutant: a better score is taken without its number of peers.
lcbTurnScoreOnly(order) ==
    [s \in [i : Nat, score : Nat, peers : Nat, longest : ID \cup {NoID}] |->
        LET k == order[s.i + 1]
            v == peersOn(k, DOMAIN leashes)
            next == [s EXCEPT !.i = @ + 1]
        IN  IF s.i >= Cardinality(leashed(DOMAIN leashes)) THEN s
            ELSE IF s.score = block(k).score /\ Cardinality(v) > s.peers
            THEN [next EXCEPT !.score = block(k).score, !.peers = Cardinality(v), !.longest = k]
            ELSE IF s.score < block(k).score
            THEN [next EXCEPT !.score = block(k).score, !.longest = k]
            ELSE next]

\* The body of the loop of LCB over the chains, a running maximum; i of them are
\* done.  Nothing follows when all are.
lcbTurn(order) ==
    [s \in [i : Nat, score : Nat, peers : Nat, longest : ID \cup {NoID}] |->
        LET k == order[s.i + 1]
            v == peersOn(k, DOMAIN leashes)
            next == [s EXCEPT !.i = @ + 1]
        IN  IF s.i >= Cardinality(leashed(DOMAIN leashes)) THEN s
            ELSE IF s.score = block(k).score /\ Cardinality(v) > s.peers
            THEN [next EXCEPT !.score = block(k).score, !.peers = Cardinality(v), !.longest = k]
            ELSE IF s.score < block(k).score
            THEN [next EXCEPT !.score = block(k).score, !.longest = k, !.peers = Cardinality(v)]
            ELSE next]

\* The last common block of a peer with a leash; Genesis without one.
LCB(peer) ==
    IF peer \notin DOMAIN leashes THEN {Genesis}
    ELSE LET head == leashes[peer]
             m == leashed(DOMAIN leashes)
             zero == [i |-> 0, score |-> 0, peers |-> 0, longest |-> NoID]
             longest(order) == Iter(lcbTurn(order), zero, Cardinality(m)).longest
         IN  {IF head = longest(order) THEN head ELSE lca(longest(order), head) :
                 order \in orders(m)}

ForkRecord == [longest : BOOLEAN, head : ID \cup {NoID}, peers : SUBSET Addr,
               lcb : ID \cup {NoID}, length : Nat]

\* The body of the loop of Fork: a running maximum of its own, and the entry of
\* the chain the peer is on.
forkTurn(order, peer) ==
    [s \in [i : Nat, score : Nat, peers : Nat, longest : ID \cup {NoID}, fork : ForkRecord] |->
        LET k == order[s.i + 1]
            b == block(k)
            v == peersOn(k, DOMAIN leashes)
            next == [s EXCEPT !.i = @ + 1,
                              !.fork = IF peer \notin v THEN @
                                       ELSE [longest |-> FALSE, head |-> b.id, peers |-> v,
                                             lcb |-> b.id, length |-> b.height]]
        IN  IF s.i >= Cardinality(leashed(DOMAIN leashes)) THEN s
            ELSE IF s.score = b.score /\ Cardinality(v) > s.peers
            THEN [next EXCEPT !.score = b.score, !.peers = Cardinality(v), !.longest = k]
            ELSE IF s.score < b.score
            THEN [next EXCEPT !.score = b.score, !.longest = k, !.peers = Cardinality(v)]
            ELSE next]

\* The replies Fork may give for a peer with a leash.
Fork(peer) ==
    LET m == leashed(DOMAIN leashes)
        noFork == [longest |-> FALSE, head |-> NoID, peers |-> {}, lcb |-> NoID, length |-> 0]
        zero == [i |-> 0, score |-> 0, peers |-> 0, longest |-> NoID, fork |-> noFork]
        reply(s) ==
            IF s.fork.head = s.longest THEN [s.fork EXCEPT !.longest = TRUE, !.length = 0]
            ELSE LET c == lca(s.longest, s.fork.head)
                 IN  IF c = Panic THEN Panic
                     ELSE [s.fork EXCEPT !.lcb = c, !.length = @ - block(c).height]
    IN  {reply(Iter(forkTurn(order, peer), zero, Cardinality(m))) : order \in orders(m)}

\* The statistics of one reply of Forks({}).
Stats(forks) ==
    [long |-> Cardinality({f \in forks : f.length > LongForkThreshold}),
     short |-> Cardinality({f \in forks : ~(f.length > LongForkThreshold)})]

-----------------------------------------------------------------------------
(* Reference definitions: the tree seen through the parent IDs only        *)

\* The IDs from x down to the genesis block.
chainOf(x) ==
    [i \in 1..block(x).height |-> blocks[NthAncestor(numOf[x], i - 1)].id]

onChain(x) ==
    {blocks[NthAncestor(numOf[x], k)].id : k \in 0..(block(x).height - 1)}

\* The last block that the chains of x and y have in common.
lastCommon(x, y) ==
    LET common == onChain(x) \cap onChain(y)
    IN  CHOOSE z \in common : \A w \in common : block(w).height <= block(z).height

least(i, j) == IF i < j THEN i ELSE j

Stored == DOMAIN numOf

-----------------------------------------------------------------------------
(* Properties                                                              *)

\* Whenever lca returns, it returns the last common ancestor.
LcaCorrect ==
    Free => \A x, y \in Stored : lca(x, y) \in {Panic, lastCommon(x, y)}

\* lca panics only if the lower block is at least three times as high as the
\* first blocks above the last common one.
LcaReturns ==
    Free => \A x, y \in Stored : lca(x, y) = Panic =>
                least(block(x).height, block(y).height) >=
                    3 * (block(lastCommon(x, y)).height + 1)

\* README, How it works: "For any two different chains, it is possible to find
\* the last common block".  lca, and with it LCB, Fork and Forks, panics if the
\* chains diverged early.
AnyTwoChainsHaveLCB == \A x, y \in Stored : lca(x, y) # Panic

\* LastIDs (getAncestors) and ForkGenerators (getBlocks) follow the chain of the
\* block: they see its last `count' blocks, or all of them down to the genesis
\* block if there are fewer.
WalksFollowChain ==
    Free => \A x \in Stored, count \in Counts :
        LET last == SubSeq(chainOf(x), 1, least(count, block(x).height))
        IN  /\ getAncestors(x, count) = last
            /\ \A gen \in Generator :
                  LET made == {i \in DOMAIN last : block(last[i]).generator = gen}
                      stats == ForkGenerators(x, count)
                  IN  IF made = {} THEN gen \notin DOMAIN stats
                      ELSE gen \in DOMAIN stats /\ stats[gen] = Cardinality(made)

\* Forks without a list of peers: every peer with a leash is in exactly one
\* entry, one entry is the main chain with the highest score, it is its own last
\* common block and has length 0, and the length of every other entry is the
\* number of its blocks that are not on the main chain.
ForksAgainstMain ==
    \A r \in Forks({}) \ {Panic} :
        \E main \in r :
            /\ main.longest /\ main.length = 0 /\ main.lcb = main.head
            /\ \A f \in r :
                  /\ f.longest => f = main
                  /\ block(f.head).score <= block(main.head).score
                  /\ f.length = Cardinality(onChain(f.head) \ onChain(main.head))
            /\ \A a \in DOMAIN leashes : \E f \in r :
                  f.head = leashes[a] /\ \A f2 \in r : a \in f2.peers <=> f2 = f

\* LCB and Fork choose the main chain by a running maximum over a Go map, each in
\* a loop of its own, and Forks by sorting; in whatever order the maps are iterated
\* they describe the same chains, and between them they may name every chain that
\* is a main chain for one of them.
ViewsAgree ==
    \A a \in DOMAIN leashes :
        Panic \notin Forks({}) =>
            /\ Fork(a) = {CHOOSE f \in r : a \in f.peers : r \in Forks({})}
            /\ LCB(a) = {f.lcb : f \in Fork(a)}

\* README, GET /api/status: long_forks_count is "the number of alternative chains
\* with a length of more or equal than 5 blocks".  Stats counts fewer.
LongForksAsDocumented ==
    \A r \in Forks({}) \ {Panic} :
        Stats(r).long = Cardinality({f \in r : ~f.longest /\ f.length >= LongForkThreshold})

\* A request for active forks is about the peers that are connected and, if it
\* lists peers, listed.  As soon as one of them has a leash, and unless lca panics
\* on their chains, it is answered, and the reply is about all of these peers and
\* no other, whatever chains they are on.  (If nobody is connected Forks gets an
\* empty list and reports everyone.)
ActiveForksSelect ==
    Free => \A listed, connected \in SUBSET Addr :
        LET known == {a \in connected \cap DOMAIN leashes : listed = {} \/ a \in listed}
            compared == \A x, y \in leashed(known) : lca(x, y) # Panic
        IN  known # {} /\ compared =>
                \A r \in activeForks(listed, connected) : UNION {f.peers : f \in r} = known
=============================================================================
