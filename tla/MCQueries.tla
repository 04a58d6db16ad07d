------------------------------ MODULE MCQueries ------------------------------
(***************************************************************************)
(* Universes for ChainQueries.  Block IDs are strings here: chain t is the *)
(* trunk, the number is the height.                                        *)
(***************************************************************************)
EXTENDS ChainQueries

CONSTANTS p1, p2, gen1, gen2, panic

OnePeer == {p1}
TwoPeers == {p1, p2}
MCGenerator == {gen1, gen2}

B(id, parent, baseTarget, generator) ==
    [id |-> id, parent |-> parent, baseTarget |-> baseTarget, generator |-> generator]

\* A trunk up to height 9 and a fork of four blocks above the genesis block.
DeepBlocks ==
    {B("t2", "t1", 3, gen1), B("t3", "t2", 3, gen2), B("t4", "t3", 4, gen1), B("t5", "t4", 4, gen2),
     B("t6", "t5", 3, gen1), B("t7", "t6", 3, gen1), B("t8", "t7", 3, gen1), B("t9", "t8", 3, gen1),
     B("u2", "t1", 3, gen2), B("u3", "u2", 3, gen2), B("u4", "u3", 3, gen2), B("u5", "u4", 3, gen2)}
DeepID == {m.id : m \in DeepBlocks} \cup {"t1"}

\* Two chains of five blocks above the genesis block.
TwinBlocks ==
    {B("t2", "t1", 3, gen1), B("t3", "t2", 3, gen1), B("t4", "t3", 3, gen1), B("t5", "t4", 3, gen1),
     B("t6", "t5", 3, gen1),
     B("u2", "t1", 3, gen2), B("u3", "u2", 3, gen2), B("u4", "u3", 3, gen2), B("u5", "u4", 3, gen2),
     B("u6", "u5", 3, gen2)}
TwinID == {m.id : m \in TwinBlocks} \cup {"t1"}

\* A high score at height 2, and a fork of five blocks with a low one.
LongBlocks ==
    {B("t2", "t1", 1, gen1),
     B("u2", "t1", 12, gen2), B("u3", "u2", 12, gen2), B("u4", "u3", 12, gen2),
     B("u5", "u4", 12, gen2), B("u6", "u5", 12, gen2)}
LongID == {m.id : m \in LongBlocks} \cup {"t1"}

NoMicros == {}
MCCounts == 0..4
=============================================================================
