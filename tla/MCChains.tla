------------------------------ MODULE MCChains ------------------------------
(***************************************************************************)
(* A small universe of messages for Chains: a trunk, a fork, a chain of    *)
(* micro-blocks on a block of the trunk, a block on top of each of them,   *)
(* and announcements that are refused.                                     *)
(***************************************************************************)
EXTENDS ChainQueries

CONSTANTS p1, p2, p3, g0, a1, b2, c1, m1, k2, none, unknown, x, y, panic

MCAddr == {p1, p2, p3}
MCID == {g0, a1, b2, c1, m1, k2, unknown}
MCGenerator == {x, y}

B(id, parent, baseTarget, generator) ==
    [id |-> id, parent |-> parent, baseTarget |-> baseTarget, generator |-> generator]

\* g0 - a1 - b2, with c1 beside a1; m1 is a1 with a micro-block; k2 continues m1.
MCBlocks == {B(a1, g0, 3, x), B(b2, a1, 4, y), B(c1, g0, 1, y), B(k2, m1, 3, x),
             B(c1, unknown, 3, x)}

\* m1 announced over a1 and, by another message, over b2; nothing may be
\* announced over the genesis block or over an unknown block.
MCMicroInvs == {[total |-> m1, ref |-> a1], [total |-> m1, ref |-> b2],
                [total |-> k2, ref |-> g0], [total |-> b2, ref |-> unknown]}
=============================================================================
