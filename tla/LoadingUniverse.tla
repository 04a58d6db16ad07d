--------------------------- MODULE LoadingUniverse ---------------------------
(***************************************************************************)
(* Values for the constants of Loading: two peers and four blocks,         *)
(* g - a - b and c on top of a.                                            *)
(***************************************************************************)
EXTENDS Integers, Sequences, TLC

CONSTANTS p1, p2, g, a, b, c

OnePeer == {p1}
TwoPeers == {p1, p2}
MCID == {g, a, b, c}
MCPar == (g :> g) @@ (a :> g) @@ (b :> a) @@ (c :> a)
MCScore == (g :> 1) @@ (a :> 2) @@ (b :> 3) @@ (c :> 3)

SmallID == {g, a, b}
SmallPar == (g :> g) @@ (a :> g) @@ (b :> a)
SmallScore == (g :> 1) @@ (a :> 2) @@ (b :> 3)
SmallReplies == {<<g>>, <<g, a, b>>}

\* With an empty list, which handleSignaturesMessage passes on, and a gap.
SmallAnyReplies == SmallReplies \cup {<<>>, <<g, b>>}

\* Lists of consecutive blocks.
ChainReplies == {<<g>>, <<g, a, b>>, <<a, c>>}

\* Lists with a gap, as a peer with another idea of the chain may send.
AnyReplies == ChainReplies \cup {<<g, b>>}
=============================================================================
