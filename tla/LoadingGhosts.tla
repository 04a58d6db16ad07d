---------------------------- MODULE LoadingGhosts ----------------------------
(***************************************************************************)
(* Loading with a history variable.  It restricts no step.                 *)
(***************************************************************************)
EXTENDS Loading

\* peer -> the block the Distributor stored for it last, since the Loader got its
\* last list of IDs from it
VARIABLE live

GInit == Init /\ live = [a \in Addr |-> Genesis]

GNext ==
    \/ \E a \in Addr, b \in ID :
          \/ Distribute(a, b) /\ live' = [live EXCEPT ![a] = b]
          \/ handleBlock(a, b) /\ UNCHANGED live
    \/ \E b \in ID : DistributeFails(b) /\ UNCHANGED live
    \/ \E a \in Addr, list \in Replies :
          handleIDs(a, list) /\ live' = [live EXCEPT ![a] = Genesis]
    \/ OtherStep /\ UNCHANGED live

GSpec == GInit /\ [][GNext]_<<vars, live>>

\* x is below y on y's chain; scores grow along a chain.
isBelow(x, y) ==
    LET down[b \in ID] == b = x \/ (Score[b] > Score[x] /\ down[Par[b]])
    IN  x # y /\ down[y]

\* README, How it works: "For every node that has ever connected, there is a link
\* to the last block received from that node, called `leash`."  A block that the
\* Distributor stores while the Loader is in a handler, or while it holds the
\* queue of an earlier iteration, is overtaken by the Loader's older blocks.
LeashKeepsUp == pc = "select" => \A a \in Addr : ~isBelow(leashOf(a), live[a])
=============================================================================
