------------------------------- MODULE History -------------------------------
(***************************************************************************)
(* What the chains package promises to its clients (the HistoryProvider    *)
(* and Leasher interfaces of chains/linkage.go), with no tables, numbers,  *)
(* links or heads: a tree of block IDs that only grows, always under a     *)
(* block that is already there, and for every peer address at most one     *)
(* leash, a pointer into that tree.                                        *)
(***************************************************************************)
EXTENDS KeyValue

CONSTANTS
    Addr,       \* addresses of peers
    ID,         \* block IDs
    Genesis,    \* ID of the genesis block
    NoID        \* the absent parent of the genesis block

VARIABLES
    parentOf,   \* the tree: known block ID -> parent ID (NoID for Genesis)
    leash       \* peer address -> the block the peer is leashed to

hvars == <<parentOf, leash>>

Known == DOMAIN parentOf

Init ==
    /\ parentOf = Put(Empty, Genesis, NoID)
    /\ leash = Empty

\* A block with a known parent becomes known.
Insert(x, p) ==
    /\ x \in ID \ Known
    /\ p \in Known
    /\ parentOf' = Put(parentOf, x, p)
    /\ UNCHANGED leash

\* A peer is leashed to a known block.
MoveLeash(a, x) ==
    /\ x \in Known
    /\ leash' = Put(leash, a, x)
    /\ UNCHANGED parentOf

Next ==
    \/ \E x, p \in ID : Insert(x, p)
    \/ \E a \in Addr, x \in ID : MoveLeash(a, x)

Spec == Init /\ [][Next]_hvars
=============================================================================
