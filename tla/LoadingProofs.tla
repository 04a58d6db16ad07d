---------------------------- MODULE LoadingProofs ----------------------------
(***************************************************************************)
(* The safety properties of Loading, proved for any peers, blocks, scores  *)
(* and lists of IDs, with the Distributor between any two steps of a       *)
(* handler.                                                                *)
(***************************************************************************)
EXTENDS Loading, TLAPS

-----------------------------------------------------------------------------
(* The inductive invariant                                                 *)

\* The state that a handler finds: it runs for a peer, which has broadcast a
\* score, with the state that the state machine sets before an entry action.
Control ==
    /\ pc \notin {"select", "exit"} => pl # NoPeer
    /\ pc = "request" => st = "WaitingForIDs"
    /\ pc \in {"scan", "apply"} => st = "WaitingForBlocks"
    /\ pc = "report" => st = "Idle"
    /\ pc = "fail" => st = "Done"
    /\ pl # NoPeer => score[pl] # NoScore /\ ticker

\* The peer being loaded has failed less often than the threshold.
FailuresInv == FailuresBounded /\ (pl # NoPeer => fc[pl] < RestartThreshold)

\* Outside of the state that fills and applies a queue, what arrived is stored;
\* inside, what the loop over the queue has passed is.
KeptInv ==
    /\ pc \in {"request", "scan", "report"} \/ (pc = "select" /\ st \in {"Idle", "WaitingForIDs"})
       => \A i \in arrived(queue) : queue.ids[i] \in known
    /\ pc \in {"apply", "fail"} =>
           /\ pos >= queue.from
           /\ \A i \in items(queue) : i < pos => queue.ids[i] \in known

SafeInv == TypeOK /\ Control /\ FailuresInv /\ KeptInv

-----------------------------------------------------------------------------
(* The queue                                                               *)

\* An empty list of IDs is a list of IDs.
LEMMA EmptyList == <<>> \in Seq(ID)
  OBVIOUS

\* A handler that returns leaves an empty list behind.
LEMMA ReturnType == return => ids' \in Seq(ID) /\ pos' \in Nat \ {0} /\ pc' = "select"
  BY EmptyList DEF return

\* put marks items of the queue only, and keeps the others.
LEMMA PutType ==
    ASSUME NEW q \in [ids : Seq(ID), from : Nat \ {0}, got : SUBSET Nat],
           q.got \subseteq items(q), NEW b
    PROVE  /\ put(q, b) \in [ids : Seq(ID), from : Nat \ {0}, got : SUBSET Nat]
           /\ put(q, b).got \subseteq items(put(q, b))
           /\ put(q, b).ids = q.ids /\ put(q, b).from = q.from
  BY DEF put, items

\* What arrived are items of the queue, and every item before it arrived.
LEMMA ArrivedItems ==
    ASSUME NEW q, q.from \in Nat, q.ids \in Seq(ID), NEW i \in arrived(q)
    PROVE  i \in items(q) /\ \A j \in q.from..i : j \in q.got
  BY DEF arrived, items

\* PutBlock and MoveLeash keep the table of leashes.
LEMMA LeashType ==
    ASSUME TypeOK, NEW a \in Addr, NEW b \in ID
    PROVE  /\ Put(leash, a, b) \in [DOMAIN Put(leash, a, b) -> ID]
           /\ DOMAIN Put(leash, a, b) \subseteq Addr
  BY DEF TypeOK, Put

\* The block of a leash.
LEMMA LeashOfType ==
    ASSUME TypeOK, NEW a
    PROVE  leashOf(a) \in ID
  BY LoadingAssumption DEF TypeOK, leashOf

-----------------------------------------------------------------------------
(* Types and control                                                       *)

USE LoadingAssumption DEF history, network, machine, loader, handler

\* The initial state satisfies the invariant.
LEMMA InitSafe == Init => SafeInv
  <1> SUFFICES ASSUME Init PROVE SafeInv
    OBVIOUS
  <1>1. ids \in Seq(ID)
    BY EmptyList DEF Init
  <1>2. /\ queue \in [ids : Seq(ID), from : Nat \ {0}, got : SUBSET Nat]
        /\ queue.got \subseteq items(queue)
    BY EmptyList DEF Init, emptyQueue, items
  <1>3. leash \in [DOMAIN leash -> ID] /\ DOMAIN leash \subseteq Addr
    BY DEF Init, Empty
  <1>4. /\ known \subseteq ID /\ conn \subseteq Addr /\ silent \in BOOLEAN
        /\ score \in [Addr -> PeerScores \cup {NoScore}] /\ fc \in [Addr -> Nat]
        /\ pl \in Addr \cup {NoPeer} /\ late \in BOOLEAN /\ ticker \in BOOLEAN
        /\ st \in {"Idle", "WaitingForIDs", "WaitingForBlocks", "Done"}
        /\ prevDiff \in Int \cup {NoDiff} /\ pc \in Handlers /\ pos \in Nat \ {0}
    <2>1. /\ known = {Genesis} /\ conn = {} /\ silent = FALSE
          /\ score = [a \in Addr |-> NoScore] /\ fc = [a \in Addr |-> 0]
          /\ pl = NoPeer /\ late = FALSE /\ ticker = FALSE /\ st = "Idle"
          /\ prevDiff = NoDiff /\ pc = "select" /\ pos = 1
      BY Zenon DEF Init
    <2>2. silent \in BOOLEAN /\ late \in BOOLEAN /\ ticker \in BOOLEAN
      BY <2>1, Zenon
    <2>3. /\ known \subseteq ID /\ conn \subseteq Addr
          /\ score \in [Addr -> PeerScores \cup {NoScore}] /\ fc \in [Addr -> Nat]
          /\ pl \in Addr \cup {NoPeer}
          /\ st \in {"Idle", "WaitingForIDs", "WaitingForBlocks", "Done"}
          /\ prevDiff \in Int \cup {NoDiff} /\ pc \in Handlers /\ pos \in Nat \ {0}
      BY <2>1 DEF Handlers
    <2> QED
      BY <2>2, <2>3
  <1>5. TypeOK
    BY <1>1, <1>2, <1>3, <1>4 DEF TypeOK
  <1>6. Control /\ FailuresInv
    BY DEF Init, Control, FailuresInv, FailuresBounded
  <1>7. KeptInv
    BY DEF Init, KeptInv, arrived, items, emptyQueue
  <1> QED
    BY <1>5, <1>6, <1>7 DEF SafeInv

\* Every step of the Loader, the Distributor and the network keeps the types and
\* finds and leaves the state machine where its handler expects it.
LEMMA NextType == TypeOK /\ Control /\ [Next]_vars => TypeOK' /\ Control'
  <1> SUFFICES ASSUME TypeOK, Control, [Next]_vars
               PROVE  TypeOK' /\ Control'
    OBVIOUS
  <1>0. /\ emptyQueue \in [ids : Seq(ID), from : Nat \ {0}, got : SUBSET Nat]
        /\ emptyQueue.got \subseteq items(emptyQueue)
    BY DEF emptyQueue, items
  <1>1. ASSUME NEW a \in Addr, NEW b \in ID, Distribute(a, b)
        PROVE  TypeOK' /\ Control'
    <2>1. /\ leash' \in [DOMAIN leash' -> ID] /\ DOMAIN leash' \subseteq Addr
          /\ known' \subseteq ID
      BY <1>1, LeashType DEF Distribute, PutBlock, TypeOK
    <2> QED
      BY <1>1, <2>1 DEF Distribute, TypeOK, Control, items
  <1>d. ASSUME NEW b \in ID, DistributeFails(b)
        PROVE  TypeOK' /\ Control'
    BY <1>d DEF DistributeFails, PutBlockFails, TypeOK, Control, items
  <1>2. ASSUME NEW a \in Addr, NEW b \in ID, handleBlock(a, b)
        PROVE  TypeOK' /\ Control'
    <2>1. /\ queue' \in [ids : Seq(ID), from : Nat \ {0}, got : SUBSET Nat]
          /\ (queue.got \subseteq items(queue))'
      BY <1>2, PutType DEF handleBlock, TypeOK, items
    <2>2. queue.from \in Nat \ {0}
      BY DEF TypeOK
    <2>3. pc' \in Handlers /\ pos' \in Nat \ {0} /\ (pc' = pc \/ pc' = "apply")
      BY <1>2, <2>2 DEF handleBlock, TypeOK, Handlers
    <2> QED
      BY <1>2, <2>1, <2>3 DEF handleBlock, TypeOK, Control
  <1>3. ASSUME NEW a \in Addr, NEW list \in Replies, handleIDs(a, list)
        PROVE  TypeOK' /\ Control'
    BY <1>3 DEF handleIDs, TypeOK, Control, Handlers, items
  <1>4. ASSUME NEW a \in Addr, Connect(a) \/ Disconnect(a)
        PROVE  TypeOK' /\ Control'
    BY <1>4 DEF Connect, Disconnect, TypeOK, Control, items
  <1>5. ASSUME NEW a \in Addr, NEW s \in PeerScores, UpdatePeerScore(a, s)
        PROVE  TypeOK' /\ Control'
    BY <1>5 DEF UpdatePeerScore, TypeOK, Control, items
  <1>6. CASE GoSilent
    BY <1>6 DEF GoSilent, TypeOK, Control, items
  <1>7. CASE sync
    BY <1>0, <1>7 DEF sync, lagging, TypeOK, Control, Handlers
  <1>8. CASE TimePasses
    BY <1>8 DEF TimePasses, TypeOK, Control, items
  <1>9. CASE tick
    BY <1>9 DEF tick, TypeOK, Control, Handlers, items
  <1>10. CASE requestIDs
    BY <1>10, ReturnType DEF requestIDs, TypeOK, Control, Handlers, items
  <1>11. CASE requestBlocks
    <2>1. pl \in Addr /\ pc = "scan"
      BY <1>11 DEF requestBlocks, Control, TypeOK
    <2>2. leash' \in [DOMAIN leash' -> ID] /\ DOMAIN leash' \subseteq Addr
      <3>1. CASE UNCHANGED leash
        BY <3>1 DEF TypeOK
      <3>2. CASE /\ pos <= Len(ids)
                 /\ leash' = IF ids[pos] = leashOf(pl) THEN leash ELSE Put(leash, pl, ids[pos])
        <4>1. ids[pos] \in ID
          BY <3>2 DEF TypeOK
        <4> QED
          BY <2>1, <3>1, <3>2, <4>1, LeashType
      <3> QED
        BY <1>11, <3>1, <3>2 DEF requestBlocks
    <2>3. /\ queue' \in [ids : Seq(ID), from : Nat \ {0}, got : SUBSET Nat]
          /\ (queue.got \subseteq items(queue))'
      BY <1>11 DEF requestBlocks, newQueue, TypeOK, items
    <2>4. ids' \in Seq(ID)
      <3>1. CASE ids' = <<>>
        BY <3>1, EmptyList, Zenon
      <3>2. CASE UNCHANGED ids
        BY <3>2 DEF TypeOK
      <3> QED
        BY <1>11, <3>1, <3>2 DEF requestBlocks, return
    <2>5. known' = known /\ st' \in {st, "Idle"} /\ pc' \in {"scan", "report", "select"}
          /\ late' \in BOOLEAN /\ pos' \in Nat \ {0}
      <3>1. known' = known /\ st' \in {st, "Idle"} /\ pc' \in {"scan", "report", "select"}
        BY <1>11, ReturnType, Zenon DEF requestBlocks
      <3>2. late' = late \/ late' = FALSE
        BY <1>11, Zenon DEF requestBlocks
      <3>3. pos' = 1 \/ pos' = pos + 1
        BY <1>11, Zenon DEF requestBlocks, return
      <3>4. late' \in BOOLEAN
        BY <3>2, Zenon DEF TypeOK
      <3>5. pos' \in Nat \ {0}
        BY <3>3 DEF TypeOK
      <3> QED
        BY <3>1, <3>4, <3>5
    <2>6. Control'
      BY <1>11 DEF requestBlocks, return, Control
    <2> QED
      BY <1>11, <2>2, <2>3, <2>4, <2>6, <2>5 DEF requestBlocks, TypeOK, Handlers
  <1>12. CASE appendBlock
    <2>1. pl \in Addr /\ pc = "apply"
      BY <1>12 DEF appendBlock, Control, TypeOK
    <2>2. /\ leash' \in [DOMAIN leash' -> ID] /\ DOMAIN leash' \subseteq Addr
          /\ known' \subseteq ID
      <3>1. CASE UNCHANGED history
        BY <3>1 DEF TypeOK
      <3>2. CASE pos <= Len(queue.ids) /\ PutBlock(queue.ids[pos], pl)
        <4>1. queue.ids[pos] \in ID
          BY <3>2 DEF TypeOK
        <4> QED
          BY <2>1, <3>2, <4>1, LeashType DEF PutBlock, TypeOK
      <3>3. CASE pos <= Len(queue.ids) /\ PutBlockFails(queue.ids[pos])
        BY <3>3 DEF PutBlockFails, TypeOK
      <3> QED
        BY <1>12, <3>1, <3>2, <3>3 DEF appendBlock
    <2>3. Control' /\ pc' \in Handlers /\ st' \in {st, "Idle"}
          /\ ids' \in Seq(ID) /\ pos' \in Nat \ {0}
      BY <1>12, ReturnType DEF appendBlock, Control, TypeOK, Handlers
    <2> QED
      BY <1>12, <2>2, <2>3 DEF appendBlock, TypeOK, items
  <1>13. CASE OK
    <2>1. pl \in Addr /\ pc = "report" /\ score[pl] \in Nat
      BY <1>13 DEF OK, Control, TypeOK
    <2>2. score[pl] - Score[leashOf(pl)] \in Int
      BY <2>1, LeashOfType
    <2>3. prevDiff' \in Int \cup {NoDiff} /\ fc' \in [Addr -> Nat]
      BY <1>13, <2>2 DEF OK, TypeOK
    <2>4. ids' \in Seq(ID) /\ pos' \in Nat \ {0} /\ pc' \in {"request", "select"}
      BY <1>13, ReturnType DEF OK, TypeOK
    <2>5. /\ queue' \in [ids : Seq(ID), from : Nat \ {0}, got : SUBSET Nat]
          /\ (queue.got \subseteq items(queue))'
      BY <1>0, <1>13 DEF OK, release, TypeOK, items
    <2>6. Control'
      BY <1>13, <2>1, ReturnType DEF OK, release, Control
    <2>7. /\ pl' \in Addr \cup {NoPeer} /\ late' \in BOOLEAN /\ ticker' \in BOOLEAN
          /\ st' \in {"Idle", "WaitingForIDs", "WaitingForBlocks", "Done"}
      BY <1>13 DEF OK, release, TypeOK
    <2> QED
      BY <1>13, <2>3, <2>4, <2>5, <2>6, <2>7 DEF OK, TypeOK, Handlers
  <1>14. CASE handleFailure
    <2>1. pl \in Addr /\ pc = "fail"
      BY <1>14 DEF handleFailure, Control, TypeOK
    <2>2. /\ leash' \in [DOMAIN leash' -> ID] /\ DOMAIN leash' \subseteq Addr
          /\ known' \subseteq ID
      <3>1. CASE UNCHANGED history
        BY <3>1 DEF TypeOK
      <3>2. CASE pos \in queue.got /\ PutBlock(queue.ids[pos], pl)
        <4>1. queue.ids[pos] \in ID
          BY <3>2 DEF TypeOK, items
        <4> QED
          BY <2>1, <3>2, <4>1, LeashType DEF PutBlock, TypeOK
      <3>3. CASE pos \in queue.got /\ PutBlockFails(queue.ids[pos])
        BY <3>3 DEF PutBlockFails, TypeOK, items
      <3> QED
        BY <1>14, <3>1, <3>2, <3>3 DEF handleFailure
    <2>3. fc' \in [Addr -> Nat]
      <3>1. fc' = fc \/ fc' = [fc EXCEPT ![pl] = @ + 1]
        BY <1>14, Zenon DEF handleFailure
      <3> QED
        BY <2>1, <3>1 DEF TypeOK
    <2>4. CASE UNCHANGED machine
      <3>1. ids' \in Seq(ID) /\ pos' \in Nat \ {0} /\ pc' \in {"fail", "select"}
        BY <1>14, ReturnType DEF handleFailure, TypeOK
      <3>2. UNCHANGED <<conn, score, silent, ticker, prevDiff>>
        BY <1>14 DEF handleFailure
      <3> QED
        BY <2>1, <2>2, <2>3, <2>4, <3>1, <3>2 DEF TypeOK, Control, Handlers, items
    <2>5. CASE release /\ return
      BY <1>0, <1>14, <2>2, <2>3, <2>5, ReturnType DEF handleFailure, release, TypeOK, Control, Handlers
    <2> QED
      BY <1>14, <2>4, <2>5 DEF handleFailure
  <1>15. CASE Shutdown
    BY <1>15 DEF Shutdown, TypeOK, Control, Handlers, items
  <1>16. CASE UNCHANGED vars
    BY <1>16 DEF vars, TypeOK, Control, items
  <1> QED
    BY <1>1, <1>d, <1>2, <1>3, <1>4, <1>5, <1>6, <1>7, <1>8, <1>9, <1>10, <1>11, <1>12, <1>13,
       <1>14, <1>15, <1>16 DEF Next, OtherStep, LoaderStep

-----------------------------------------------------------------------------
(* Failures                                                                *)

\* Only Fail counts a failure, for the peer being loaded, which it releases; sync
\* chooses a peer with less failures than the threshold or resets its counter.
LEMMA NextFailures == SafeInv /\ [Next]_vars => FailuresInv'
  <1> SUFFICES ASSUME SafeInv, [Next]_vars
               PROVE  FailuresInv'
    OBVIOUS
  <1>0. /\ fc \in [Addr -> Nat] /\ pl \in Addr \cup {NoPeer}
        /\ \A a \in Addr : fc[a] <= RestartThreshold
        /\ pl # NoPeer => fc[pl] < RestartThreshold
    BY DEF SafeInv, TypeOK, FailuresInv, FailuresBounded
  <1>1. CASE UNCHANGED <<pl, fc>>
    BY <1>0, <1>1 DEF FailuresInv, FailuresBounded
  <1>2. CASE sync
    <2>1. PICK a \in Addr : /\ pl' = a
                            /\ fc' = IF fc[a] >= RestartThreshold THEN [fc EXCEPT ![a] = 0] ELSE fc
      BY <1>2 DEF sync, lagging, SafeInv, TypeOK
    <2> QED
      BY <1>0, <2>1 DEF FailuresInv, FailuresBounded
  <1>3. CASE OK
    <2>1. pl \in Addr /\ fc' = [fc EXCEPT ![pl] = 0] /\ (pl' = pl \/ pl' = NoPeer)
      BY <1>3 DEF OK, release, SafeInv, TypeOK, Control
    <2> QED
      BY <1>0, <2>1 DEF FailuresInv, FailuresBounded
  <1>4. CASE handleFailure
    <2>1. pl \in Addr
      BY <1>4 DEF handleFailure, SafeInv, TypeOK, Control
    <2>2. CASE fc' = [fc EXCEPT ![pl] = @ + 1] /\ pl' = NoPeer
      BY <1>0, <2>1, <2>2 DEF FailuresInv, FailuresBounded
    <2> QED
      BY <1>1, <1>4, <2>2 DEF handleFailure, release
  <1> QED
    BY <1>1, <1>2, <1>3, <1>4
       DEF Next, OtherStep, LoaderStep, Distribute, DistributeFails, handleBlock, handleIDs,
           Connect, Disconnect, UpdatePeerScore, GoSilent, TimePasses, tick, requestIDs,
           requestBlocks, appendBlock, Shutdown, vars

-----------------------------------------------------------------------------
(* Nothing received is lost                                                *)

\* No step forgets a stored block.
LEMMA KnownGrows == [Next]_vars => known \subseteq known'
  BY DEF Next, OtherStep, LoaderStep, Distribute, DistributeFails, handleBlock, handleIDs,
         Connect, Disconnect, UpdatePeerScore, GoSilent, sync, TimePasses, tick, requestIDs,
         requestBlocks, appendBlock, OK, handleFailure, Shutdown, vars, PutBlock, PutBlockFails

\* The loops over the queue go from item to item, and start at its beginning; a
\* queue is filled only after it has been made anew or applied completely.
LEMMA NextKept == SafeInv /\ [Next]_vars => KeptInv'
  <1> SUFFICES ASSUME SafeInv, [Next]_vars
               PROVE  KeptInv'
    OBVIOUS
  <1>0. known \subseteq known'
    BY KnownGrows
  <1>t. /\ queue \in [ids : Seq(ID), from : Nat \ {0}, got : SUBSET Nat]
        /\ queue.got \subseteq items(queue) /\ pos \in Nat
    BY DEF SafeInv, TypeOK
  <1>k. KeptInv
    BY DEF SafeInv
  <1>1. CASE UNCHANGED <<queue, pc, pos, st>>
    BY <1>0, <1>1, <1>k DEF KeptInv, arrived, items
  <1>2. ASSUME NEW a \in Addr, NEW b \in ID, handleBlock(a, b)
        PROVE  KeptInv'
    <2>1. queue'.from = queue.from /\ st' = "WaitingForBlocks"
      BY <1>2, <1>t, PutType DEF handleBlock
    <2>2. (pc' = "select") \/ (pc' = "apply" /\ pos' = queue.from)
      BY <1>2 DEF handleBlock
    <2> QED
      BY <1>t, <2>1, <2>2 DEF KeptInv, items
  <1>3. ASSUME NEW a \in Addr, NEW list \in Replies, handleIDs(a, list)
        PROVE  KeptInv'
    BY <1>0, <1>3, <1>k DEF handleIDs, KeptInv, arrived, items
  <1>4. CASE sync
    BY <1>4 DEF sync, KeptInv, arrived, items, emptyQueue
  <1>5. CASE tick
    BY <1>5, <1>t DEF tick, KeptInv, items
  <1>6. CASE requestIDs
    BY <1>0, <1>6, <1>k DEF requestIDs, return, KeptInv, arrived, items
  <1>7. CASE requestBlocks
    BY <1>0, <1>7, <1>k DEF requestBlocks, return, KeptInv, arrived, items, newQueue, SafeInv, Control
  <1>8. CASE appendBlock
    BY <1>0, <1>8, <1>k, <1>t DEF appendBlock, return, KeptInv, arrived, items, PutBlock, PutBlockFails,
       SafeInv, Control
  <1>9. CASE OK
    BY <1>0, <1>9, <1>k DEF OK, release, return, KeptInv, arrived, items, emptyQueue
  <1>10. CASE handleFailure
    BY <1>0, <1>10, <1>k, <1>t DEF handleFailure, release, return, KeptInv, arrived, items, emptyQueue,
       PutBlock, PutBlockFails, SafeInv, Control
  <1>11. CASE Shutdown
    BY <1>11 DEF Shutdown, KeptInv
  <1> QED
    BY <1>1, <1>2, <1>3, <1>4, <1>5, <1>6, <1>7, <1>8, <1>9, <1>10, <1>11
       DEF Next, OtherStep, LoaderStep, Distribute, DistributeFails, Connect, Disconnect,
           UpdatePeerScore, GoSilent, TimePasses, vars

\* A peer is released by OK, after its queue has been applied or found known, and
\* by Fail, after the items up to the first missing one have been applied.
LEMMA NextReceivedKept ==
    SafeInv /\ [Next]_vars =>
        (pl # NoPeer /\ pl' = NoPeer => \A i \in arrived(queue) : queue.ids[i] \in known')
  <1> SUFFICES ASSUME SafeInv, [Next]_vars, pl # NoPeer, pl' = NoPeer, NEW i \in arrived(queue)
               PROVE  queue.ids[i] \in known'
    OBVIOUS
  <1>0. known \subseteq known'
    BY KnownGrows
  <1>1. i \in items(queue) /\ \A j \in queue.from..i : j \in queue.got
    BY ArrivedItems DEF SafeInv, TypeOK
  <1>2. CASE OK
    BY <1>0, <1>2 DEF OK, SafeInv, KeptInv
  <1>3. CASE handleFailure
    <2>1. pos \notin queue.got /\ pos >= queue.from /\ pos \in Nat /\ queue.from \in Nat
      BY <1>3 DEF handleFailure, SafeInv, KeptInv, TypeOK
    <2>2. i < pos
      BY <1>1, <2>1 DEF items
    <2> QED
      BY <1>0, <1>1, <1>3, <2>2 DEF handleFailure, SafeInv, KeptInv
  <1>4. CASE sync
    BY <1>4 DEF sync
  <1> QED
    BY <1>2, <1>3, <1>4
       DEF Next, OtherStep, LoaderStep, Distribute, DistributeFails, handleBlock, handleIDs,
           Connect, Disconnect, UpdatePeerScore, GoSilent, TimePasses, tick, requestIDs,
           requestBlocks, appendBlock, Shutdown, vars

-----------------------------------------------------------------------------
(* Safety of the Loader                                                    *)

\* The invariant is inductive.
LEMMA NextSafe == SafeInv /\ [Next]_vars => SafeInv'
  BY NextType, NextFailures, NextKept DEF SafeInv

\* SafeInv is an invariant of the Loader, whatever peers send and storages do.
THEOREM Invariance == Spec => []SafeInv
  BY InitSafe, NextSafe, PTL DEF Spec

\* Queues, counters and tables have their types at every step of every handler.
THEOREM TypeCorrect == Spec => []TypeOK
  <1>1. SafeInv => TypeOK
    BY DEF SafeInv
  <1> QED
    BY <1>1, Invariance, PTL

\* After RestartThreshold failures in a row a peer is restarted from the last
\* common block: the counter that sync tests never grows beyond the threshold.
THEOREM FailuresAreBounded == Spec => []FailuresBounded
  <1>1. SafeInv => FailuresBounded
    BY DEF SafeInv, FailuresInv
  <1> QED
    BY <1>1, Invariance, PTL

\* When OK or handleFailure releases a peer, every block that arrived without a
\* gap before it is stored, although storages may fail in any call.
THEOREM NothingReceivedLost == Spec => ReceivedKept
  BY NextReceivedKept, Invariance, PTL DEF Spec, ReceivedKept

-----------------------------------------------------------------------------
(* Progress of the state machine with well-formed lists                    *)

\* The lists of peers are pieces of chains.
ChainLists == \A list \in Replies : \A i \in 2..Len(list) : Par[list[i]] = list[i - 1]

\* The parent of the next block to be stored is known: in the list that is
\* scanned, in the queue that was made of it, and in the loop of handleFailure.
LinkedInv ==
    /\ pc = "scan" =>
           /\ ids \in Replies /\ ids[1] \in known
           /\ pos > 1 /\ pos <= Len(ids) => ids[pos - 1] \in known
    /\ \A i \in items(queue) :
           /\ i > 1 /\ Par[queue.ids[i]] = queue.ids[i - 1]
           /\ i = queue.from => queue.ids[i - 1] \in known
    /\ pc = "fail" /\ pos \in items(queue) => queue.ids[pos - 1] \in known

\* With a known parent PutBlock cannot fail in handleFailure.
LEMMA FailureCanPut ==
    ASSUME SafeInv, LinkedInv, pc = "fail", pos \in queue.got
    PROVE  canPut(queue.ids[pos])
  <1>1. pos \in items(queue)
    BY DEF SafeInv, TypeOK
  <1> QED
    BY <1>1 DEF LinkedInv, canPut

\* Every step keeps the parents known.
LEMMA NextLinked ==
    ASSUME Honest, ChainLists
    PROVE  SafeInv /\ LinkedInv /\ [Next]_vars => LinkedInv'
  <1> SUFFICES ASSUME SafeInv, LinkedInv, [Next]_vars
               PROVE  LinkedInv'
    OBVIOUS
  <1>0. known \subseteq known'
    BY KnownGrows
  <1>t. /\ queue \in [ids : Seq(ID), from : Nat \ {0}, got : SUBSET Nat]
        /\ queue.got \subseteq items(queue) /\ pos \in Nat \ {0} /\ ids \in Seq(ID)
    BY DEF SafeInv, TypeOK
  <1>1. CASE UNCHANGED <<queue, pc, pos, ids>>
    BY <1>0, <1>1 DEF LinkedInv, items
  <1>2. ASSUME NEW a \in Addr, NEW b \in ID, handleBlock(a, b)
        PROVE  LinkedInv'
    <2>1. queue'.from = queue.from /\ queue'.ids = queue.ids
      BY <1>2, <1>t, PutType DEF handleBlock
    <2>2. pc' \notin {"scan", "fail"}
      BY <1>2 DEF handleBlock
    <2> QED
      BY <1>0, <1>t, <2>1, <2>2 DEF LinkedInv, items
  <1>3. ASSUME NEW a \in Addr, NEW list \in Replies, handleIDs(a, list)
        PROVE  LinkedInv'
    BY <1>0, <1>3 DEF handleIDs, LinkedInv, items
  <1>4. CASE sync
    BY <1>4 DEF sync, LinkedInv, items, emptyQueue
  <1>5. CASE tick
    BY <1>0, <1>5, <1>t DEF tick, LinkedInv, items
  <1>6. CASE requestIDs
    BY <1>0, <1>6 DEF requestIDs, return, LinkedInv, items
  <1>7. CASE requestBlocks
    <2>1. CASE pos <= Len(ids) /\ ids[pos] \notin known /\ queue' = newQueue(ids, pos) /\ return
      <3>1. ids \in Replies /\ ids[1] \in known /\ (pos > 1 => ids[pos - 1] \in known)
        BY <1>7, <2>1 DEF requestBlocks, LinkedInv
      <3>2. pos > 1
        BY <1>t, <2>1, <3>1
      <3>3. queue'.ids = ids /\ queue'.from = pos /\ pc' = "select"
        BY <2>1 DEF newQueue, return
      <3>4. ASSUME NEW i \in pos..Len(ids)
            PROVE  i > 1 /\ Par[ids[i]] = ids[i - 1]
        BY <1>t, <3>1, <3>2 DEF ChainLists
      <3> QED
        BY <1>0, <3>1, <3>2, <3>3, <3>4 DEF LinkedInv, items
    <2>2. CASE /\ pos <= Len(ids) /\ ids[pos] \in known
               /\ pos' = pos + 1 /\ UNCHANGED <<known, queue, pc, ids>>
      BY <1>7, <1>t, <2>2 DEF requestBlocks, LinkedInv, items
    <2>3. CASE UNCHANGED queue /\ pc' \in {"select", "report"}
      BY <1>0, <2>3 DEF LinkedInv, items
    <2> QED
      BY <1>7, <2>1, <2>2, <2>3 DEF requestBlocks, return
  <1>8. CASE appendBlock
    BY <1>0, <1>8 DEF appendBlock, return, LinkedInv, items
  <1>9. CASE OK
    BY <1>0, <1>9 DEF OK, release, return, LinkedInv, items, emptyQueue
  <1>10. CASE handleFailure
    <2>1. CASE /\ pos \in queue.got /\ PutBlock(queue.ids[pos], pl)
               /\ pos' = pos + 1 /\ UNCHANGED <<machine, pc, ids>>
      <3>1. queue.ids[pos] \in known' /\ pc' = "fail" /\ queue' = queue
        BY <1>10, <2>1 DEF handleFailure, PutBlock, machine
      <3>2. pos' - 1 = pos /\ queue'.ids[pos' - 1] \in known'
        BY <1>t, <2>1, <3>1
      <3>3. \A i \in items(queue) :
               /\ i > 1 /\ Par[queue.ids[i]] = queue.ids[i - 1]
               /\ i = queue.from => queue.ids[i - 1] \in known'
        BY <1>0 DEF LinkedInv
      <3> QED
        BY <3>1, <3>2, <3>3 DEF LinkedInv, items
    <2>2. CASE UNCHANGED queue /\ pc' = "select"
      BY <1>0, <2>2 DEF LinkedInv, items
    <2>3. CASE queue' = emptyQueue /\ pc' = "select"
      BY <2>3 DEF LinkedInv, items, emptyQueue
    <2> QED
      BY <1>10, <2>1, <2>2, <2>3 DEF handleFailure, release, return, machine
  <1>11. CASE Shutdown
    BY <1>0, <1>11 DEF Shutdown, LinkedInv, items
  <1> QED
    BY <1>1, <1>2, <1>3, <1>4, <1>5, <1>6, <1>7, <1>8, <1>9, <1>10, <1>11
       DEF Next, OtherStep, LoaderStep, Distribute, DistributeFails, Connect, Disconnect,
           UpdatePeerScore, GoSilent, TimePasses, vars

\* Only a failing PutBlock in handleFailure, and a storage that fails in OK, leave
\* a peer in Done or Idle.
LEMMA NextNeverStuck ==
    ASSUME ~StorageFails
    PROVE  SafeInv /\ LinkedInv /\ NeverStuck /\ [Next]_vars => NeverStuck'
  <1> SUFFICES ASSUME SafeInv, LinkedInv, NeverStuck, [Next]_vars
               PROVE  NeverStuck'
    OBVIOUS
  <1>1. pl' # NoPeer => ticker'
    BY NextSafe DEF SafeInv, Control
  <1>2. CASE UNCHANGED <<pc, pl, st>>
    BY <1>1, <1>2 DEF NeverStuck, Waiting
  <1>3. CASE handleFailure
    BY <1>3, FailureCanPut DEF handleFailure, PutBlockFails, release, return, NeverStuck
  <1>4. CASE requestIDs \/ requestBlocks \/ appendBlock \/ OK
    BY <1>1, <1>4 DEF requestIDs, requestBlocks, appendBlock, OK, release, return, NeverStuck, Waiting,
       SafeInv, Control
  <1>5. ASSUME NEW a \in Addr, NEW b \in ID, handleBlock(a, b)
        PROVE  NeverStuck'
    BY <1>1, <1>5 DEF handleBlock, NeverStuck, Waiting
  <1> QED
    BY <1>2, <1>3, <1>4, <1>5
       DEF Next, OtherStep, LoaderStep, Distribute, DistributeFails, handleIDs, Connect,
           Disconnect, UpdatePeerScore, GoSilent, sync, TimePasses, tick, Shutdown, vars,
           NeverStuck

\* If peers send pieces of chains that start with a known block and storages work,
\* the Loader never keeps a peer in Idle or Done, where no tick would release it.
THEOREM LoaderNeverStuck ==
    ASSUME Honest, ~StorageFails, ChainLists
    PROVE  Spec => []NeverStuck
  <1>1. Init => LinkedInv /\ NeverStuck
    BY DEF Init, LinkedInv, NeverStuck, items, emptyQueue
  <1>2. SafeInv /\ LinkedInv /\ NeverStuck /\ [Next]_vars => LinkedInv' /\ NeverStuck'
    BY NextLinked, NextNeverStuck
  <1> QED
    BY <1>1, <1>2, Invariance, PTL DEF Spec
=============================================================================
