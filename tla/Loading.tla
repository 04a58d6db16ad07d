------------------------------- MODULE Loading -------------------------------
(***************************************************************************)
(* The Loader goroutine (loading/loader.go), the state machine of the peer *)
(* it loads from (loading/peer_loader.go) and its queue of blocks          *)
(* (loading/queue.go), over the history that the chains package keeps.     *)
(*                                                                         *)
(* A handler of the Loader takes and releases the lock of the history once *)
(* per call, and between two calls the Distributor goroutine may store     *)
(* blocks of its own (Distribute).  A handler is therefore a sequence of   *)
(* steps, one per call that changes the history; `pc' says which handler   *)
(* is running.  The state machine queues an event fired by a handler until *)
(* the handler has returned and sets its state before the entry action, so *)
(* the order below is the order of the code.                               *)
(*                                                                         *)
(* A block is its ID, with a constant parent and a constant score.  What   *)
(* the Loader asks of a peer is left out: the answers are arbitrary.       *)
(***************************************************************************)
EXTENDS Integers, Sequences, KeyValue

CONSTANTS
    Addr,               \* peers
    NoPeer,             \* pl = nil
    ID, Genesis,        \* blocks
    Par,                \* block -> parent
    Score,              \* block -> score of the chain up to the block
    Replies,            \* lists of IDs that peers can send
    PeerScores,         \* scores that peers can broadcast
    NoScore, NoDiff,    \* Score = nil and prevDiff = nil
    RestartThreshold,   \* restartThreshold, 10 in the code
    Honest,             \* lists of IDs start with a block that is known
    StorageFails        \* operations on the storages may fail

ASSUME LoadingAssumption ==
    /\ Genesis \in ID /\ NoPeer \notin Addr
    /\ Par \in [ID -> ID]
    /\ Score \in [ID -> Nat]
    /\ Replies \subseteq Seq(ID)
    /\ PeerScores \subseteq Nat /\ NoScore \notin Nat /\ NoDiff \notin Int
    /\ RestartThreshold \in Nat \ {0}
    /\ Honest \in BOOLEAN /\ StorageFails \in BOOLEAN

VARIABLES
    known,      \* the stored blocks
    leash,      \* peer -> block
    conn,       \* connected peers
    score,      \* peer -> broadcast score
    silent,     \* the peers have stopped answering for good
    pl,         \* the peer being loaded, or NoPeer
    st,         \* state of its state machine
    queue,      \* its queue: the list of IDs, where the queue starts, what arrived
    late,       \* more than timeoutDuration has passed since its timestamp
    ticker,     \* the ticker is armed
    fc,         \* failures in a row of every peer
    prevDiff,   \* score difference at the last iteration
    pc,         \* the running handler, "select" between handlers
    ids, pos    \* the handler's list of IDs and its position in the list or queue

history == <<known, leash>>
network == <<conn, score, silent>>
machine == <<pl, st, queue, late>>
loader == <<ticker, fc, prevDiff>>
handler == <<pc, ids, pos>>
vars == <<known, leash, conn, score, silent, pl, st, queue, late, ticker, fc, prevDiff,
          pc, ids, pos>>

Handlers == {"select", "request", "scan", "apply", "fail", "report", "exit"}

-----------------------------------------------------------------------------
(* The history, as chains/linkage.go serves it                             *)

\* Leash and LeashScore: the genesis block for a peer without a leash.
leashOf(a) == IF a \in DOMAIN leash THEN leash[a] ELSE Genesis

\* PutBlock fails if the block is new and its parent is not known.
canPut(b) == b \in known \/ Par[b] \in known

PutBlock(b, a) ==
    /\ known' = known \cup {b}
    /\ leash' = Put(leash, a, b)

\* PutBlock returns an error: the parent is missing, or the storage fails before the
\* block is stored or between the block and the leash.
PutBlockFails(b) ==
    /\ ~canPut(b) \/ StorageFails
    /\ \/ UNCHANGED known
       \/ canPut(b) /\ known' = known \cup {b}
    /\ UNCHANGED leash

-----------------------------------------------------------------------------
(* The queue of requested blocks                                           *)

emptyQueue == [ids |-> <<>>, from |-> 1, got |-> {}]

\* The tail of the list from position i on is requested.
newQueue(list, i) == [ids |-> list, from |-> i, got |-> {}]

items(q) == q.from..Len(q.ids)

\* Mutant: the items are looked up in the whole list.
putWholeList(q, b) == [q EXCEPT !.got = @ \cup {i \in 1..Len(q.ids) : q.ids[i] = b}]

\* A block is kept in the first item that requested it.
put(q, b) ==
    [q EXCEPT !.got = @ \cup {i \in items(q) : /\ q.ids[i] = b
                                              /\ \A j \in items(q) : j < i => q.ids[j] # b}]

ready(q) == items(q) \subseteq q.got

-----------------------------------------------------------------------------
(* Control                                                                 *)

\* The running handler returns to the select of the loop.
return == pc' = "select" /\ ids' = <<>> /\ pos' = 1

\* l.pl = nil: the state machine and its queue are dropped.
release == pl' = NoPeer /\ st' = "Idle" /\ queue' = emptyQueue /\ late' = FALSE

-----------------------------------------------------------------------------
(* Peers and the network                                                   *)

Connect(a) ==
    /\ a \notin conn
    /\ conn' = conn \cup {a}
    /\ UNCHANGED <<history, score, silent, machine, loader, handler>>

Disconnect(a) ==
    /\ a \in conn
    /\ conn' = conn \ {a}
    /\ UNCHANGED <<history, score, silent, machine, loader, handler>>

\* handleScoreMessage of the Distributor.  The message may be handled after the
\* peer has disconnected; the registry keeps the score of a peer for good.
UpdatePeerScore(a, s) ==
    /\ ~silent
    /\ score' = [score EXCEPT ![a] = s]
    /\ UNCHANGED <<history, conn, silent, machine, loader, handler>>

\* handleBlock and handleMicroBlockInvMessage of the Distributor: it stores a
\* block on its own, at any moment.  A message of a peer may be handled after the peer has disconnected.
Distribute(a, b) ==
    /\ ~silent
    /\ canPut(b)
    /\ PutBlock(b, a)
    /\ UNCHANGED <<network, machine, loader, handler>>

\* The block of a message cannot be stored, or its leash cannot.
DistributeFails(b) ==
    /\ ~silent
    /\ PutBlockFails(b)
    /\ UNCHANGED <<network, machine, loader, handler>>

\* From now on no peer sends anything.
GoSilent ==
    /\ ~silent /\ silent' = TRUE
    /\ UNCHANGED <<history, conn, score, machine, loader, handler>>

-----------------------------------------------------------------------------
(* sync: choose a lagging peer and ask it for IDs                          *)

lagging == {a \in conn : score[a] # NoScore /\ score[a] > Score[leashOf(a)]}

\* Mutant: the failures are compared with > instead of >=.
syncLateRestart ==
    /\ pc = "select"
    /\ pl = NoPeer
    /\ \E a \in lagging :
          /\ pl' = a
          /\ fc' = IF fc[a] > RestartThreshold THEN [fc EXCEPT ![a] = 0] ELSE fc
    /\ st' = "WaitingForIDs" /\ queue' = emptyQueue /\ late' = TRUE
    /\ ticker' = TRUE
    /\ pc' = "request"
    /\ UNCHANGED <<history, network, prevDiff, ids, pos>>

\* Mutant: the ticker is not started.
syncNoTicker ==
    /\ pc = "select"
    /\ pl = NoPeer
    /\ \E a \in lagging :
          /\ pl' = a
          /\ fc' = IF fc[a] >= RestartThreshold THEN [fc EXCEPT ![a] = 0] ELSE fc
    /\ st' = "WaitingForIDs" /\ queue' = emptyQueue /\ late' = TRUE
    /\ pc' = "request"
    /\ UNCHANGED <<history, network, prevDiff, ticker, ids, pos>>

\* After too many failures restartSync fires Restart first (and the Start of
\* continueSync is ignored); both events lead to a request.  The timestamp of a
\* new peerLoader is the zero time.
sync ==
    /\ pc = "select"
    /\ pl = NoPeer
    /\ \E a \in lagging :
          /\ pl' = a
          /\ fc' = IF fc[a] >= RestartThreshold THEN [fc EXCEPT ![a] = 0] ELSE fc
    /\ st' = "WaitingForIDs" /\ queue' = emptyQueue /\ late' = TRUE
    /\ ticker' = TRUE
    /\ pc' = "request"
    /\ UNCHANGED <<history, network, prevDiff, ids, pos>>

\* requestIDs and requestIDsFromLCA: send the request and note the time.
requestIDs ==
    /\ pc = "request"
    /\ \/ late' = FALSE
       \/ StorageFails /\ UNCHANGED late
    /\ return
    /\ UNCHANGED <<history, network, pl, st, queue, loader>>

-----------------------------------------------------------------------------
(* handleIDs and requestBlocks                                             *)

\* Lists of an unexpected peer, empty ones, and those that the state machine
\* ignores in its state, change nothing.
handleIDs(a, list) ==
    /\ ~silent
    /\ pc = "select"
    /\ pl = a /\ list # <<>>
    /\ st = "WaitingForIDs"
    /\ Honest => list[1] \in known
    /\ st' = "WaitingForBlocks"
    /\ pc' = "scan" /\ ids' = list /\ pos' = 1
    /\ UNCHANGED <<history, network, pl, queue, late, loader>>

\* The loop of requestBlocks: the leash follows the known blocks of the list (a
\* peer without a leash gets none from the genesis block), the rest of the list
\* is requested.  If all are known the queue of the previous iteration stays as
\* it is.
requestBlocks ==
    /\ pc = "scan"
    /\ \/ /\ pos > Len(ids)
          /\ st' = "Idle" /\ pc' = "report" /\ ids' = <<>> /\ pos' = 1
          /\ UNCHANGED <<history, queue, late>>
       \/ /\ pos <= Len(ids) /\ ids[pos] \in known
          /\ leash' = IF ids[pos] = leashOf(pl) THEN leash ELSE Put(leash, pl, ids[pos])
          /\ pos' = pos + 1
          /\ UNCHANGED <<known, st, queue, late, pc, ids>>
       \/ /\ pos <= Len(ids) /\ ids[pos] \notin known
          /\ queue' = newQueue(ids, pos)
          /\ late' = FALSE
          /\ return
          /\ UNCHANGED <<history, st>>
       \/ /\ StorageFails
          /\ pos <= Len(ids)
          /\ return
          /\ UNCHANGED <<history, st, queue, late>>
    /\ UNCHANGED <<network, pl, loader>>

-----------------------------------------------------------------------------
(* handleBlock and appendBlock                                             *)

\* Blocks of an unexpected peer or in another state are ignored.
handleBlock(a, b) ==
    /\ ~silent
    /\ pc = "select"
    /\ pl = a
    /\ st = "WaitingForBlocks"
    /\ queue' = put(queue, b)
    /\ IF ready(queue') THEN pc' = "apply" /\ pos' = queue.from
                        ELSE UNCHANGED <<pc, pos>>
    /\ UNCHANGED <<history, network, pl, st, late, loader, ids>>

\* The loop of appendBlock over a complete queue.  If PutBlock fails the state
\* machine keeps waiting for blocks.
appendBlock ==
    /\ pc = "apply"
    /\ \/ /\ pos > Len(queue.ids)
          /\ st' = "Idle" /\ pc' = "report" /\ pos' = 1
          /\ UNCHANGED <<history, ids>>
       \/ /\ pos <= Len(queue.ids) /\ canPut(queue.ids[pos])
          /\ PutBlock(queue.ids[pos], pl)
          /\ pos' = pos + 1
          /\ UNCHANGED <<st, pc, ids>>
       \/ /\ pos <= Len(queue.ids)
          /\ PutBlockFails(queue.ids[pos])
          /\ return
          /\ UNCHANGED st
    /\ UNCHANGED <<network, pl, queue, late, loader>>

-----------------------------------------------------------------------------
(* OK: continue with the same peer or release it                           *)

isLagging(diff) == diff > 0 /\ prevDiff # diff

OK ==
    /\ pc = "report"
    /\ fc' = [fc EXCEPT ![pl] = 0]
    /\ LET diff == score[pl] - Score[leashOf(pl)]
       IN  \/ /\ isLagging(diff)
              /\ prevDiff' = diff
              /\ ticker' = TRUE
              /\ st' = "WaitingForIDs" /\ pc' = "request"
              /\ UNCHANGED <<pl, queue, late, ids, pos>>
           \/ /\ ~isLagging(diff)
              /\ release /\ prevDiff' = NoDiff
              /\ return
              /\ UNCHANGED ticker
           \/ /\ StorageFails          \* the peer or its leash cannot be read
              /\ return
              /\ UNCHANGED <<machine, prevDiff, ticker>>
    /\ UNCHANGED <<history, network>>

-----------------------------------------------------------------------------
(* Timeouts                                                                *)

\* timeoutDuration passes since the last request.
TimePasses ==
    /\ pl # NoPeer /\ pc = "select" /\ ~late
    /\ late' = TRUE
    /\ UNCHANGED <<history, network, pl, st, queue, loader, handler>>

\* onTick fires Timeout; any other tick changes nothing.
tick ==
    /\ pc = "select" /\ ticker
    /\ pl # NoPeer /\ st \in {"WaitingForIDs", "WaitingForBlocks"} /\ late
    /\ st' = "Done" /\ pc' = "fail" /\ pos' = queue.from
    /\ UNCHANGED <<history, network, pl, queue, late, loader, ids>>

\* Mutant: the failure is reported without applying the queue.
handleFailureDropsQueue ==
    /\ pc = "fail"
    /\ fc' = [fc EXCEPT ![pl] = @ + 1]
    /\ release
    /\ return
    /\ UNCHANGED <<history, network, ticker, prevDiff>>

\* Mutant: the failure is not reported.
handleFailureUnreported ==
    /\ pc = "fail"
    /\ \/ /\ pos \in queue.got /\ canPut(queue.ids[pos])
          /\ PutBlock(queue.ids[pos], pl)
          /\ pos' = pos + 1
          /\ UNCHANGED <<pc, ids>>
       \/ /\ pos \notin queue.got
          /\ return
          /\ UNCHANGED history
    /\ UNCHANGED <<network, machine, loader>>

\* The loop of handleFailure stores the blocks that arrived, up to the first one
\* that did not, and reports the failure (Fail).  If PutBlock fails nothing is
\* reported.
handleFailure ==
    /\ pc = "fail"
    /\ \/ /\ pos \in queue.got /\ canPut(queue.ids[pos])
          /\ PutBlock(queue.ids[pos], pl)
          /\ pos' = pos + 1
          /\ UNCHANGED <<machine, pc, ids, fc>>
       \/ /\ pos \in queue.got
          /\ PutBlockFails(queue.ids[pos])
          /\ return
          /\ UNCHANGED <<machine, fc>>
       \/ /\ pos \notin queue.got
          /\ fc' = [fc EXCEPT ![pl] = @ + 1]
          /\ release
          /\ return
          /\ UNCHANGED history
    /\ UNCHANGED <<network, ticker, prevDiff>>

\* The context is cancelled and the loop returns.
Shutdown ==
    /\ pc = "select"
    /\ pc' = "exit"
    /\ UNCHANGED <<history, network, machine, loader, ids, pos>>

-----------------------------------------------------------------------------
Init ==
    /\ known = {Genesis} /\ leash = Empty
    /\ conn = {} /\ score = [a \in Addr |-> NoScore] /\ silent = FALSE
    /\ pl = NoPeer /\ st = "Idle" /\ queue = emptyQueue /\ late = FALSE
    /\ ticker = FALSE /\ fc = [a \in Addr |-> 0] /\ prevDiff = NoDiff
    /\ pc = "select" /\ ids = <<>> /\ pos = 1

\* The steps the Loader takes by itself.
LoaderStep == requestIDs \/ requestBlocks \/ appendBlock \/ OK \/ handleFailure

\* Everything but the blocks and lists of IDs that peers send.
OtherStep ==
    \/ \E a \in Addr : \/ Connect(a) \/ Disconnect(a)
                       \/ \E s \in PeerScores : UpdatePeerScore(a, s)
    \/ GoSilent
    \/ sync \/ TimePasses \/ tick
    \/ LoaderStep
    \/ Shutdown

Next ==
    \/ \E a \in Addr, b \in ID : Distribute(a, b) \/ handleBlock(a, b)
    \/ \E b \in ID : DistributeFails(b)
    \/ \E a \in Addr, list \in Replies : handleIDs(a, list)
    \/ OtherStep

\* A runnable goroutine runs, time passes, and an armed timer fires and is
\* received: the Loader waits in a select and nothing else can hold it there.
Fairness == WF_vars(LoaderStep) /\ WF_vars(TimePasses) /\ WF_vars(tick)

Spec == Init /\ [][Next]_vars /\ Fairness

-----------------------------------------------------------------------------
(* Properties                                                              *)

TypeOK ==
    /\ known \subseteq ID
    /\ leash \in [DOMAIN leash -> ID] /\ DOMAIN leash \subseteq Addr
    /\ conn \subseteq Addr
    /\ score \in [Addr -> PeerScores \cup {NoScore}]
    /\ silent \in BOOLEAN
    /\ pl \in Addr \cup {NoPeer}
    /\ st \in {"Idle", "WaitingForIDs", "WaitingForBlocks", "Done"}
    /\ queue \in [ids : Seq(ID), from : Nat \ {0}, got : SUBSET Nat]
    /\ queue.got \subseteq items(queue)
    /\ late \in BOOLEAN /\ ticker \in BOOLEAN
    /\ fc \in [Addr -> Nat]
    /\ prevDiff \in Int \cup {NoDiff}
    /\ pc \in Handlers
    /\ ids \in Seq(ID) /\ pos \in Nat \ {0}

Waiting == st \in {"WaitingForIDs", "WaitingForBlocks"}

\* Between two events the Loader either has no peer or waits for one, with the
\* ticker running: a peer in Idle or Done would never be released, because sync
\* returns as long as pl is set and both states ignore ticks.
NeverStuck == pc = "select" /\ pl # NoPeer => Waiting /\ ticker

\* A peer is restarted from the last common block after RestartThreshold
\* failures in a row: its counter never grows beyond that (sync, Fail, OK).
FailuresBounded == \A a \in Addr : fc[a] <= RestartThreshold

\* The items of a queue before the first one that has not arrived.
arrived(q) == {i \in items(q) : \A j \in q.from..i : j \in q.got}

\* No received block is lost: when a peer is released, by OK or by Fail, every
\* block that arrived without a gap before it is stored.
ReceivedKept ==
    [][pl # NoPeer /\ pl' = NoPeer => \A i \in arrived(queue) : queue.ids[i] \in known']_vars

\* The Loader's comment: "In case of no response from the peer, Loader selects
\* another peer".  If the peers stop answering, the peer being loaded is released
\* by handleFailure, so that sync can choose another one.
SilentPeerReleased == silent /\ pl # NoPeer ~> pl = NoPeer \/ pc = "exit"
=============================================================================
