------------------------------ MODULE Detector ------------------------------
(***************************************************************************)
(* The Distributor (distributor.go) and the Loader (loading/) joined by    *)
(* their two unbuffered channels, and the order in which main              *)
(* (forkdetector.go) stops them.                                           *)
(*                                                                         *)
(* The Distributor handles one message of the network at a time.  What it  *)
(* passes on to the Loader stays in `package' until the Loader receives    *)
(* it, which it does only in the select of its loop; until then the        *)
(* Distributor handles nothing else.  The actions of the Loader are those  *)
(* of Loading.                                                             *)
(***************************************************************************)
EXTENDS Loading

\* Honest restricts what a step of the Loader may receive, which a channel cannot.
ASSUME DetectorAssumption == ~Honest

VARIABLES
    package,    \* what the Distributor sends to the Loader, NoPackage if nothing
    stopped,    \* the loop of the Distributor has returned
    cancelled,  \* the context of the process is cancelled
    closed,     \* the channels are closed
    main        \* the goroutine it waits for: ctx, loader, distributor, or "terminated"

process == <<stopped, cancelled, closed, main>>
dvars == <<vars, package, process>>

NoPackage == <<>>
BlockPackage(a, b) == <<a, "block", b>>
IDsPackage(a, list) == <<a, "ids", list>>

Packages == {BlockPackage(a, b) : a \in Addr, b \in ID}
            \cup {IDsPackage(a, list) : a \in Addr, list \in Replies}

\* The Distributor is in the select of runLoop.
selecting == package = NoPackage /\ ~stopped

-----------------------------------------------------------------------------
(* The Distributor                                                         *)

\* handleInfoMessage: a connection is registered or has ended.  Respawn
\* unregisters a peer by itself, whatever the Distributor does.
handleConnected(a) == selecting /\ Connect(a) /\ UNCHANGED <<package, process>>

handleInternalError(a) == Disconnect(a) /\ UNCHANGED <<package, process>>

\* Handlers that send nothing to the Loader.
handleScoreMessage(a, s) == selecting /\ UpdatePeerScore(a, s) /\ UNCHANGED <<package, process>>

handleMicroBlockInvMessage(a, b) == selecting /\ Distribute(a, b) /\ UNCHANGED <<package, process>>

\* handleBlock: the block is stored, unless its parent is missing, and sent to
\* the Loader in both cases.
handleBlockMessage(a, b) ==
    /\ selecting /\ ~silent
    /\ \/ Distribute(a, b)
       \/ ~canPut(b) /\ UNCHANGED vars
    /\ package' = BlockPackage(a, b)
    /\ UNCHANGED process

\* Any other error of PutBlock or PutMicroBlock ends the handler.
appendFails(b) == selecting /\ DistributeFails(b) /\ UNCHANGED <<package, process>>

\* handleSignaturesMessage and handleBlockIDsMessage.
handleBlockIDsMessage(a, list) ==
    /\ selecting /\ ~silent
    /\ package' = IDsPackage(a, list)
    /\ UNCHANGED <<vars, process>>

\* The context is cancelled and the loop is in its select.
stopDistributor ==
    /\ selecting /\ cancelled
    /\ stopped' = TRUE
    /\ UNCHANGED <<vars, package, cancelled, closed, main>>

-----------------------------------------------------------------------------
(* The channels                                                            *)

\* The Loader takes the package in the select of its loop; handleIDs and
\* handleBlock ignore what they do not expect.
accepted ==
    \/ \E a \in Addr, b \in ID : package = BlockPackage(a, b) /\ handleBlock(a, b)
    \/ \E a \in Addr, list \in Replies : package = IDsPackage(a, list) /\ handleIDs(a, list)

expected ==
    /\ pl = package[1]
    /\ \/ package[2] = "block" /\ st = "WaitingForBlocks"
       \/ package[2] = "ids" /\ st = "WaitingForIDs" /\ package[3] # <<>>

\* Mutant: the Loader receives only while it is loading a peer.
receiveWhileLoading ==
    /\ package # NoPackage
    /\ pc = "select" /\ pl # NoPeer
    /\ IF expected THEN accepted ELSE UNCHANGED vars
    /\ package' = NoPackage
    /\ UNCHANGED process

receive ==
    /\ package # NoPackage
    /\ pc = "select"
    /\ IF expected THEN accepted ELSE UNCHANGED vars
    /\ package' = NoPackage
    /\ UNCHANGED process

-----------------------------------------------------------------------------
(* Start and stop of the process                                           *)

\* A signal cancels the context of all services.
cancel ==
    /\ ~cancelled /\ cancelled' = TRUE
    /\ UNCHANGED <<vars, package, stopped, closed, main>>

stopLoader ==
    /\ cancelled
    /\ Shutdown
    /\ UNCHANGED <<package, process>>

\* Mutant: the channels are closed when the Loader has returned.
runClosesEarly ==
    /\ \/ main = "ctx" /\ cancelled /\ main' = "loader" /\ UNCHANGED closed
       \/ main = "loader" /\ pc = "exit" /\ main' = "distributor" /\ closed' = TRUE
       \/ main = "distributor" /\ stopped /\ main' = "terminated" /\ UNCHANGED closed
    /\ UNCHANGED <<vars, package, stopped, cancelled>>

\* run: after the context, main waits for the Loader and then for the
\* Distributor, whose Shutdown closes the channels.
run ==
    /\ \/ main = "ctx" /\ cancelled /\ main' = "loader" /\ UNCHANGED closed
       \/ main = "loader" /\ pc = "exit" /\ main' = "distributor" /\ UNCHANGED closed
       \/ main = "distributor" /\ stopped /\ main' = "terminated" /\ closed' = TRUE
    /\ UNCHANGED <<vars, package, stopped, cancelled>>

-----------------------------------------------------------------------------
DInit ==
    /\ Init
    /\ package = NoPackage
    /\ stopped = FALSE /\ cancelled = FALSE /\ closed = FALSE /\ main = "ctx"

DistributorStep ==
    \/ \E a \in Addr : handleConnected(a) \/ \E s \in PeerScores : handleScoreMessage(a, s)
    \/ \E a \in Addr, b \in ID : handleBlockMessage(a, b) \/ handleMicroBlockInvMessage(a, b)
    \/ \E b \in ID : appendFails(b)
    \/ \E a \in Addr, list \in Replies : handleBlockIDsMessage(a, list)

\* The peers stop for good; what they sent before has been handled.
silence == package = NoPackage /\ GoSilent /\ UNCHANGED <<package, process>>

runHandler == LoaderStep /\ UNCHANGED <<package, process>>

OwnStep ==
    \/ runHandler
    \/ (sync \/ TimePasses \/ tick) /\ UNCHANGED <<package, process>>

DNext ==
    \/ DistributorStep
    \/ \E a \in Addr : handleInternalError(a)
    \/ silence
    \/ OwnStep
    \/ receive
    \/ cancel \/ stopDistributor \/ stopLoader \/ run

\* Runnable goroutines run.  The Loader comes back to its select again and again,
\* where one of the ready cases is chosen at random: a case that is ready again
\* and again is chosen.
DFairness ==
    /\ WF_dvars(runHandler)
    /\ SF_dvars(receive)
    /\ SF_dvars(stopLoader) /\ SF_dvars(stopDistributor)
    /\ WF_dvars(run)

DSpec == DInit /\ [][DNext]_dvars /\ DFairness

-----------------------------------------------------------------------------
(* Properties                                                              *)

DTypeOK ==
    /\ TypeOK
    /\ package \in Packages \cup {NoPackage}
    /\ stopped \in BOOLEAN /\ cancelled \in BOOLEAN /\ closed \in BOOLEAN
    /\ main \in {"ctx", "loader", "distributor", "terminated"}

\* A send on a closed channel panics, and a receive from one returns at once for
\* ever: the channels are closed only when neither side can use them any more.
ClosedUnused == closed => pc = "exit" /\ stopped /\ package = NoPackage

\* Nothing the Loader does keeps the Distributor waiting for good: as long as
\* the process is not told to stop, every package is received.
PackageReceived == package # NoPackage ~> package = NoPackage \/ cancelled

\* main, forkdetector.go: after the signal ("User termination in progress...") the
\* services are shut down one after the other and the process ends ("Terminated").
Terminates == cancelled ~> main = "terminated"
=============================================================================
