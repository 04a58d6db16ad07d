--------------------------- MODULE DetectorProofs ---------------------------
(***************************************************************************)
(* The Detector runs the Loader of Loading: what the Distributor and main  *)
(* add to it restricts when its steps happen and adds none.  The safety    *)
(* properties of Loading therefore hold in the Detector, and with them the *)
(* order in which main stops its services.                                 *)
(***************************************************************************)
EXTENDS Detector, LoadingProofs

-----------------------------------------------------------------------------
(* The Loader of the Detector is the one of Loading                        *)

\* Every step of the Detector is a step of Loading or leaves its state alone: the
\* Loader receives what the Distributor sent by one of its two handlers, or drops
\* it, and a block without a parent is sent although it is not stored.
LEMMA LoadingStep == [DNext]_dvars => [Next]_vars
  <1> SUFFICES ASSUME [DNext]_dvars
               PROVE  Next \/ UNCHANGED vars
    BY DEF vars
  <1>1. CASE DistributorStep
    BY <1>1 DEF DistributorStep, handleConnected, handleScoreMessage, handleBlockMessage,
                handleMicroBlockInvMessage, appendFails, handleBlockIDsMessage, Next, OtherStep
  <1>2. CASE \E a \in Addr : handleInternalError(a)
    BY <1>2 DEF handleInternalError, Next, OtherStep
  <1>3. CASE silence
    BY <1>3 DEF silence, Next, OtherStep
  <1>4. CASE OwnStep
    BY <1>4 DEF OwnStep, runHandler, Next, OtherStep
  <1>5. CASE receive
    BY <1>5 DEF receive, accepted, Next
  <1>6. CASE stopLoader
    BY <1>6 DEF stopLoader, Next, OtherStep
  <1>7. CASE cancel \/ stopDistributor \/ run
    BY <1>7 DEF cancel, stopDistributor, run
  <1>8. CASE UNCHANGED dvars
    BY <1>8 DEF dvars
  <1> QED
    BY <1>1, <1>2, <1>3, <1>4, <1>5, <1>6, <1>7, <1>8 DEF DNext

\* The channels add no behaviour to the Loader: every behaviour of the Distributor,
\* the Loader and main together is one of Loading, apart from its fairness.
THEOREM DetectorRunsLoading == DSpec => Init /\ [][Next]_vars
  <1>1. DInit => Init
    BY DEF DInit
  <1> QED
    BY <1>1, LoadingStep, PTL DEF DSpec

-----------------------------------------------------------------------------
(* The inductive invariant                                                 *)

DistributorType ==
    /\ package \in Packages \cup {NoPackage}
    /\ stopped \in BOOLEAN /\ cancelled \in BOOLEAN /\ closed \in BOOLEAN
    /\ main \in {"ctx", "loader", "distributor", "terminated"}

\* What main has waited for has happened, and a loop that has returned does not
\* come back; the Distributor returns with nothing left to send.
StopOrder ==
    /\ stopped => package = NoPackage
    /\ main \in {"distributor", "terminated"} => pc = "exit"
    /\ main = "terminated" => stopped
    /\ closed => main = "terminated"

DSafeInv == SafeInv /\ DistributorType /\ StopOrder

\* The loop of the Loader that has returned does not run again.
LEMMA ExitIsFinal == pc = "exit" /\ [Next]_vars => pc' = "exit"
  BY DEF Next, OtherStep, LoaderStep, Distribute, DistributeFails, handleBlock, handleIDs,
         Connect, Disconnect, UpdatePeerScore, GoSilent, sync, TimePasses, tick, requestIDs,
         requestBlocks, appendBlock, OK, handleFailure, Shutdown, vars, history, network, machine,
         loader, handler

\* The initial state satisfies the invariant.
LEMMA DInitSafe == DInit => DSafeInv
  <1> SUFFICES ASSUME DInit PROVE DSafeInv
    OBVIOUS
  <1>1. SafeInv
    BY InitSafe DEF DInit
  <1>2. stopped = FALSE /\ cancelled = FALSE /\ closed = FALSE
    BY DEF DInit
  <1>3. stopped \in BOOLEAN /\ cancelled \in BOOLEAN /\ closed \in BOOLEAN
    BY <1>2, Zenon
  <1>4. package = NoPackage /\ main = "ctx"
    BY DEF DInit
  <1> QED
    BY <1>1, <1>2, <1>3, <1>4 DEF DSafeInv, DistributorType, StopOrder

\* The Distributor sends blocks and lists of IDs, one at a time.
LEMMA NextDistributorType == DistributorType /\ [DNext]_dvars => DistributorType'
  <1> SUFFICES ASSUME DistributorType, [DNext]_dvars
               PROVE  DistributorType'
    OBVIOUS
  <1>1. package' \in Packages \cup {NoPackage}
    BY DEF DistributorType, DNext, DistributorStep, handleConnected, handleScoreMessage,
           handleBlockMessage, handleMicroBlockInvMessage, appendFails, handleBlockIDsMessage,
           handleInternalError, silence, OwnStep, runHandler, receive, cancel, stopDistributor,
           stopLoader, run, dvars, Packages
  <1>2. /\ stopped' = stopped \/ stopped' = TRUE
        /\ cancelled' = cancelled \/ cancelled' = TRUE
        /\ closed' = closed \/ closed' = TRUE
        /\ main' = main \/ main' \in {"loader", "distributor", "terminated"}
    BY DEF DNext, DistributorStep, handleConnected, handleScoreMessage,
           handleBlockMessage, handleMicroBlockInvMessage, appendFails, handleBlockIDsMessage,
           handleInternalError, silence, OwnStep, runHandler, receive, cancel, stopDistributor,
           stopLoader, run, dvars, process
  <1>3. stopped' \in BOOLEAN /\ cancelled' \in BOOLEAN /\ closed' \in BOOLEAN
    BY <1>2, Zenon DEF DistributorType
  <1> QED
    BY <1>1, <1>2, <1>3 DEF DistributorType

\* main moves on only after the goroutine it waits for has returned, and only the
\* Distributor that has not returned can put a package into a channel.
LEMMA NextStopOrder == DSafeInv /\ [DNext]_dvars => StopOrder'
  <1> SUFFICES ASSUME DSafeInv, [DNext]_dvars
               PROVE  StopOrder'
    OBVIOUS
  <1>1. pc = "exit" => pc' = "exit"
    BY LoadingStep, ExitIsFinal
  <1>2. CASE UNCHANGED process /\ (package' = package \/ package' = NoPackage \/ ~stopped)
    BY <1>1, <1>2 DEF DSafeInv, StopOrder, process
  <1>3. CASE cancel \/ stopDistributor
    BY <1>1, <1>3 DEF cancel, stopDistributor, selecting, DSafeInv, StopOrder
  <1>4. CASE run
    BY <1>1, <1>4 DEF run, DSafeInv, StopOrder
  <1>5. CASE UNCHANGED dvars
    BY <1>1, <1>2, <1>5 DEF dvars
  <1>6. CASE DistributorStep
    BY <1>2, <1>6 DEF DistributorStep, handleConnected, handleScoreMessage, handleBlockMessage,
       handleMicroBlockInvMessage, appendFails, handleBlockIDsMessage, selecting
  <1>7. CASE receive \/ stopLoader \/ OwnStep \/ silence \/ \E a \in Addr : handleInternalError(a)
    BY <1>2, <1>7 DEF receive, stopLoader, OwnStep, runHandler, silence, handleInternalError
  <1> QED
    BY <1>3, <1>4, <1>5, <1>6, <1>7 DEF DNext

\* DSafeInv is an invariant of the Detector.
THEOREM DInvariance == DSpec => []DSafeInv
  <1>1. DSafeInv /\ [DNext]_dvars => DSafeInv'
    BY LoadingStep, NextSafe, NextDistributorType, NextStopOrder DEF DSafeInv
  <1> QED
    BY <1>1, DInitSafe, PTL DEF DSpec

-----------------------------------------------------------------------------
(* Safety of the Detector                                                  *)

\* The channels carry what the Distributor sends, and the Loader keeps its types
\* with them.
THEOREM DTypeCorrect == DSpec => []DTypeOK
  <1>1. DSafeInv => DTypeOK
    BY DEF DSafeInv, SafeInv, DistributorType, DTypeOK
  <1> QED
    BY <1>1, DInvariance, PTL

\* Shutdown of the Distributor closes the channels when neither the Loader nor the
\* Distributor can use them: no send panics and no receive spins.
THEOREM ChannelsClosedUnused == DSpec => []ClosedUnused
  <1>1. DSafeInv => ClosedUnused
    BY DEF DSafeInv, StopOrder, ClosedUnused
  <1> QED
    BY <1>1, DInvariance, PTL

\* The counters of failures stay bounded with the Distributor's packages delivered
\* late, dropped, and stopped at any point.
THEOREM DetectorFailuresBounded == DSpec => []FailuresBounded
  <1>1. DSafeInv => FailuresBounded
    BY DEF DSafeInv, SafeInv, FailuresInv
  <1> QED
    BY <1>1, DInvariance, PTL

\* Nor does the Loader of the Detector lose a block it received.
THEOREM DetectorKeepsReceived == DSpec => ReceivedKept
  <1>1. DSafeInv => SafeInv
    BY DEF DSafeInv
  <1> QED
    BY <1>1, DInvariance, LoadingStep, NextReceivedKept, PTL DEF DSpec, ReceivedKept
=============================================================================
