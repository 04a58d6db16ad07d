------------------------------ MODULE Registry ------------------------------
(***************************************************************************)
(* The registry of peers (peers/registry.go, version_provider.go,          *)
(* storage.go) and those who call it: Respawn (respawn.go), the Listener   *)
(* (listener.go), both through the connection manager                      *)
(* (connection_manager.go), and the Distributor's handlers of connections, *)
(* addresses and scores (distributor.go).                                  *)
(*                                                                         *)
(* Every method of the registry holds its mutex from beginning to end and  *)
(* is one step.  Between two calls anything may happen: a goroutine that   *)
(* dials or accepts a connection goes through `phase', and what it tells   *)
(* the Distributor waits in `inbox'.  One connection tells its events in   *)
(* order; the events of two connections are handled in any order.          *)
(*                                                                         *)
(* A version is its minor number, 0 for the zero value; a port is zero or  *)
(* not; a time is due or still to come.  The detector's own address is     *)
(* left out: it is not appended, not dialled and not registered, and a     *)
(* connection from it stays open as one with an invalid declaration does.  *)
(***************************************************************************)
EXTENDS Integers, Sequences, Functions, KeyValue

CONSTANTS
    Addr,           \* addresses of nodes; not the one the detector declares
    Out,            \* goroutines of Respawn, one per connection attempt
    In,             \* goroutines of the Listener, one per accepted connection
    Versions,       \* supported versions, the best one first
    NodeVersions,   \* versions in the handshakes of nodes
    StorageFails    \* operations on the storage may fail

ASSUME RegistryAssumption ==
    /\ Out \cap In = {}
    /\ Versions \in Seq(Nat \ {0}) /\ Versions # <<>>
    /\ NodeVersions \subseteq Nat \ {0}
    /\ StorageFails \in BOOLEAN

VARIABLES
    stored,         \* address -> stored peer
    connections,    \* address -> connection, in memory
    pending,        \* addresses being dialled, in memory
    phase,          \* where the goroutine of a connection is
    addr,           \* the remote address of a connection
    version,        \* the version of its handshake, 0 when there is none
    inbox,          \* its messages in InfoCh
    armed,          \* the timer of Respawn is running
    broken          \* a read has failed in UnregisterPeer or in TakeAvailableAddresses

table == <<stored, connections, pending>>
conns == <<phase, addr, version, inbox>>
vars == <<stored, connections, pending, phase, addr, version, inbox, armed, broken>>

Conn == Out \cup In

Phases == {"free", "started", "handshake", "up", "down", "returned"}

PeerRecord == [port : BOOLEAN, state : {"Unknown", "Connected", "Hostile"}, version : Nat,
               due : BOOLEAN, score : BOOLEAN]

free(c) == phase[c] = "free" /\ inbox[c] = <<>> /\ \A x \in DOMAIN connections : connections[x] # c

-----------------------------------------------------------------------------
(* Versions                                                                *)

bestVersion == Versions[1]

\* Mutant: the last version of the list is kept instead of starting again.
nextVersionStops(v) ==
    IF \E i \in DOMAIN Versions : Versions[i] = v
    THEN LET i == CHOOSE j \in DOMAIN Versions : Versions[j] = v
         IN  IF i = Len(Versions) THEN v ELSE Versions[i + 1]
    ELSE Versions[1]

\* Mutant: a version that is not in the list is kept, and so is the last one.
nextVersionKept(v) ==
    IF \E i \in 1..(Len(Versions) - 1) : Versions[i] = v
    THEN Versions[(CHOOSE i \in DOMAIN Versions : Versions[i] = v) + 1]
    ELSE v

\* The version after v, and the first one after the last or an unknown one.
nextVersion(v) ==
    IF \E i \in 1..(Len(Versions) - 1) : Versions[i] = v
    THEN Versions[(CHOOSE i \in DOMAIN Versions : /\ Versions[i] = v
                                                 /\ \A j \in 1..(i - 1) : Versions[j] # v) + 1]
    ELSE Versions[1]

\* External: how many minor versions lie between two versions.
CmpMinor(v, w) == IF v > w THEN v - w ELSE w - v

-----------------------------------------------------------------------------
(* The storage                                                             *)

Unknown(port, v, due) ==
    [port |-> port, state |-> "Unknown", version |-> v, due |-> due, score |-> FALSE]

\* putPeer: the write may fail.
putPeer(a, p) ==
    \/ stored' = Put(stored, a, p)
    \/ StorageFails /\ UNCHANGED stored

-----------------------------------------------------------------------------
(* Respawn and the addresses it may dial                                   *)

\* AppendAddresses: seed peers at the start, then the lists of nodes.  The list
\* is read as far as the storage allows.
AppendAddresses(list, port) ==
    /\ \E prefix \in SUBSET list :
          /\ prefix # list => StorageFails
          /\ stored' = PutAll(stored, [x \in prefix \ DOMAIN stored |-> Unknown(port, 0, TRUE)])
    /\ UNCHANGED <<connections, pending, conns, armed, broken>>

available ==
    {a \in DOMAIN stored : /\ stored[a].state # "Hostile"
                           /\ stored[a].port
                           /\ stored[a].due
                           /\ a \notin DOMAIN connections
                           /\ a \notin pending}

\* Mutant: the timer is not re-armed.
establishConnectionsOnce ==
    /\ armed
    /\ \E dial \in Injection(available, {c \in Out : free(c)}) :
          /\ pending' = pending \cup available
          /\ phase' = PutAll(phase, [c \in Range(dial) |-> "started"])
          /\ addr' = PutAll(addr, AntiFunction(dial))
    /\ armed' = FALSE
    /\ UNCHANGED <<stored, connections, version, inbox, broken>>

\* TakeAvailableAddresses marks the addresses as pending, establishConnections
\* starts one goroutine for each, and the timer is re-armed.
establishConnections ==
    /\ armed
    /\ \E dial \in Injection(available, {c \in Out : free(c)}) :
          /\ pending' = pending \cup available
          /\ phase' = PutAll(phase, [c \in Range(dial) |-> "started"])
          /\ addr' = PutAll(addr, AntiFunction(dial))
    /\ UNCHANGED <<stored, connections, version, inbox, armed, broken>>

\* The timer fires.  If the addresses cannot be read the loop of Respawn goes on
\* without re-arming it.
handleEvents ==
    \/ establishConnections
    \/ /\ armed /\ StorageFails
       /\ armed' = FALSE /\ broken' = TRUE
       /\ UNCHANGED <<table, conns>>

\* The Listener accepts a connection, from any node at any time.
Accept(c, a) ==
    /\ free(c)
    /\ phase' = [phase EXCEPT ![c] = "started"]
    /\ addr' = [addr EXCEPT ![c] = a]
    /\ UNCHANGED <<table, version, inbox, armed, broken>>

-----------------------------------------------------------------------------
(* A connection, from the call of Connect or Accept to its return          *)

\* Mutant: the error of Accept is handled as well.
returnsBoth(c) == phase' = [phase EXCEPT ![c] = "returned"]

\* Connect or Accept returns; the error of Connect is handled by Respawn.
returns(c) == phase' = [phase EXCEPT ![c] = IF c \in Out THEN "returned" ELSE "free"]

\* Mutant: the peer is not saved with the version that is tried.
SuggestVersionUnsaved(c) ==
    /\ phase[c] = "started"
    /\ version' = [version EXCEPT ![c] = bestVersion]
    /\ phase' = [phase EXCEPT ![c] = "handshake"]
    /\ UNCHANGED <<table, addr, inbox, armed, broken>>

\* SuggestVersion, called by Connect and Accept: the next version for a peer that
\* has never connected, the version of its last handshake for one that has.
SuggestVersion(c) ==
    /\ phase[c] = "started"
    /\ LET a == addr[c]
           suggest(v) == /\ version' = [version EXCEPT ![c] = v]
                         /\ phase' = [phase EXCEPT ![c] = "handshake"]
       IN  \/ /\ a \notin DOMAIN stored
              /\ suggest(bestVersion)
              /\ stored' = Put(stored, a, Unknown(FALSE, bestVersion, FALSE))
           \/ /\ a \in DOMAIN stored /\ stored[a].state = "Unknown"
              /\ suggest(nextVersion(stored[a].version))
              /\ stored' = [stored EXCEPT ![a].version = nextVersion(@), ![a].due = FALSE]
           \/ /\ a \in DOMAIN stored /\ stored[a].state = "Connected"
              /\ suggest(stored[a].version)
              /\ UNCHANGED stored
           \/ /\ a \in DOMAIN stored /\ stored[a].state = "Hostile"
              /\ returns(c)
              /\ UNCHANGED <<stored, version>>
    /\ UNCHANGED <<connections, pending, addr, inbox, armed, broken>>

\* SuggestVersion cannot read or write the peer.  Its error ends Connect or Accept,
\* and Respawn unregisters the address.
SuggestVersionFails(c) ==
    /\ StorageFails
    /\ phase[c] = "started"
    /\ returns(c)
    /\ UNCHANGED <<table, addr, version, inbox, armed, broken>>

\* External: the handshake succeeds and the Distributor is told.
Handshake(c) ==
    /\ phase[c] = "handshake"
    /\ phase' = [phase EXCEPT ![c] = "up"]
    /\ version' = [version EXCEPT ![c] = 0]
    /\ inbox' = [inbox EXCEPT ![c] = Append(@, "Connected")]
    /\ UNCHANGED <<table, addr, armed, broken>>

\* External: no connection, no answer, or an answer that is refused.
HandshakeFails(c) ==
    /\ phase[c] = "handshake"
    /\ returns(c)
    /\ version' = [version EXCEPT ![c] = 0]
    /\ UNCHANGED <<table, addr, inbox, armed, broken>>

\* External: the connection is lost.
Lost(c) ==
    /\ phase[c] = "up"
    /\ phase' = [phase EXCEPT ![c] = "down"]
    /\ UNCHANGED <<table, addr, version, inbox, armed, broken>>

\* External: the end of a connection is noticed, the Distributor is told, and
\* Connect or Accept returns.
Ends(c) ==
    /\ phase[c] = "down"
    /\ inbox' = [inbox EXCEPT ![c] = Append(@, "InternalErr")]
    /\ returns(c)
    /\ UNCHANGED <<table, addr, version, armed, broken>>

-----------------------------------------------------------------------------
(* The Distributor                                                         *)

\* np.Close()
close(c) == phase' = [phase EXCEPT ![c] = IF @ = "up" THEN "down" ELSE @]

received(c, m) ==
    /\ inbox[c] # <<>> /\ Head(inbox[c]) = m
    /\ inbox' = [inbox EXCEPT ![c] = Tail(@)]

\* What checkPort makes of the address that a node declares: its port, none
\* (nothing declared, or another address), refused (loopback, not IPv4) or
\* not an address at all.
Declarations == {"port", "none", "refused", "invalid"}

\* Mutant: a fresh record is stored instead of the known one.
registeredAnew(p, v, declares) ==
    [port |-> declares = "port", state |-> "Connected", version |-> v, due |-> TRUE,
     score |-> FALSE]

\* The record of a peer that is registered; the score is kept.
registered(p, v, declares) ==
    [p EXCEPT !.port = declares = "port", !.state = "Connected", !.version = v, !.due = TRUE]

\* RegisterPeer, with the version, the network and the declared address of the
\* handshake.  The lookup finds the peer (AddressKnown), so the test for a hostile
\* peer among the errors of the lookup is never made.  putPeer fails also for a
\* name that is not UTF-8, in either branch.
RegisterPeer(a, c, v, ours, declares) ==
    /\ pending' = pending \ {a}
    /\ LET hostile == CmpMinor(v, stored[a].version) >= 2 \/ ~ours
       IN  \/ /\ hostile
              /\ close(c)
              /\ \/ stored' = [stored EXCEPT ![a].state = "Hostile", ![a].version = v]
                 \/ UNCHANGED stored
              /\ UNCHANGED connections
           \/ /\ ~hostile /\ declares = "refused"
              /\ close(c)
              /\ UNCHANGED <<stored, connections>>
           \/ /\ ~hostile /\ declares = "invalid"
              /\ UNCHANGED <<stored, connections, phase>>
           \/ /\ ~hostile /\ declares \in {"port", "none"}
              /\ connections' = Put(connections, a, c)
              /\ \/ stored' = [stored EXCEPT ![a] = registered(@, v, declares)]
                 \/ UNCHANGED stored
              /\ UNCHANGED phase
           \/ /\ StorageFails
              /\ close(c)
              /\ UNCHANGED <<stored, connections>>

handleConnected(c, v, ours, declares) ==
    /\ received(c, "Connected")
    /\ RegisterPeer(addr[c], c, v, ours, declares)
    /\ UNCHANGED <<addr, version, armed, broken>>

\* Mutant: the address stays pending.
UnregisterPeerPending(a) ==
    /\ connections' = Delete(connections, a)
    /\ stored' = [stored EXCEPT ![a].due = FALSE]
    /\ UNCHANGED <<pending, broken>>

\* Mutant: the connection stays in the list.
UnregisterPeerListed(a) ==
    /\ pending' = pending \ {a}
    /\ stored' = [stored EXCEPT ![a].due = FALSE]
    /\ UNCHANGED <<connections, broken>>

\* UnregisterPeer: by address, whatever connection the address has now.
UnregisterPeer(a) ==
    \/ /\ pending' = pending \ {a}
       /\ connections' = Delete(connections, a)
       /\ putPeer(a, [stored[a] EXCEPT !.due = FALSE])
       /\ UNCHANGED broken
    \/ /\ StorageFails
       /\ broken' = TRUE
       /\ UNCHANGED table

\* The peer is closed, if it is not yet, and its address unregistered.
handleInternalError(c) ==
    /\ received(c, "InternalErr")
    /\ close(c)
    /\ UnregisterPeer(addr[c])
    /\ UNCHANGED <<addr, version, armed>>

\* The goroutine of establishConnections ends: Connect has returned an error.
connectFailed(c) ==
    /\ phase[c] = "returned"
    /\ phase' = [phase EXCEPT ![c] = "free"]
    /\ UnregisterPeer(addr[c])
    /\ UNCHANGED <<addr, version, inbox, armed>>

\* A score message; a peer that is not stored has none.
UpdatePeerScore(a) ==
    /\ a \in DOMAIN stored
    /\ stored' = [stored EXCEPT ![a].score = TRUE]
    /\ UNCHANGED <<connections, pending, conns, armed, broken>>

-----------------------------------------------------------------------------
(* Time and restarts                                                       *)

\* NextAttempt is reached, ten minutes after it was set.
DelayPasses(a) ==
    /\ a \in DOMAIN stored /\ ~stored[a].due
    /\ stored' = [stored EXCEPT ![a].due = TRUE]
    /\ UNCHANGED <<connections, pending, conns, armed, broken>>

\* The process ends, by a signal or a crash, and is started again: NewRegistry
\* keeps the storage and nothing else.
Restart ==
    /\ connections' = Empty /\ pending' = {}
    /\ phase' = [c \in Conn |-> "free"] /\ inbox' = [c \in Conn |-> <<>>]
    /\ version' = [c \in Conn |-> 0]
    /\ armed' = TRUE /\ broken' = FALSE
    /\ UNCHANGED <<stored, addr>>

-----------------------------------------------------------------------------
Init ==
    /\ stored = Empty /\ connections = Empty /\ pending = {}
    /\ phase = [c \in Conn |-> "free"] /\ inbox = [c \in Conn |-> <<>>]
    /\ addr \in [Conn -> Addr] /\ version = [c \in Conn |-> 0]
    /\ armed = TRUE /\ broken = FALSE

\* What the goroutine of a connection does about it, and the Distributor.
ConnectionStep(c) ==
    \/ SuggestVersion(c) \/ SuggestVersionFails(c)
    \/ Handshake(c) \/ HandshakeFails(c)
    \/ Ends(c)
    \/ connectFailed(c)

handleInfoMessage(c) ==
    \/ \E v \in NodeVersions, ours \in BOOLEAN, declares \in Declarations :
          handleConnected(c, v, ours, declares)
    \/ handleInternalError(c)

Next ==
    \/ \E list \in SUBSET Addr, port \in BOOLEAN : AppendAddresses(list, port)
    \/ \E a \in Addr : UpdatePeerScore(a) \/ DelayPasses(a)
    \/ \E c \in In, a \in Addr : Accept(c, a)
    \/ \E c \in Conn : ConnectionStep(c) \/ handleInfoMessage(c) \/ Lost(c)
    \/ handleEvents
    \/ Restart

\* Timers fire: as long as the timer of Respawn is armed and addresses are to be
\* dialled, they are; that a read of the storage fails is never required.  A
\* handshake ends one way or the other (the library sets a deadline), runnable
\* goroutines run and the Distributor receives what is sent to it.  Only so many
\* steps of a connection can follow one another, so one condition per connection
\* is enough for both goroutines.
Fairness ==
    /\ WF_vars(establishConnections)
    /\ \A a \in Addr : WF_vars(DelayPasses(a))
    /\ \A c \in Conn : WF_vars(ConnectionStep(c) \/ handleInfoMessage(c))

Spec == Init /\ [][Next]_vars /\ Fairness

-----------------------------------------------------------------------------
(* Properties                                                              *)

TypeOK ==
    /\ stored \in [DOMAIN stored -> PeerRecord] /\ DOMAIN stored \subseteq Addr
    /\ connections \in [DOMAIN connections -> Conn] /\ DOMAIN connections \subseteq Addr
    /\ pending \subseteq Addr
    /\ phase \in [Conn -> Phases]
    /\ \A c \in In : phase[c] # "returned"
    /\ addr \in [Conn -> Addr]
    /\ version \in [Conn -> Nat]
    /\ inbox \in [Conn -> {<<>>, <<"Connected">>, <<"InternalErr">>, <<"Connected", "InternalErr">>}]
    /\ armed \in BOOLEAN /\ broken \in BOOLEAN

tells(c, m) == \E i \in DOMAIN inbox[c] : inbox[c][i] = m

\* SuggestVersion stores every address before its handshake, so RegisterPeer and
\* UnregisterPeer always find the peer: the branch of RegisterPeer that refuses
\* a hostile peer (registry.go:85) is never entered.
AddressKnown ==
    \A c \in Conn : phase[c] \in {"handshake", "up", "down", "returned"} \/ inbox[c] # <<>>
                    => addr[c] \in DOMAIN stored

\* No connection stays registered after its end: a registered connection is up,
\* or the Distributor is still to be told of its end.
RegisteredEnds ==
    ~broken => \A a \in DOMAIN connections :
        LET c == connections[a]
        IN  addr[c] = a /\ (phase[c] \in {"up", "down"} \/ tells(c, "InternalErr"))

\* No address stays pending for good, which would keep Respawn from dialling it:
\* some goroutine has still to dial it, to hand its connection to RegisterPeer or
\* to unregister it.
PendingIsDialled ==
    ~broken => \A a \in pending : \E c \in Out :
        /\ addr[c] = a
        /\ \/ phase[c] \in {"started", "handshake", "returned"}
           \/ tells(c, "Connected")

\* Version selection: a node that has never connected is offered a supported
\* version, never the zero version of an address that was only heard of
\* (AppendAddresses); one that has connected may be offered the version of its own
\* last handshake, supported or not (SuggestVersion).
VersionOffered ==
    \A c \in Conn : phase[c] = "handshake" =>
        \/ version[c] \in Range(Versions)
        \/ version[c] \in NodeVersions /\ stored[addr[c]].state # "Unknown"

\* The score of a peer survives everything, restarts and connections included;
\* the Loader compares it with the leash of the peer.
ScoreKept ==
    [][\A a \in DOMAIN stored : stored[a].score => a \in DOMAIN stored' /\ stored'[a].score]_vars

dialable(a) == a \in DOMAIN stored /\ stored[a].port /\ stored[a].state # "Hostile"

\* A goroutine of Respawn has the address to dial.
dialled(a) == \E c \in Out : addr[c] = a /\ phase[c] = "started"

\* The node is connected, and the registry knows.
connected(a) == a \in DOMAIN connections /\ phase[connections[a]] = "up"

\* Where the model stops: every goroutine of Out holds a connection.
exhausted == \A c \in Out : phase[c] = "up"

\* From some time on the process is not restarted and no node connects by itself:
\* every attempt of a node puts off the next dial to it by ten minutes.
Undisturbed == <>[][~Restart /\ \A c \in In, a \in Addr : ~Accept(c, a)]_vars

\* An address that may be dialled is dialled, again and again, as long as it is not
\* connected: nobody leaves it pending or in the list of connections, and the timer
\* of Respawn goes on (TakeAvailableAddresses, UnregisterPeer, RegisterPeer).
DialledAgain ==
    Undisturbed =>
        \A a \in Addr : dialable(a) ~> dialled(a) \/ ~dialable(a) \/ connected(a)
                                       \/ broken \/ exhausted

\* README, Version selection: "When establishing an outgoing connection to a new
\* node, Fork Detector attempts to handshake with each version from the list until
\* a successful connection is made", if SuggestVersion can read and write the peer.
EveryVersionTried ==
    Undisturbed /\ (<>[][\A c \in Out : ~SuggestVersionFails(c)]_vars) =>
        \A a \in Addr : \A i \in DOMAIN Versions :
            dialable(a) /\ stored[a].state = "Unknown"
            ~> \/ \E c \in Out : addr[c] = a /\ phase[c] = "handshake" /\ version[c] = Versions[i]
               \/ ~dialable(a) \/ stored[a].state # "Unknown" \/ connected(a)
               \/ broken \/ exhausted

\* README, GET /api/connections: "The method returns a list of addresses of nodes
\* that are connected at the time of the request."  A connection that is up and
\* was put into the registry is in the list, or a newer one of its node is.
ConnectedIsListed ==
    [][\A a \in DOMAIN connections :
          phase'[connections[a]] = "up" /\ ~broken => a \in DOMAIN connections']_vars
=============================================================================
