--------------------------- MODULE RegistryProofs ---------------------------
(***************************************************************************)
(* The safety properties of Registry, proved for any addresses, versions   *)
(* and numbers of connections, with a storage that may fail and restarts   *)
(* at any moment.                                                          *)
(***************************************************************************)
EXTENDS Registry, NaturalNumbers, SequenceTheorems

-----------------------------------------------------------------------------
(* The inductive invariant                                                 *)

\* What the Distributor has still to be told of a connection: nothing before its
\* handshake, its end not before Connect or Accept has returned.
Mailbox ==
    \A c \in Conn :
        /\ phase[c] \in {"started", "handshake"} => inbox[c] = <<>>
        /\ phase[c] \in {"up", "down"} => inbox[c] \in {<<>>, <<"Connected">>}
        /\ phase[c] \in {"free", "returned"} =>
               inbox[c] \in {<<>>, <<"InternalErr">>, <<"Connected", "InternalErr">>}

\* Respawn dials stored addresses only.
DialledStored == \A c \in Out : phase[c] = "started" => addr[c] \in DOMAIN stored

\* The version of a peer that has been seen is that of a handshake of its node.
Learned ==
    \A a \in DOMAIN stored : stored[a].state # "Unknown" => stored[a].version \in NodeVersions

SafeInv ==
    /\ TypeOK
    /\ Mailbox
    /\ DialledStored
    /\ AddressKnown
    /\ RegisteredEnds
    /\ PendingIsDialled
    /\ Learned
    /\ VersionOffered

-----------------------------------------------------------------------------
(* Versions                                                                *)

\* The loop of nextVersion does not leave the list of supported versions.
LEMMA NextVersionSupported ==
    ASSUME NEW v
    PROVE  nextVersion(v) \in Nat \ {0} /\ nextVersion(v) \in Range(Versions)
  <1>0. Versions \in Seq(Nat \ {0}) /\ Versions # <<>>
    BY RegistryAssumption
  <1>1. CASE \E i \in 1..(Len(Versions) - 1) : Versions[i] = v
    <2> DEFINE First(i) == Versions[i] = v /\ \A j \in 1..(i - 1) : Versions[j] # v
               k == CHOOSE i \in DOMAIN Versions : First(i)
               T == {i \in 1..(Len(Versions) - 1) : Versions[i] = v}
    <2>1. PICK i \in T : \A j \in T : i <= j
      <3>1. T \subseteq Nat
        OBVIOUS
      <3>2. T # {}
        BY <1>1, Zenon
      <3> HIDE DEF T
      <3> QED
        BY <3>1, <3>2, LeastNatural
    <2>2. i \in DOMAIN Versions /\ First(i)
      BY <1>0, <2>1
    <2>3. k \in DOMAIN Versions /\ First(k)
      BY <2>2, Zenon
    <2>4. nextVersion(v) = Versions[k + 1]
      BY <1>1, Zenon DEF nextVersion
    <2> HIDE DEF k
    <2>5. k \in Nat \ {0} /\ i \in 1..(Len(Versions) - 1) /\ Versions[i] = v
      BY <1>0, <2>1, <2>3
    <2>6. k <= i
      BY <2>3, <2>5
    <2>7. k + 1 \in DOMAIN Versions
      BY <1>0, <2>5, <2>6
    <2> QED
      BY <1>0, <2>4, <2>7 DEF Range
  <1>2. CASE ~ \E i \in 1..(Len(Versions) - 1) : Versions[i] = v
    <2>1. nextVersion(v) = Versions[1] /\ 1 \in DOMAIN Versions
      BY <1>0, <1>2 DEF nextVersion
    <2> QED
      BY <1>0, <2>1 DEF Range
  <1> QED
    BY <1>1, <1>2

\* The first version a node is tried with.
LEMMA BestVersionSupported == bestVersion \in Nat \ {0} /\ bestVersion \in Range(Versions)
  BY RegistryAssumption DEF bestVersion, Range

-----------------------------------------------------------------------------
(* What waits in InfoCh                                                    *)

Mail == {<<>>, <<"Connected">>, <<"InternalErr">>, <<"Connected", "InternalErr">>}

\* The events of a connection differ.
LEMMA MailDiffers ==
    /\ <<>> # <<"Connected">> /\ <<>> # <<"InternalErr">> /\ <<>> # <<"Connected", "InternalErr">>
    /\ <<"Connected">> # <<"InternalErr">>
    /\ <<"Connected">> # <<"Connected", "InternalErr">>
    /\ <<"InternalErr">> # <<"Connected", "InternalErr">>
  OBVIOUS

\* A second event follows the first one.
LEMMA AppendPair ==
    ASSUME NEW x, NEW y
    PROVE  Append(<<x>>, y) = <<x, y>>
  <1> DEFINE S == {x, y}
             s == Append(<<x>>, y)
             t == <<x, y>>
  <1>1. s \in Seq(S) /\ Len(s) = 2 /\ s[1] = x /\ s[2] = y
    OBVIOUS
  <1>2. t \in Seq(S) /\ Len(t) = 2 /\ t[1] = x /\ t[2] = y
    OBVIOUS
  <1> HIDE DEF s, t, S
  <1>3. \A i \in 1..Len(s) : s[i] = t[i]
    BY <1>1, <1>2
  <1>4. s = t
    BY <1>1, <1>2, <1>3, SeqEqual
  <1> QED
    BY <1>4 DEF s, t

\* What the goroutine of a connection adds.
LEMMA MailSent ==
    /\ Append(<<>>, "Connected") = <<"Connected">>
    /\ Append(<<>>, "InternalErr") = <<"InternalErr">>
    /\ Append(<<"Connected">>, "InternalErr") = <<"Connected", "InternalErr">>
  <1>1. Append(<<>>, "Connected") = <<"Connected">>
    OBVIOUS
  <1>2. Append(<<>>, "InternalErr") = <<"InternalErr">>
    OBVIOUS
  <1>3. Append(<<"Connected">>, "InternalErr") = <<"Connected", "InternalErr">>
    BY AppendPair
  <1> QED
    BY <1>1, <1>2, <1>3

\* What the Distributor takes.
LEMMA MailTaken ==
    ASSUME NEW s \in Mail, s # <<>>
    PROVE  /\ Head(s) = "Connected" =>
                  \/ s = <<"Connected">> /\ Tail(s) = <<>>
                  \/ s = <<"Connected", "InternalErr">> /\ Tail(s) = <<"InternalErr">>
           /\ Head(s) = "InternalErr" => s = <<"InternalErr">> /\ Tail(s) = <<>>
  <1>1. CASE s = <<"Connected">>
    <2>1. Head(s) = "Connected" /\ Tail(s) = <<>>
      BY <1>1
    <2> QED
      BY <1>1, <2>1
  <1>2. CASE s = <<"InternalErr">>
    <2>1. Head(s) = "InternalErr" /\ Tail(s) = <<>>
      BY <1>2
    <2> QED
      BY <1>2, <2>1
  <1>3. CASE s = <<"Connected", "InternalErr">>
    <2>1. Head(s) = "Connected" /\ Tail(s) = <<"InternalErr">>
      BY <1>3
    <2> QED
      BY <1>3, <2>1
  <1> QED
    BY <1>1, <1>2, <1>3 DEF Mail

\* What the Distributor has still to be told.
LEMMA MailTells ==
    ASSUME NEW s \in Mail
    PROVE  /\ (\E i \in DOMAIN s : s[i] = "Connected")
                  <=> s \in {<<"Connected">>, <<"Connected", "InternalErr">>}
           /\ (\E i \in DOMAIN s : s[i] = "InternalErr")
                  <=> s \in {<<"InternalErr">>, <<"Connected", "InternalErr">>}
  BY DEF Mail

-----------------------------------------------------------------------------
(* Respawn's goroutines                                                    *)

\* handleEvents starts a goroutine of its own for every available address, and
\* disturbs no goroutine that is at work.
LEMMA DialEffect ==
    ASSUME NEW S, NEW T \in SUBSET Conn, NEW d \in Injection(S, T),
           phase \in [Conn -> Phases], addr \in [Conn -> Addr], S \subseteq Addr
    PROVE  /\ PutAll(phase, [c \in Range(d) |-> "started"]) \in [Conn -> Phases]
           /\ PutAll(addr, AntiFunction(d)) \in [Conn -> Addr]
           /\ \A c \in Conn :
                 \/ /\ c \in T
                    /\ PutAll(phase, [x \in Range(d) |-> "started"])[c] = "started"
                    /\ PutAll(addr, AntiFunction(d))[c] \in S
                 \/ /\ PutAll(phase, [x \in Range(d) |-> "started"])[c] = phase[c]
                    /\ PutAll(addr, AntiFunction(d))[c] = addr[c]
           /\ \A a \in S : \E c \in T :
                 /\ PutAll(phase, [x \in Range(d) |-> "started"])[c] = "started"
                 /\ PutAll(addr, AntiFunction(d))[c] = a
  <1>1. d \in [S -> T] /\ Range(d) = {d[x] : x \in S}
    BY DEF Injection, Range
  <1>2. ASSUME NEW c \in Range(d)
        PROVE  c \in T /\ AntiFunction(d)[c] \in S /\ d[AntiFunction(d)[c]] = c
    <2>1. \E x \in S : d[x] = c
      BY <1>1
    <2>2. AntiFunction(d)[c] = CHOOSE x \in S : c \in Range(d) => d[x] = c
      BY <1>1, <1>2, Zenon DEF AntiFunction, Inverse
    <2>3. AntiFunction(d)[c] \in S /\ (c \in Range(d) => d[AntiFunction(d)[c]] = c)
      BY <2>1, <2>2, Zenon
    <2> QED
      BY <1>1, <1>2, <2>3
  <1>3. ASSUME NEW a \in S
        PROVE  d[a] \in Range(d) /\ AntiFunction(d)[d[a]] = a
    <2>1. d[a] \in Range(d)
      BY <1>1
    <2>2. AntiFunction(d)[d[a]] \in S /\ d[AntiFunction(d)[d[a]]] = d[a]
      BY <1>2, <2>1
    <2> QED
      BY <1>1, <2>1, <2>2 DEF Injection, IsInjective
  <1>4. DOMAIN AntiFunction(d) = Range(d)
    BY DEF AntiFunction, Inverse
  <1>5. Range(d) \subseteq T
    BY <1>2
  <1>6. "started" \in Phases
    BY DEF Phases
  <1> DEFINE ph == PutAll(phase, [x \in Range(d) |-> "started"])
             ad == PutAll(addr, AntiFunction(d))
  <1>7. /\ ph = [x \in Conn |-> IF x \in Range(d) THEN "started" ELSE phase[x]]
        /\ ad = [x \in Conn |-> IF x \in Range(d) THEN AntiFunction(d)[x] ELSE addr[x]]
    BY <1>4, <1>5 DEF PutAll
  <1> HIDE DEF ph, ad
  <1>8. ph \in [Conn -> Phases] /\ ad \in [Conn -> Addr]
    BY <1>2, <1>6, <1>7
  <1>9. ASSUME NEW c \in Conn
        PROVE  (c \in T /\ ph[c] = "started" /\ ad[c] \in S) \/ (ph[c] = phase[c] /\ ad[c] = addr[c])
    BY <1>2, <1>7
  <1>10. ASSUME NEW a \in S
         PROVE  \E c \in T : ph[c] = "started" /\ ad[c] = a
    <2>1. d[a] \in Range(d) /\ d[a] \in T /\ d[a] \in Conn
      BY <1>1, <1>3
    <2>2. ph[d[a]] = "started" /\ ad[d[a]] = a
      BY <1>3, <1>7, <2>1
    <2> QED
      BY <2>1, <2>2
  <1> QED
    BY <1>8, <1>9, <1>10 DEF ph, ad

-----------------------------------------------------------------------------
(* The storage                                                             *)

\* A table of peers that has forgotten neither a peer nor a score.
KeepsPeers(table_) ==
    /\ table_ \in [DOMAIN table_ -> PeerRecord] /\ DOMAIN table_ \subseteq Addr
    /\ DOMAIN stored \subseteq DOMAIN table_
    /\ \A a \in DOMAIN stored : stored[a].score => table_[a].score

\* One peer is written.
LEMMA WriteKeeps ==
    ASSUME stored \in [DOMAIN stored -> PeerRecord], DOMAIN stored \subseteq Addr,
           NEW a \in Addr, NEW r \in PeerRecord,
           a \in DOMAIN stored /\ stored[a].score => r.score
    PROVE  /\ KeepsPeers(Put(stored, a, r))
           /\ a \in DOMAIN stored => KeepsPeers([stored EXCEPT ![a] = r])
           /\ a \in DOMAIN Put(stored, a, r)
  <1>1. KeepsPeers(Put(stored, a, r)) /\ a \in DOMAIN Put(stored, a, r)
    BY DEF KeepsPeers, Put
  <1>2. a \in DOMAIN stored => KeepsPeers([stored EXCEPT ![a] = r])
    BY DEF KeepsPeers
  <1> QED
    BY <1>1, <1>2

\* A new peer has a record.
LEMMA UnknownRecord ==
    ASSUME NEW port \in BOOLEAN, NEW v \in Nat, NEW due \in BOOLEAN
    PROVE  Unknown(port, v, due) \in PeerRecord
  BY DEF Unknown, PeerRecord

\* A record keeps its form when one of its fields is written, and its score unless
\* that is set.
LEMMA WrittenRecord ==
    ASSUME NEW p \in PeerRecord, NEW v \in Nat, NEW d \in BOOLEAN
    PROVE  /\ [p EXCEPT !.due = d] \in PeerRecord /\ [p EXCEPT !.due = d].score = p.score
           /\ [p EXCEPT !.score = TRUE] \in PeerRecord /\ [p EXCEPT !.score = TRUE].score
           /\ [p EXCEPT !.version = v, !.due = d] \in PeerRecord
           /\ [p EXCEPT !.version = v, !.due = d].score = p.score
           /\ [p EXCEPT !.state = "Hostile", !.version = v] \in PeerRecord
           /\ [p EXCEPT !.state = "Hostile", !.version = v].score = p.score
  BY DEF PeerRecord

\* A registered peer has a record, with its score.
LEMMA RegisteredRecord ==
    ASSUME NEW p \in PeerRecord, NEW v \in Nat, NEW declares
    PROVE  registered(p, v, declares) \in PeerRecord /\ registered(p, v, declares).score = p.score
  BY DEF registered, PeerRecord

USE RegistryAssumption DEF table, conns

\* RegisterPeer rewrites the record of a peer that is stored.
LEMMA RegisterKeeps ==
    ASSUME TypeOK, AddressKnown, NEW c \in Conn, NEW v \in NodeVersions, NEW ours, NEW declares,
           handleConnected(c, v, ours, declares)
    PROVE  KeepsPeers(stored')
  <1> DEFINE a == addr[c]
  <1>1. /\ stored \in [DOMAIN stored -> PeerRecord] /\ DOMAIN stored \subseteq Addr
        /\ a \in DOMAIN stored /\ a \in Addr /\ stored[a] \in PeerRecord /\ v \in Nat
    BY DEF TypeOK, AddressKnown, handleConnected, received
  <1> DEFINE h == [stored[a] EXCEPT !.state = "Hostile", !.version = v]
             r == registered(stored[a], v, declares)
  <1>2. \/ stored' = [stored EXCEPT ![a] = h]
        \/ stored' = [stored EXCEPT ![a] = r]
        \/ stored' = stored
    BY <1>1 DEF handleConnected, RegisterPeer
  <1>3. h \in PeerRecord /\ h.score = stored[a].score
    BY <1>1, WrittenRecord
  <1>4. r \in PeerRecord /\ r.score = stored[a].score
    BY <1>1, RegisteredRecord
  <1> HIDE DEF a, h, r
  <1>5. CASE stored' = [stored EXCEPT ![a] = h]
    BY <1>1, <1>3, <1>5, WriteKeeps
  <1>6. CASE stored' = [stored EXCEPT ![a] = r]
    BY <1>1, <1>4, <1>6, WriteKeeps
  <1>7. CASE stored' = stored
    BY <1>1, <1>7 DEF KeepsPeers
  <1> QED
    BY <1>2, <1>5, <1>6, <1>7

\* UnregisterPeer puts off the next attempt and keeps the rest of the record.
LEMMA UnregisterKeeps ==
    ASSUME TypeOK, NEW a \in DOMAIN stored, UnregisterPeer(a)
    PROVE  KeepsPeers(stored')
  <1> DEFINE r == [stored[a] EXCEPT !.due = FALSE]
  <1>1. /\ stored \in [DOMAIN stored -> PeerRecord] /\ DOMAIN stored \subseteq Addr
        /\ a \in Addr /\ stored[a] \in PeerRecord
    BY DEF TypeOK
  <1>2. r \in PeerRecord /\ r.score = stored[a].score
    BY <1>1, WrittenRecord
  <1>3. stored' = Put(stored, a, r) \/ stored' = stored
    BY DEF UnregisterPeer, putPeer
  <1> HIDE DEF r
  <1>4. CASE stored' = Put(stored, a, r)
    BY <1>1, <1>2, <1>4, WriteKeeps
  <1>5. CASE stored' = stored
    BY <1>1, <1>5 DEF KeepsPeers
  <1> QED
    BY <1>3, <1>4, <1>5

\* SuggestVersion stores the peer with the version that is tried.
LEMMA SuggestKeeps ==
    ASSUME TypeOK, NEW c \in Conn, SuggestVersion(c)
    PROVE  /\ KeepsPeers(stored')
           /\ version' \in [Conn -> Nat]
           /\ \/ phase' = [phase EXCEPT ![c] = "handshake"] /\ addr[c] \in DOMAIN stored'
              \/ returns(c)
  <1> DEFINE a == addr[c]
  <1>1. /\ stored \in [DOMAIN stored -> PeerRecord] /\ DOMAIN stored \subseteq Addr
        /\ a \in Addr /\ version \in [Conn -> Nat]
    BY DEF TypeOK
  <1>2. CASE /\ a \notin DOMAIN stored
             /\ version' = [version EXCEPT ![c] = bestVersion]
             /\ phase' = [phase EXCEPT ![c] = "handshake"]
             /\ stored' = Put(stored, a, Unknown(FALSE, bestVersion, FALSE))
    <2>1. bestVersion \in Nat
      BY BestVersionSupported
    <2>2. Unknown(FALSE, bestVersion, FALSE) \in PeerRecord
      BY <2>1, UnknownRecord
    <2>3. KeepsPeers(stored') /\ a \in DOMAIN stored'
      BY <1>1, <1>2, <2>2, WriteKeeps
    <2> QED
      BY <1>1, <1>2, <2>1, <2>3
  <1>3. CASE /\ a \in DOMAIN stored
             /\ version' = [version EXCEPT ![c] = nextVersion(stored[a].version)]
             /\ phase' = [phase EXCEPT ![c] = "handshake"]
             /\ stored' = [stored EXCEPT ![a].version = nextVersion(@), ![a].due = FALSE]
    <2> DEFINE n == nextVersion(stored[a].version)
               r == [stored[a] EXCEPT !.version = n, !.due = FALSE]
    <2>1. n \in Nat
      BY NextVersionSupported
    <2>2. stored' = [stored EXCEPT ![a] = r]
      BY <1>1, <1>3
    <2>3. r \in PeerRecord /\ r.score = stored[a].score
      BY <1>1, <1>3, <2>1, WrittenRecord
    <2> HIDE DEF r, n
    <2>4. a \in DOMAIN stored
      BY <1>3
    <2>5. KeepsPeers(stored') /\ a \in DOMAIN stored'
      BY <1>1, <2>2, <2>3, <2>4, WriteKeeps
    <2>6. version' \in [Conn -> Nat]
      BY <1>1, <1>3, <2>1 DEF n
    <2> QED
      BY <1>3, <2>5, <2>6
  <1>4. CASE /\ a \in DOMAIN stored /\ stored' = stored
             /\ version' = [version EXCEPT ![c] = stored[a].version]
             /\ phase' = [phase EXCEPT ![c] = "handshake"]
    <2>1. stored[a].version \in Nat
      BY <1>1, <1>4 DEF PeerRecord
    <2> QED
      BY <1>1, <1>4, <2>1 DEF KeepsPeers
  <1>5. CASE returns(c) /\ UNCHANGED <<stored, version>>
    BY <1>1, <1>5 DEF KeepsPeers
  <1> QED
    BY <1>2, <1>3, <1>4, <1>5, Zenon DEF SuggestVersion

\* No step forgets a peer or its score.
LEMMA NextStored == TypeOK /\ AddressKnown /\ [Next]_vars => KeepsPeers(stored')
  <1> SUFFICES ASSUME TypeOK, AddressKnown, [Next]_vars
               PROVE  KeepsPeers(stored')
    OBVIOUS
  <1>0. stored \in [DOMAIN stored -> PeerRecord] /\ DOMAIN stored \subseteq Addr
    BY DEF TypeOK
  <1>1. CASE UNCHANGED stored
    BY <1>0, <1>1 DEF KeepsPeers
  <1>2. ASSUME NEW list \in SUBSET Addr, NEW port \in BOOLEAN, AppendAddresses(list, port)
        PROVE  KeepsPeers(stored')
    <2>1. PICK prefix \in SUBSET list :
              stored' = PutAll(stored, [x \in prefix \ DOMAIN stored |-> Unknown(port, 0, TRUE)])
      BY <1>2 DEF AppendAddresses
    <2>2. Unknown(port, 0, TRUE) \in PeerRecord
      BY UnknownRecord
    <2> QED
      BY <1>0, <2>1, <2>2 DEF PutAll, KeepsPeers
  <1>3. ASSUME NEW a \in Addr, UpdatePeerScore(a)
        PROVE  KeepsPeers(stored')
    <2> DEFINE r == [stored[a] EXCEPT !.score = TRUE]
    <2>1. a \in DOMAIN stored /\ stored' = [stored EXCEPT ![a] = r]
      BY <1>3 DEF UpdatePeerScore
    <2>2. r \in PeerRecord /\ r.score
      BY <1>0, <2>1, WrittenRecord
    <2> HIDE DEF r
    <2> QED
      BY <1>0, <2>1, <2>2, WriteKeeps
  <1>4. ASSUME NEW a \in Addr, DelayPasses(a)
        PROVE  KeepsPeers(stored')
    <2> DEFINE r == [stored[a] EXCEPT !.due = TRUE]
    <2>1. a \in DOMAIN stored /\ stored' = [stored EXCEPT ![a] = r]
      BY <1>4 DEF DelayPasses
    <2>2. r \in PeerRecord /\ r.score = stored[a].score
      BY <1>0, <2>1, WrittenRecord
    <2> HIDE DEF r
    <2> QED
      BY <1>0, <2>1, <2>2, WriteKeeps
  <1>5. ASSUME NEW c \in Conn, SuggestVersion(c)
        PROVE  KeepsPeers(stored')
    BY <1>5, SuggestKeeps
  <1>6. ASSUME NEW c \in Conn, connectFailed(c) \/ handleInternalError(c)
        PROVE  KeepsPeers(stored')
    <2>1. addr[c] \in DOMAIN stored /\ UnregisterPeer(addr[c])
      BY <1>6 DEF connectFailed, handleInternalError, received, AddressKnown
    <2> QED
      BY <2>1, UnregisterKeeps
  <1>7. ASSUME NEW c \in Conn, NEW v \in NodeVersions, NEW ours \in BOOLEAN,
               NEW declares \in Declarations, handleConnected(c, v, ours, declares)
        PROVE  KeepsPeers(stored')
    BY <1>7, RegisterKeeps
  <1> QED
    BY <1>1, <1>2, <1>3, <1>4, <1>5, <1>6, <1>7
       DEF Next, ConnectionStep, handleInfoMessage, Accept, Handshake, HandshakeFails, Lost, Ends,
           handleEvents, establishConnections, SuggestVersionFails, Restart, vars

-----------------------------------------------------------------------------
(* Connections and their events                                            *)

\* What Respawn's loop does: nothing but give up, or one goroutine for every
\* available address.
LEMMA DialStep ==
    ASSUME TypeOK, handleEvents
    PROVE  \/ broken' /\ UNCHANGED <<pending, phase, addr>>
           \/ /\ phase' \in [Conn -> Phases] /\ addr' \in [Conn -> Addr]
              /\ pending' = pending \cup available /\ broken' = broken
              /\ \A c \in Conn :
                    \/ c \in Out /\ free(c) /\ phase'[c] = "started" /\ addr'[c] \in available
                    \/ phase'[c] = phase[c] /\ addr'[c] = addr[c]
              /\ \A a \in available : \E c \in Out : phase'[c] = "started" /\ addr'[c] = a
  <1> DEFINE T == {c \in Out : free(c)}
  <1>1. CASE broken' = TRUE /\ UNCHANGED <<pending, phase, addr>>
    BY <1>1
  <1>2. CASE \E d \in Injection(available, T) :
                /\ pending' = pending \cup available
                /\ phase' = PutAll(phase, [c \in Range(d) |-> "started"])
                /\ addr' = PutAll(addr, AntiFunction(d))
                /\ broken' = broken
    <2>1. PICK d \in Injection(available, T) :
                /\ pending' = pending \cup available
                /\ phase' = PutAll(phase, [c \in Range(d) |-> "started"])
                /\ addr' = PutAll(addr, AntiFunction(d))
                /\ broken' = broken
      BY <1>2
    <2>2. /\ T \in SUBSET Conn /\ available \subseteq Addr
          /\ phase \in [Conn -> Phases] /\ addr \in [Conn -> Addr]
      BY DEF TypeOK, available, Conn
    <2>3. T \subseteq Out /\ \A c \in T : free(c)
      OBVIOUS
    <2> HIDE DEF T
    <2>4. /\ phase' \in [Conn -> Phases] /\ addr' \in [Conn -> Addr]
          /\ \A c \in Conn :
                \/ c \in T /\ phase'[c] = "started" /\ addr'[c] \in available
                \/ phase'[c] = phase[c] /\ addr'[c] = addr[c]
          /\ \A a \in available : \E c \in T : phase'[c] = "started" /\ addr'[c] = a
      BY <2>1, <2>2, DialEffect
    <2> QED
      BY <2>1, <2>3, <2>4
  <1> QED
    BY <1>1, <1>2, Zenon DEF handleEvents, establishConnections

\* The handshake is told to the Distributor first, the end of a connection last.
LEMMA EventsSent ==
    ASSUME TypeOK, Mailbox, NEW c \in Conn
    PROVE  /\ Handshake(c) => inbox[c] = <<>> /\ inbox' = [inbox EXCEPT ![c] = <<"Connected">>]
           /\ Ends(c) => \/ inbox[c] = <<>> /\ inbox' = [inbox EXCEPT ![c] = <<"InternalErr">>]
                         \/ /\ inbox[c] = <<"Connected">>
                            /\ inbox' = [inbox EXCEPT ![c] = <<"Connected", "InternalErr">>]
  <1>1. ASSUME Handshake(c)
        PROVE  inbox[c] = <<>> /\ inbox' = [inbox EXCEPT ![c] = <<"Connected">>]
    <2>1. inbox[c] = <<>> /\ inbox' = [inbox EXCEPT ![c] = Append(inbox[c], "Connected")]
      BY <1>1, Zenon DEF Handshake, Mailbox
    <2> QED
      BY <2>1, MailSent, Zenon
  <1>2. ASSUME Ends(c)
        PROVE  \/ inbox[c] = <<>> /\ inbox' = [inbox EXCEPT ![c] = <<"InternalErr">>]
               \/ /\ inbox[c] = <<"Connected">>
                  /\ inbox' = [inbox EXCEPT ![c] = <<"Connected", "InternalErr">>]
    <2>1. inbox' = [inbox EXCEPT ![c] = Append(inbox[c], "InternalErr")]
      BY <1>2, Zenon DEF Ends
    <2>2. inbox[c] = <<>> \/ inbox[c] = <<"Connected">>
      BY <1>2, Zenon DEF Ends, Mailbox
    <2> QED
      BY <2>1, <2>2, MailSent, Zenon
  <1> QED
    BY <1>1, <1>2

\* The Distributor takes the first event and leaves the second.
LEMMA EventTaken ==
    ASSUME TypeOK, NEW c \in Conn
    PROVE  /\ received(c, "Connected") =>
                  \/ inbox[c] = <<"Connected">> /\ inbox' = [inbox EXCEPT ![c] = <<>>]
                  \/ /\ inbox[c] = <<"Connected", "InternalErr">>
                     /\ inbox' = [inbox EXCEPT ![c] = <<"InternalErr">>]
           /\ received(c, "InternalErr") =>
                  inbox[c] = <<"InternalErr">> /\ inbox' = [inbox EXCEPT ![c] = <<>>]
  <1>1. inbox[c] \in Mail
    BY DEF TypeOK, Mail
  <1>2. ASSUME NEW m, received(c, m)
        PROVE  inbox[c] # <<>> /\ Head(inbox[c]) = m /\ inbox' = [inbox EXCEPT ![c] = Tail(inbox[c])]
    BY <1>2, Zenon DEF received
  <1>3. inbox[c] # <<>> =>
           /\ Head(inbox[c]) = "Connected" =>
                  \/ inbox[c] = <<"Connected">> /\ Tail(inbox[c]) = <<>>
                  \/ inbox[c] = <<"Connected", "InternalErr">> /\ Tail(inbox[c]) = <<"InternalErr">>
           /\ Head(inbox[c]) = "InternalErr" => inbox[c] = <<"InternalErr">> /\ Tail(inbox[c]) = <<>>
    BY <1>1, MailTaken, Zenon
  <1> QED
    BY <1>2, <1>3, Zenon

\* Only close touches the phase of a connection when the Distributor hears of it.
LEMMA HandlerPhase ==
    ASSUME TypeOK, NEW c \in Conn, NEW v, NEW ours, NEW declares,
           handleConnected(c, v, ours, declares) \/ handleInternalError(c)
    PROVE  /\ addr' = addr
           /\ \/ phase' = phase
              \/ phase[c] = "up" /\ phase' = [phase EXCEPT ![c] = "down"]
  <1>1. addr' = addr /\ (phase' = phase \/ close(c))
    BY DEF handleConnected, RegisterPeer, handleInternalError
  <1>2. ASSUME close(c)
        PROVE  phase' = phase \/ (phase[c] = "up" /\ phase' = [phase EXCEPT ![c] = "down"])
    BY <1>2 DEF close, TypeOK
  <1> QED
    BY <1>1, <1>2

ConnType ==
    /\ phase \in [Conn -> Phases] /\ \A c \in In : phase[c] # "returned"
    /\ addr \in [Conn -> Addr]
    /\ inbox \in [Conn -> Mail]

\* A goroutine goes from phase to phase and its events follow it.
LEMMA NextConns == TypeOK /\ Mailbox /\ [Next]_vars => ConnType' /\ Mailbox'
  <1> SUFFICES ASSUME TypeOK, Mailbox, [Next]_vars
               PROVE  ConnType' /\ Mailbox'
    OBVIOUS
  <1>0. ConnType
    BY DEF TypeOK, ConnType, Mail
  <1>m. {<<>>, <<"Connected">>, <<"InternalErr">>, <<"Connected", "InternalErr">>} \subseteq Mail
    BY DEF Mail
  <1>1. CASE UNCHANGED <<phase, addr, inbox>>
    BY <1>0, <1>1 DEF ConnType, Mailbox
  <1>2. CASE handleEvents
    <2>1. inbox' = inbox
      BY <1>2 DEF handleEvents, establishConnections
    <2>2. CASE UNCHANGED <<phase, addr>>
      BY <1>1, <2>1, <2>2
    <2>3. CASE /\ phase' \in [Conn -> Phases] /\ addr' \in [Conn -> Addr]
               /\ \A c \in Conn : \/ c \in Out /\ free(c) /\ phase'[c] = "started"
                                  \/ phase'[c] = phase[c]
      <3>1. ASSUME NEW c \in In PROVE phase'[c] # "returned"
        BY <1>0, <2>3 DEF ConnType, Conn
      <3>2. ASSUME NEW c \in Conn, free(c) PROVE inbox[c] = <<>>
        BY <3>2 DEF free
      <3> QED
        BY <1>0, <2>1, <2>3, <3>1, <3>2 DEF ConnType, Mailbox
    <2> QED
      BY <1>2, <2>2, <2>3, DialStep
  <1>3. ASSUME NEW c \in In, NEW a \in Addr, Accept(c, a)
        PROVE  ConnType' /\ Mailbox'
    BY <1>0, <1>3 DEF Accept, free, ConnType, Mailbox, Phases, Conn
  <1>4. ASSUME NEW c \in Conn, NEW p \in Phases, p = "returned" => c \in Out,
               phase' = [phase EXCEPT ![c] = p], addr' = addr, inbox' = inbox,
               p \in {"started", "handshake"} => inbox[c] = <<>>,
               p \in {"up", "down"} => inbox[c] \in {<<>>, <<"Connected">>},
               p \in {"free", "returned"} =>
                   inbox[c] \in {<<>>, <<"InternalErr">>, <<"Connected", "InternalErr">>}
        PROVE  ConnType' /\ Mailbox'
    BY <1>0, <1>4 DEF ConnType, Mailbox, Conn
  <1>5. ASSUME NEW c \in Conn, returns(c), phase[c] \in {"started", "handshake"},
               addr' = addr, inbox' = inbox
        PROVE  ConnType' /\ Mailbox'
    <2>1. inbox[c] = <<>>
      BY <1>5 DEF Mailbox
    <2>2. CASE c \in Out
      BY <1>4, <1>5, <2>1, <2>2 DEF returns, Phases
    <2>3. CASE c \notin Out
      BY <1>4, <1>5, <2>1, <2>3 DEF returns, Phases
    <2> QED
      BY <2>2, <2>3
  <1>6. ASSUME NEW c \in Conn, SuggestVersion(c)
        PROVE  ConnType' /\ Mailbox'
    <2>1. phase[c] = "started" /\ addr' = addr /\ inbox' = inbox
      BY <1>6 DEF SuggestVersion
    <2>2. CASE phase' = [phase EXCEPT ![c] = "handshake"]
      BY <1>4, <2>1, <2>2 DEF Phases, Mailbox
    <2> QED
      BY <1>5, <1>6, <2>1, <2>2, SuggestKeeps
  <1>7. ASSUME NEW c \in Conn, Handshake(c)
        PROVE  ConnType' /\ Mailbox'
    <2>1. inbox' = [inbox EXCEPT ![c] = <<"Connected">>] /\ addr' = addr
          /\ phase' = [phase EXCEPT ![c] = "up"]
      BY <1>7, EventsSent DEF Handshake
    <2> QED
      BY <1>0, <1>m, <2>1 DEF ConnType, Mailbox, Phases
  <1>8. ASSUME NEW c \in Conn, HandshakeFails(c) \/ SuggestVersionFails(c)
        PROVE  ConnType' /\ Mailbox'
    BY <1>5, <1>8 DEF HandshakeFails, SuggestVersionFails
  <1>9. ASSUME NEW c \in Conn, Lost(c)
        PROVE  ConnType' /\ Mailbox'
    BY <1>4, <1>9 DEF Lost, Mailbox, Phases
  <1>10. ASSUME NEW c \in Conn, Ends(c)
         PROVE  ConnType' /\ Mailbox'
    <2>1. PICK s \in {<<"InternalErr">>, <<"Connected", "InternalErr">>} :
              inbox' = [inbox EXCEPT ![c] = s]
      BY <1>10, EventsSent
    <2>2. addr' = addr /\ phase' = [phase EXCEPT ![c] = IF c \in Out THEN "returned" ELSE "free"]
      BY <1>10 DEF Ends, returns
    <2> QED
      BY <1>0, <1>m, <2>1, <2>2 DEF ConnType, Mailbox, Phases, Conn
  <1>11. ASSUME NEW c \in Conn, connectFailed(c)
         PROVE  ConnType' /\ Mailbox'
    BY <1>4, <1>11 DEF connectFailed, Mailbox, Phases
  <1>12. ASSUME NEW c \in Conn, handleInfoMessage(c)
         PROVE  ConnType' /\ Mailbox'
    <2>1. /\ addr' = addr
          /\ phase' = phase \/ (phase[c] = "up" /\ phase' = [phase EXCEPT ![c] = "down"])
      BY <1>12, HandlerPhase DEF handleInfoMessage
    <2>2. received(c, "Connected") \/ received(c, "InternalErr")
      BY <1>12 DEF handleInfoMessage, handleConnected, handleInternalError
    <2>3. \/ inbox[c] \in {<<"Connected">>, <<"InternalErr">>} /\ inbox' = [inbox EXCEPT ![c] = <<>>]
          \/ /\ inbox[c] = <<"Connected", "InternalErr">>
             /\ inbox' = [inbox EXCEPT ![c] = <<"InternalErr">>]
      BY <2>2, EventTaken
    <2>4. ConnType'
      <3>1. PICK s \in Mail : inbox' = [inbox EXCEPT ![c] = s]
        BY <1>m, <2>3
      <3>2. inbox' \in [Conn -> Mail]
        BY <1>0, <3>1 DEF ConnType
      <3>3. phase' \in [Conn -> Phases] /\ \A d \in In : phase'[d] # "returned"
        BY <1>0, <2>1 DEF ConnType, Phases, Conn
      <3> QED
        BY <1>0, <2>1, <3>2, <3>3 DEF ConnType
    <2>5. \A d \in Conn \ {c} : inbox'[d] = inbox[d] /\ phase'[d] = phase[d]
      BY <1>0, <2>1, <2>3 DEF ConnType
    <2>6. CASE inbox' = [inbox EXCEPT ![c] = <<>>]
      <3>1. inbox'[c] = <<>>
        BY <1>0, <2>6 DEF ConnType
      <3> QED
        BY <2>4, <2>5, <3>1 DEF Mailbox
    <2>7. CASE /\ inbox[c] = <<"Connected", "InternalErr">>
               /\ inbox' = [inbox EXCEPT ![c] = <<"InternalErr">>]
      <3>1. inbox'[c] = <<"InternalErr">>
        BY <1>0, <2>7 DEF ConnType
      <3>2. phase[c] \notin {"started", "handshake", "up", "down"}
        BY <2>7, MailDiffers, Zenon DEF Mailbox
      <3>3. phase'[c] \in {"free", "returned"}
        BY <1>0, <2>1, <3>2 DEF ConnType, Phases
      <3> QED
        BY <2>4, <2>5, <3>1, <3>3 DEF Mailbox
    <2> QED
      BY <2>3, <2>4, <2>6, <2>7
  <1>13. CASE Restart
    <2>1. /\ phase' = [c \in Conn |-> "free"] /\ addr' = addr
          /\ inbox' = [c \in Conn |-> <<>>]
      BY <1>13 DEF Restart
    <2>2. \A c \in Conn : inbox'[c] = <<>> /\ phase'[c] = "free"
      BY <2>1
    <2>3. ConnType'
      BY <1>0, <1>m, <2>1 DEF ConnType, Phases, Conn
    <2> QED
      BY <2>2, <2>3 DEF Mailbox
  <1> QED
    BY <1>1, <1>2, <1>3, <1>6, <1>7, <1>8, <1>9, <1>10, <1>11, <1>12, <1>13
       DEF Next, ConnectionStep, AppendAddresses, UpdatePeerScore, DelayPasses, vars

-----------------------------------------------------------------------------
(* Types                                                                   *)

\* RegisterPeer ends the attempt to dial an address and may list its connection.
LEMMA RegisterTables ==
    ASSUME NEW a, NEW c, NEW v, NEW ours, NEW declares, RegisterPeer(a, c, v, ours, declares)
    PROVE  pending' = pending \ {a} /\ (connections' = Put(connections, a, c) \/ UNCHANGED connections)
  BY Zenon DEF RegisterPeer

\* UnregisterPeer takes an address from both tables, or fails.
LEMMA UnregisterTables ==
    ASSUME NEW a, UnregisterPeer(a)
    PROVE  \/ /\ connections' = Delete(connections, a) /\ pending' = pending \ {a}
              /\ UNCHANGED broken
           \/ UNCHANGED <<connections, pending>> /\ broken'
  BY Zenon DEF UnregisterPeer

\* The tables in memory, the versions and the flags keep their types.
LEMMA NextTables ==
    TypeOK /\ [Next]_vars =>
        /\ connections' \in [DOMAIN connections' -> Conn] /\ DOMAIN connections' \subseteq Addr
        /\ pending' \subseteq Addr
        /\ version' \in [Conn -> Nat]
        /\ armed' \in BOOLEAN /\ broken' \in BOOLEAN
  <1> SUFFICES ASSUME TypeOK, [Next]_vars
               PROVE  /\ connections' \in [DOMAIN connections' -> Conn]
                      /\ DOMAIN connections' \subseteq Addr
                      /\ pending' \subseteq Addr
                      /\ version' \in [Conn -> Nat]
                      /\ armed' \in BOOLEAN /\ broken' \in BOOLEAN
    OBVIOUS
  <1>0. /\ connections \in [DOMAIN connections -> Conn] /\ DOMAIN connections \subseteq Addr
        /\ pending \subseteq Addr /\ available \subseteq Addr /\ addr \in [Conn -> Addr]
        /\ version \in [Conn -> Nat] /\ armed \in BOOLEAN /\ broken \in BOOLEAN
    BY DEF TypeOK, available
  <1>1. /\ connections' \in [DOMAIN connections' -> Conn] /\ DOMAIN connections' \subseteq Addr
        /\ pending' \subseteq Addr
    <2>1. CASE UNCHANGED <<connections, pending>>
      BY <1>0, <2>1
    <2>2. CASE Restart
      BY <2>2 DEF Restart, Empty
    <2>3. CASE handleEvents
      BY <1>0, <2>3 DEF handleEvents, establishConnections
    <2>4. ASSUME NEW c \in Conn, connectFailed(c) \/ handleInternalError(c)
          PROVE  /\ connections' \in [DOMAIN connections' -> Conn]
                 /\ DOMAIN connections' \subseteq Addr /\ pending' \subseteq Addr
      <3>1. \/ connections' = Delete(connections, addr[c]) /\ pending' = pending \ {addr[c]}
            \/ UNCHANGED <<connections, pending>>
        BY <2>4, UnregisterTables DEF connectFailed, handleInternalError
      <3> QED
        BY <1>0, <3>1 DEF Delete
    <2>5. ASSUME NEW c \in Conn, NEW v, NEW ours, NEW declares, handleConnected(c, v, ours, declares)
          PROVE  /\ connections' \in [DOMAIN connections' -> Conn]
                 /\ DOMAIN connections' \subseteq Addr /\ pending' \subseteq Addr
      <3>1. connections' = Put(connections, addr[c], c) \/ UNCHANGED connections
        BY <2>5, RegisterTables DEF handleConnected
      <3>2. pending' = pending \ {addr[c]}
        BY <2>5, RegisterTables DEF handleConnected
      <3> QED
        BY <1>0, <3>1, <3>2 DEF Put
    <2> QED
      BY <2>1, <2>2, <2>3, <2>4, <2>5
         DEF Next, ConnectionStep, handleInfoMessage, AppendAddresses, UpdatePeerScore, DelayPasses,
             Accept, SuggestVersion, SuggestVersionFails, Handshake, HandshakeFails, Lost, Ends,
             vars
  <1>2. version' \in [Conn -> Nat]
    <2>1. CASE UNCHANGED version
      BY <1>0, <2>1
    <2>2. CASE Restart
      BY <2>2 DEF Restart
    <2>3. ASSUME NEW c \in Conn, Handshake(c) \/ HandshakeFails(c)
          PROVE  version' \in [Conn -> Nat]
      BY <1>0, <2>3 DEF Handshake, HandshakeFails
    <2>4. ASSUME NEW c \in Conn, SuggestVersion(c)
          PROVE  version' \in [Conn -> Nat]
      BY <2>4, SuggestKeeps
    <2> QED
      BY <2>1, <2>2, <2>3, <2>4
         DEF Next, ConnectionStep, handleInfoMessage, AppendAddresses, UpdatePeerScore, DelayPasses,
             Accept, SuggestVersionFails, Lost, Ends, connectFailed, handleConnected,
             handleInternalError, handleEvents, establishConnections, vars
  <1>3. /\ armed' = armed \/ armed' = TRUE \/ armed' = FALSE
        /\ broken' = broken \/ broken' = TRUE \/ broken' = FALSE
    BY DEF Next, ConnectionStep, handleInfoMessage, AppendAddresses, UpdatePeerScore, DelayPasses,
           Accept, SuggestVersion, SuggestVersionFails, Handshake, HandshakeFails, Lost, Ends,
           connectFailed, handleConnected, RegisterPeer, handleInternalError, UnregisterPeer,
           handleEvents, establishConnections, Restart, vars
  <1>4. armed' \in BOOLEAN /\ broken' \in BOOLEAN
    BY <1>0, <1>3, Zenon
  <1> QED
    BY <1>1, <1>2, <1>4

\* Types are kept by every step.
LEMMA NextType == TypeOK /\ Mailbox /\ AddressKnown /\ [Next]_vars => TypeOK'
  <1> SUFFICES ASSUME TypeOK, Mailbox, AddressKnown, [Next]_vars
               PROVE  TypeOK'
    OBVIOUS
  <1>1. KeepsPeers(stored')
    BY NextStored
  <1>2. ConnType'
    BY NextConns
  <1> QED
    BY <1>1, <1>2, NextTables DEF KeepsPeers, ConnType, Mail, TypeOK

-----------------------------------------------------------------------------
(* Every address is stored before its handshake                            *)

\* An address stays known as long as anything is left to do for its connection.
LEMMA NextKnown ==
    TypeOK /\ Mailbox /\ AddressKnown /\ DialledStored /\ [Next]_vars
        => AddressKnown' /\ DialledStored'
  <1> SUFFICES ASSUME TypeOK, Mailbox, AddressKnown, DialledStored, [Next]_vars
               PROVE  AddressKnown' /\ DialledStored'
    OBVIOUS
  <1>0. ConnType /\ ConnType' /\ DOMAIN stored \subseteq DOMAIN stored'
    BY NextStored, NextConns DEF KeepsPeers, TypeOK, ConnType, Mail
  <1>1. CASE UNCHANGED <<phase, addr, inbox>>
    BY <1>0, <1>1 DEF AddressKnown, DialledStored
  <1>2. CASE handleEvents
    <2>1. inbox' = inbox
      BY <1>2 DEF handleEvents, establishConnections
    <2>2. available \subseteq DOMAIN stored
      BY DEF available
    <2>3. \A c \in Conn : free(c) => inbox[c] = <<>>
      BY DEF free
    <2>4. \A c \in Conn : \/ free(c) /\ phase'[c] = "started" /\ addr'[c] \in available
                          \/ phase'[c] = phase[c] /\ addr'[c] = addr[c]
      BY <1>2, DialStep
    <2> QED
      BY <1>0, <2>1, <2>2, <2>3, <2>4 DEF AddressKnown, DialledStored, Conn
  <1>3. ASSUME NEW c \in In, NEW a \in Addr, Accept(c, a)
        PROVE  AddressKnown' /\ DialledStored'
    BY <1>0, <1>3 DEF Accept, free, AddressKnown, DialledStored, ConnType, Conn
  <1>4. ASSUME NEW c \in Conn, addr' = addr, phase'[c] # "started",
               \A d \in Conn \ {c} : phase'[d] = phase[d] /\ inbox'[d] = inbox[d],
               \/ addr[c] \in DOMAIN stored'
               \/ phase'[c] = "free" /\ inbox'[c] = <<>>
        PROVE  AddressKnown' /\ DialledStored'
    BY <1>0, <1>4 DEF AddressKnown, DialledStored, Conn
  <1>5. ASSUME NEW c \in Conn, SuggestVersion(c) \/ SuggestVersionFails(c)
        PROVE  AddressKnown' /\ DialledStored'
    <2>1. phase[c] = "started" /\ addr' = addr /\ inbox' = inbox /\ inbox[c] = <<>>
      BY <1>5 DEF SuggestVersion, SuggestVersionFails, Mailbox
    <2>2. CASE phase' = [phase EXCEPT ![c] = "handshake"] /\ addr[c] \in DOMAIN stored'
      BY <1>0, <1>4, <2>1, <2>2 DEF ConnType
    <2>3. CASE returns(c)
      <3>1. phase' = [phase EXCEPT ![c] = IF c \in Out THEN "returned" ELSE "free"]
        BY <2>3 DEF returns
      <3>2. c \in Out => addr[c] \in DOMAIN stored'
        BY <1>0, <2>1 DEF DialledStored
      <3> QED
        BY <1>0, <1>4, <2>1, <3>1, <3>2 DEF ConnType
    <2> QED
      BY <1>5, <2>2, <2>3, SuggestKeeps DEF SuggestVersionFails
  <1>6. ASSUME NEW c \in Conn,
               \/ Handshake(c) \/ HandshakeFails(c) \/ Lost(c) \/ Ends(c) \/ connectFailed(c)
               \/ handleInfoMessage(c)
        PROVE  AddressKnown' /\ DialledStored'
    <2>1. addr[c] \in DOMAIN stored
      BY <1>6 DEF Handshake, HandshakeFails, Lost, Ends, connectFailed, handleInfoMessage,
                  handleConnected, handleInternalError, received, AddressKnown
    <2>2. addr' = addr
      BY <1>6 DEF Handshake, HandshakeFails, Lost, Ends, connectFailed, handleInfoMessage,
                  handleConnected, handleInternalError
    <2>3. CASE handleInfoMessage(c)
      <3>1. /\ phase' = phase \/ (phase[c] = "up" /\ phase' = [phase EXCEPT ![c] = "down"])
        BY <2>3, HandlerPhase DEF handleInfoMessage
      <3>2. inbox' = [inbox EXCEPT ![c] = Tail(inbox[c])] /\ inbox[c] # <<>>
        BY <2>3, Zenon DEF handleInfoMessage, handleConnected, handleInternalError, received
      <3>3. phase[c] # "started"
        BY <3>2, Zenon DEF Mailbox
      <3> HIDE DEF Mail
      <3>4. phase'[c] # "started"
        BY <1>0, <3>1, <3>3 DEF ConnType
      <3>5. \A d \in Conn \ {c} : phase'[d] = phase[d] /\ inbox'[d] = inbox[d]
        BY <1>0, <3>1, <3>2 DEF ConnType
      <3> QED
        BY <1>0, <1>4, <2>1, <2>2, <3>4, <3>5
    <2>4. CASE Handshake(c) \/ HandshakeFails(c) \/ Lost(c) \/ Ends(c) \/ connectFailed(c)
      <3>1. PICK p \in {"up", "down", "returned", "free"} : phase' = [phase EXCEPT ![c] = p]
        BY <2>4 DEF Handshake, HandshakeFails, Lost, Ends, connectFailed, returns
      <3>2. inbox' = inbox \/ \E s : inbox' = [inbox EXCEPT ![c] = s]
        BY <2>4 DEF Handshake, HandshakeFails, Lost, Ends, connectFailed
      <3>3. \A d \in Conn \ {c} : phase'[d] = phase[d] /\ inbox'[d] = inbox[d]
        BY <1>0, <3>1, <3>2 DEF ConnType
      <3>4. phase'[c] # "started"
        BY <1>0, <3>1 DEF ConnType
      <3> QED
        BY <1>0, <1>4, <2>1, <2>2, <3>3, <3>4
    <2> QED
      BY <1>6, <2>3, <2>4
  <1>7. CASE Restart
    BY <1>0, <1>7 DEF Restart, AddressKnown, DialledStored, Conn
  <1> QED
    BY <1>1, <1>2, <1>3, <1>5, <1>6, <1>7
       DEF Next, ConnectionStep, AppendAddresses, UpdatePeerScore, DelayPasses, vars

-----------------------------------------------------------------------------
(* Registered connections and pending addresses                            *)

EndMail == {<<"InternalErr">>, <<"Connected", "InternalErr">>}
StartMail == {<<"Connected">>, <<"Connected", "InternalErr">>}

\* What tells says of the events of a connection, before and after a step.
LEMMA TellsMail ==
    ASSUME ConnType, ConnType', NEW c \in Conn
    PROVE  /\ tells(c, "Connected") <=> inbox[c] \in StartMail
           /\ tells(c, "InternalErr") <=> inbox[c] \in EndMail
           /\ tells(c, "Connected")' <=> inbox'[c] \in StartMail
           /\ tells(c, "InternalErr")' <=> inbox'[c] \in EndMail
  <1>1. inbox[c] \in Mail /\ inbox'[c] \in Mail
    BY DEF ConnType
  <1>2. /\ tells(c, "Connected") <=> inbox[c] \in StartMail
        /\ tells(c, "InternalErr") <=> inbox[c] \in EndMail
    BY <1>1, MailTells, Zenon DEF tells, StartMail, EndMail
  <1>3. /\ tells(c, "Connected")' <=> inbox'[c] \in StartMail
        /\ tells(c, "InternalErr")' <=> inbox'[c] \in EndMail
    BY <1>1, MailTells, Zenon DEF tells, StartMail, EndMail
  <1> QED
    BY <1>2, <1>3

\* The end of a registered connection unregisters its address, and no goroutine is
\* started for a connection that is registered.
LEMMA NextRegistered == TypeOK /\ Mailbox /\ RegisteredEnds /\ [Next]_vars => RegisteredEnds'
  <1> SUFFICES ASSUME TypeOK, Mailbox, RegisteredEnds, [Next]_vars, ~broken',
                      NEW a \in DOMAIN connections'
               PROVE  (/\ addr[connections[a]] = a
                       /\ \/ phase[connections[a]] \in {"up", "down"}
                          \/ tells(connections[a], "InternalErr"))'
    BY DEF RegisteredEnds
  <1>0. ConnType /\ ConnType' /\ connections'[a] \in Conn
    BY NextConns, NextTables DEF TypeOK, ConnType, Mail
  <1> DEFINE c == connections'[a]
             Good(d, x) == addr[d] = x /\ (phase[d] \in {"up", "down"} \/ inbox[d] \in EndMail)
             Good2(d, x) == addr'[d] = x /\ (phase'[d] \in {"up", "down"} \/ inbox'[d] \in EndMail)
  <1>g. SUFFICES Good2(c, a)
    <2>1. c \in Conn /\ inbox'[c] \in Mail
      BY <1>0 DEF ConnType
    <2>2. inbox'[c] \in EndMail => \E i \in DOMAIN inbox'[c] : inbox'[c][i] = "InternalErr"
      BY <2>1, MailTells, Zenon DEF EndMail
    <2> QED
      BY <2>2, Zenon DEF tells
  <1>h. ASSUME ~broken, NEW x \in DOMAIN connections
        PROVE  connections[x] \in Conn /\ Good(connections[x], x)
    <2>1. connections[x] \in Conn
      BY DEF TypeOK
    <2> QED
      BY <1>0, <1>h, <2>1, TellsMail DEF RegisteredEnds
  <1>m. ASSUME NEW d \in Conn, phase[d] \in {"started", "handshake"}
        PROVE  inbox[d] \notin EndMail
    BY <1>m, MailDiffers DEF Mailbox, EndMail
  <1> HIDE DEF EndMail, c
  <1>1. ASSUME NEW d \in Conn, ~broken, addr' = addr, c \in Conn,
               a \in DOMAIN connections, c = connections[a],
               \A e \in Conn \ {d} : phase'[e] = phase[e] /\ inbox'[e] = inbox[e],
               Good(d, a) => phase'[d] \in {"up", "down"} \/ inbox'[d] \in EndMail
        PROVE  Good2(c, a)
    BY <1>1, <1>h
  <1>2. CASE UNCHANGED <<connections, broken, phase, addr, inbox>>
    BY <1>2, <1>h DEF c
  <1>3. CASE handleEvents
    <2>1. /\ inbox' = inbox /\ connections' = connections
          /\ \A d \in Conn : free(d) \/ (phase'[d] = phase[d] /\ addr'[d] = addr[d])
          /\ broken' = broken \/ broken'
      BY <1>3, DialStep DEF handleEvents, establishConnections
    <2>2. c = connections[a] /\ a \in DOMAIN connections /\ ~free(c) /\ ~broken
      BY <2>1 DEF free, c
    <2> QED
      BY <1>0, <1>h, <2>1, <2>2 DEF c
  <1>4. ASSUME NEW d \in In, NEW x \in Addr, Accept(d, x)
        PROVE  Good2(c, a)
    <2>1. /\ inbox' = inbox /\ connections' = connections /\ free(d) /\ ~broken
          /\ phase' = [phase EXCEPT ![d] = "started"] /\ addr' = [addr EXCEPT ![d] = x]
      BY <1>4 DEF Accept
    <2>2. c = connections[a] /\ a \in DOMAIN connections /\ c # d
      BY <2>1 DEF free, c
    <2>3. phase'[c] = phase[c] /\ addr'[c] = addr[c]
      BY <1>0, <2>1, <2>2 DEF ConnType, c
    <2> QED
      BY <1>h, <2>1, <2>2, <2>3
  <1>5. ASSUME NEW d \in Conn,
               SuggestVersion(d) \/ SuggestVersionFails(d) \/ Handshake(d) \/ HandshakeFails(d)
        PROVE  Good2(c, a)
    <2>1. /\ phase[d] \in {"started", "handshake"} /\ connections' = connections /\ addr' = addr
          /\ broken' = broken
      BY <1>5 DEF SuggestVersion, SuggestVersionFails, Handshake, HandshakeFails
    <2>2. ~Good(d, a)
      BY <2>1, <1>m
    <2>3. \E p : phase' = [phase EXCEPT ![d] = p]
      BY <1>5, SuggestKeeps DEF SuggestVersionFails, Handshake, HandshakeFails, returns
    <2>4. inbox' = inbox \/ \E s : inbox' = [inbox EXCEPT ![d] = s]
      BY <1>5 DEF SuggestVersion, SuggestVersionFails, Handshake, HandshakeFails
    <2>5. \A e \in Conn \ {d} : phase'[e] = phase[e] /\ inbox'[e] = inbox[e]
      BY <1>0, <2>3, <2>4 DEF ConnType
    <2>6. c \in Conn /\ a \in DOMAIN connections /\ c = connections[a] /\ ~broken
      BY <1>0, <2>1 DEF c
    <2> QED
      BY <1>1, <2>1, <2>2, <2>5, <2>6
  <1>6. ASSUME NEW d \in Conn, Lost(d) \/ Ends(d)
        PROVE  Good2(c, a)
    <2>1. connections' = connections /\ addr' = addr /\ broken' = broken
      BY <1>6 DEF Lost, Ends
    <2>2. \E p : phase' = [phase EXCEPT ![d] = p]
      BY <1>6 DEF Lost, Ends, returns
    <2>3. inbox' = inbox \/ \E s : inbox' = [inbox EXCEPT ![d] = s]
      BY <1>6 DEF Lost, Ends
    <2>4. \A e \in Conn \ {d} : phase'[e] = phase[e] /\ inbox'[e] = inbox[e]
      BY <1>0, <2>2, <2>3 DEF ConnType
    <2>5. c \in Conn /\ a \in DOMAIN connections /\ c = connections[a] /\ ~broken
      BY <1>0, <2>1 DEF c
    <2>6. phase'[d] = "down" \/ inbox'[d] \in EndMail
      <3>1. CASE Lost(d)
        BY <1>0, <3>1 DEF Lost, ConnType
      <3>2. CASE Ends(d)
        <4>1. \E s \in EndMail : inbox' = [inbox EXCEPT ![d] = s]
          BY <3>2, EventsSent DEF EndMail
        <4> QED
          BY <1>0, <4>1 DEF ConnType
      <3> QED
        BY <1>6, <3>1, <3>2
    <2> QED
      BY <1>1, <2>1, <2>4, <2>5, <2>6
  <1>7. ASSUME NEW d \in Conn, connectFailed(d) \/ handleInternalError(d)
        PROVE  Good2(c, a)
    <2>1. connections' = Delete(connections, addr[d]) /\ UNCHANGED broken
      BY <1>7, UnregisterTables DEF connectFailed, handleInternalError
    <2>2. a \in DOMAIN connections /\ a # addr[d] /\ c = connections[a] /\ ~broken
      BY <2>1 DEF Delete, c
    <2>3. \/ phase' = phase
          \/ \E p : phase' = [phase EXCEPT ![d] = p]
      BY <1>7, HandlerPhase DEF connectFailed
    <2>4. addr' = addr /\ (inbox' = inbox \/ \E s : inbox' = [inbox EXCEPT ![d] = s])
      BY <1>7 DEF connectFailed, handleInternalError, received
    <2>5. \A e \in Conn \ {d} : phase'[e] = phase[e] /\ inbox'[e] = inbox[e]
      BY <1>0, <2>3, <2>4 DEF ConnType
    <2>6. c \in Conn /\ ~Good(d, a)
      BY <1>0, <2>2 DEF c
    <2> QED
      BY <1>1, <2>2, <2>4, <2>5, <2>6
  <1>8. ASSUME NEW d \in Conn, NEW v, NEW ours, NEW declares, handleConnected(d, v, ours, declares)
        PROVE  Good2(c, a)
    <2>1. connections' = Put(connections, addr[d], d) \/ connections' = connections
      BY <1>8, RegisterTables DEF handleConnected
    <2>2. addr' = addr /\ ~broken /\ received(d, "Connected")
      BY <1>8 DEF handleConnected
    <2>3. phase' = phase \/ (phase[d] = "up" /\ phase' = [phase EXCEPT ![d] = "down"])
      BY <1>8, HandlerPhase
    <2>4. \/ inbox[d] = <<"Connected">> /\ inbox' = [inbox EXCEPT ![d] = <<>>]
          \/ /\ inbox[d] = <<"Connected", "InternalErr">>
             /\ inbox' = [inbox EXCEPT ![d] = <<"InternalErr">>]
      BY <2>2, EventTaken
    <2>5. \A e \in Conn \ {d} : phase'[e] = phase[e] /\ inbox'[e] = inbox[e]
      BY <1>0, <2>3, <2>4 DEF ConnType
    <2>6. phase'[d] \in {"up", "down"} \/ inbox'[d] \in EndMail
      <3>1. CASE inbox[d] = <<"Connected">>
        <4>1. phase[d] \notin {"started", "handshake", "free", "returned"}
          BY <3>1, MailDiffers, Zenon DEF Mailbox
        <4> QED
          BY <1>0, <2>3, <4>1 DEF ConnType, Phases
      <3>2. CASE inbox' = [inbox EXCEPT ![d] = <<"InternalErr">>]
        BY <1>0, <3>2 DEF ConnType, EndMail
      <3> QED
        BY <2>4, <3>1, <3>2
    <2>7. CASE a = addr[d] /\ c = d
      BY <2>2, <2>6, <2>7
    <2>8. CASE a \in DOMAIN connections /\ c = connections[a]
      BY <1>0, <1>1, <2>2, <2>5, <2>6, <2>8 DEF c
    <2> QED
      BY <2>1, <2>7, <2>8 DEF Put, c
  <1>9. CASE Restart
    BY <1>9 DEF Restart, Empty
  <1> QED
    BY <1>2, <1>3, <1>4, <1>5, <1>6, <1>7, <1>8, <1>9
       DEF Next, ConnectionStep, handleInfoMessage, AppendAddresses, UpdatePeerScore, DelayPasses, vars

\* A goroutine that answers for a pending address goes on until its connection is
\* handed to RegisterPeer or its address unregistered, which ends the pending.
LEMMA NextPending == TypeOK /\ Mailbox /\ PendingIsDialled /\ [Next]_vars => PendingIsDialled'
  <1> DEFINE Dials(c, a) == /\ addr[c] = a
                            /\ \/ phase[c] \in {"started", "handshake", "returned"}
                               \/ inbox[c] \in StartMail
             Dials2(c, a) == /\ addr'[c] = a
                             /\ \/ phase'[c] \in {"started", "handshake", "returned"}
                                \/ inbox'[c] \in StartMail
  <1> SUFFICES ASSUME TypeOK, Mailbox, PendingIsDialled, [Next]_vars
               PROVE  PendingIsDialled'
    OBVIOUS
  <1>0. ConnType /\ ConnType' /\ Out \subseteq Conn
    BY NextConns DEF TypeOK, ConnType, Mail, Conn
  <1>t. \A c \in Out : tells(c, "Connected")' <=> inbox'[c] \in StartMail
    BY <1>0, TellsMail
  <1> SUFFICES ASSUME ~broken', NEW a \in pending'
               PROVE  \E c \in Out : Dials2(c, a)
    BY <1>t DEF PendingIsDialled
  <1>h. ASSUME ~broken, a \in pending
        PROVE  \E c \in Out : Dials(c, a)
    BY <1>0, <1>h, TellsMail DEF PendingIsDialled
  <1> HIDE DEF StartMail
  <1>1. ASSUME NEW d \in Conn, ~broken, a \in pending, addr' = addr,
               \A e \in Conn \ {d} : phase'[e] = phase[e] /\ inbox'[e] = inbox[e],
               d \in Out /\ Dials(d, a) => Dials2(d, a)
        PROVE  \E c \in Out : Dials2(c, a)
    BY <1>0, <1>1, <1>h
  <1>2. CASE UNCHANGED <<pending, broken, phase, addr, inbox>>
    BY <1>2, <1>h
  <1>3. CASE handleEvents
    <2>1. /\ inbox' = inbox /\ broken' = broken /\ pending' = pending \cup available
          /\ \A d \in Conn : free(d) \/ (phase'[d] = phase[d] /\ addr'[d] = addr[d])
          /\ \A x \in available : \E d \in Out : phase'[d] = "started" /\ addr'[d] = x
      BY <1>3, DialStep DEF handleEvents, establishConnections
    <2>2. CASE a \in available
      BY <2>1, <2>2
    <2>3. CASE a \in pending
      <3>1. PICK d \in Out : Dials(d, a)
        BY <1>h, <2>1, <2>3
      <3>2. ~free(d)
        BY <3>1, MailDiffers DEF free, StartMail
      <3> QED
        BY <1>0, <2>1, <3>1, <3>2
    <2> QED
      BY <2>1, <2>2, <2>3
  <1>4. ASSUME NEW d \in In, NEW x \in Addr, Accept(d, x)
        PROVE  \E c \in Out : Dials2(c, a)
    <2>1. /\ inbox' = inbox /\ pending' = pending /\ ~broken
          /\ phase' = [phase EXCEPT ![d] = "started"] /\ addr' = [addr EXCEPT ![d] = x]
      BY <1>4 DEF Accept
    <2>2. \A c \in Out : phase'[c] = phase[c] /\ addr'[c] = addr[c]
      BY <1>0, <2>1 DEF ConnType
    <2> QED
      BY <1>h, <2>1, <2>2
  <1>5. ASSUME NEW d \in Conn, SuggestVersion(d) \/ SuggestVersionFails(d) \/ HandshakeFails(d)
        PROVE  \E c \in Out : Dials2(c, a)
    <2>1. /\ pending' = pending /\ addr' = addr /\ inbox' = inbox
          /\ broken' = broken
      BY <1>5 DEF SuggestVersion, SuggestVersionFails, HandshakeFails
    <2>2. \/ phase' = [phase EXCEPT ![d] = "handshake"]
          \/ phase' = [phase EXCEPT ![d] = IF d \in Out THEN "returned" ELSE "free"]
      BY <1>5, SuggestKeeps DEF SuggestVersionFails, HandshakeFails, returns
    <2>3. \A e \in Conn \ {d} : phase'[e] = phase[e] /\ inbox'[e] = inbox[e]
      BY <1>0, <2>1, <2>2 DEF ConnType
    <2>4. d \in Out => phase'[d] \in {"handshake", "returned"}
      BY <1>0, <2>2 DEF ConnType
    <2> QED
      BY <1>1, <2>1, <2>3, <2>4
  <1>6. ASSUME NEW d \in Conn, Handshake(d)
        PROVE  \E c \in Out : Dials2(c, a)
    <2>1. /\ pending' = pending /\ addr' = addr /\ broken' = broken
          /\ phase' = [phase EXCEPT ![d] = "up"] /\ inbox' = [inbox EXCEPT ![d] = <<"Connected">>]
      BY <1>6, EventsSent DEF Handshake
    <2>2. \A e \in Conn \ {d} : phase'[e] = phase[e] /\ inbox'[e] = inbox[e]
      BY <1>0, <2>1 DEF ConnType
    <2>3. inbox'[d] \in StartMail
      BY <1>0, <2>1 DEF ConnType, StartMail
    <2> QED
      BY <1>1, <2>1, <2>2, <2>3
  <1>7. ASSUME NEW d \in Conn, Lost(d)
        PROVE  \E c \in Out : Dials2(c, a)
    <2>1. /\ pending' = pending /\ addr' = addr /\ broken' = broken /\ inbox' = inbox
          /\ phase[d] = "up" /\ phase' = [phase EXCEPT ![d] = "down"]
      BY <1>7 DEF Lost
    <2>2. \A e \in Conn \ {d} : phase'[e] = phase[e] /\ inbox'[e] = inbox[e]
      BY <1>0, <2>1 DEF ConnType
    <2> QED
      BY <1>1, <2>1, <2>2
  <1>8. ASSUME NEW d \in Conn, Ends(d)
        PROVE  \E c \in Out : Dials2(c, a)
    <2>1. /\ pending' = pending /\ addr' = addr /\ broken' = broken
          /\ phase' = [phase EXCEPT ![d] = IF d \in Out THEN "returned" ELSE "free"]
      BY <1>8 DEF Ends, returns
    <2>2. \E s : inbox' = [inbox EXCEPT ![d] = s]
      BY <1>8 DEF Ends
    <2>3. \A e \in Conn \ {d} : phase'[e] = phase[e] /\ inbox'[e] = inbox[e]
      BY <1>0, <2>1, <2>2 DEF ConnType
    <2>4. d \in Out => phase'[d] = "returned"
      BY <1>0, <2>1 DEF ConnType
    <2> QED
      BY <1>1, <2>1, <2>3, <2>4
  <1>9. ASSUME NEW d \in Conn,
               \/ connectFailed(d) \/ handleInternalError(d)
               \/ \E v, ours, declares : handleConnected(d, v, ours, declares)
        PROVE  \E c \in Out : Dials2(c, a)
    <2>1. pending' = pending \ {addr[d]} /\ broken' = broken
      BY <1>9, UnregisterTables, RegisterTables
         DEF connectFailed, handleInternalError, handleConnected
    <2>2. phase' = phase \/ \E p : phase' = [phase EXCEPT ![d] = p]
      BY <1>9, HandlerPhase DEF connectFailed
    <2>3. addr' = addr /\ (inbox' = inbox \/ \E s : inbox' = [inbox EXCEPT ![d] = s])
      BY <1>9 DEF connectFailed, handleInternalError, handleConnected, received
    <2>4. \A e \in Conn \ {d} : phase'[e] = phase[e] /\ inbox'[e] = inbox[e]
      BY <1>0, <2>2, <2>3 DEF ConnType
    <2>5. a \in pending /\ ~Dials(d, a)
      BY <2>1
    <2> QED
      BY <1>1, <2>1, <2>3, <2>4, <2>5
  <1>10. CASE Restart
    BY <1>10 DEF Restart
  <1> QED
    BY <1>2, <1>3, <1>4, <1>5, <1>6, <1>7, <1>8, <1>9, <1>10
       DEF Next, ConnectionStep, handleInfoMessage, AppendAddresses, UpdatePeerScore, DelayPasses, vars

-----------------------------------------------------------------------------
(* Versions of peers and of their handshakes                               *)

\* A table of peers that has forgotten no peer, that a node has been seen, or what
\* version it has then.
KeepsVersions(table_) ==
    /\ DOMAIN stored \subseteq DOMAIN table_
    /\ \A a \in DOMAIN table_ : table_[a].state # "Unknown" => table_[a].version \in NodeVersions
    /\ \A a \in DOMAIN stored : stored[a].state # "Unknown" => table_[a].state # "Unknown"

\* One peer is written.
LEMMA WriteVersion ==
    ASSUME Learned, NEW a, NEW r,
           r.state # "Unknown" => r.version \in NodeVersions,
           a \in DOMAIN stored /\ stored[a].state # "Unknown" => r.state # "Unknown"
    PROVE  /\ KeepsVersions(Put(stored, a, r))
           /\ a \in DOMAIN stored => KeepsVersions([stored EXCEPT ![a] = r])
  <1>1. KeepsVersions(Put(stored, a, r))
    BY DEF KeepsVersions, Put, Learned
  <1>2. a \in DOMAIN stored => KeepsVersions([stored EXCEPT ![a] = r])
    BY DEF KeepsVersions, Learned
  <1> QED
    BY <1>1, <1>2

\* What the writes do to the state and the version of a record.
LEMMA WrittenVersion ==
    ASSUME NEW p \in PeerRecord, NEW v, NEW d
    PROVE  /\ [p EXCEPT !.due = d].state = p.state /\ [p EXCEPT !.due = d].version = p.version
           /\ [p EXCEPT !.score = d].state = p.state /\ [p EXCEPT !.score = d].version = p.version
           /\ [p EXCEPT !.version = v, !.due = d].state = p.state
           /\ [p EXCEPT !.state = "Hostile", !.version = v].state = "Hostile"
           /\ [p EXCEPT !.state = "Hostile", !.version = v].version = v
  BY DEF PeerRecord

\* A registered peer is connected, with the version of its handshake.
LEMMA RegisteredVersion ==
    ASSUME NEW p \in PeerRecord, NEW v, NEW declares
    PROVE  /\ registered(p, v, declares).state = "Connected"
           /\ registered(p, v, declares).version = v
  BY DEF registered, PeerRecord

\* Only RegisterPeer says that a node has been seen, with the version of its
\* handshake, and nothing unsays it.
LEMMA NextLearned ==
    TypeOK /\ AddressKnown /\ Learned /\ [Next]_vars => KeepsVersions(stored')
  <1> SUFFICES ASSUME TypeOK, AddressKnown, Learned, [Next]_vars
               PROVE  KeepsVersions(stored')
    OBVIOUS
  <1>0. \A a \in DOMAIN stored : stored[a] \in PeerRecord
    BY DEF TypeOK
  <1>1. CASE UNCHANGED stored
    BY <1>1 DEF KeepsVersions, Learned
  <1>2. ASSUME NEW list \in SUBSET Addr, NEW port \in BOOLEAN, AppendAddresses(list, port)
        PROVE  KeepsVersions(stored')
    <2>1. PICK prefix \in SUBSET list :
              stored' = PutAll(stored, [x \in prefix \ DOMAIN stored |-> Unknown(port, 0, TRUE)])
      BY <1>2 DEF AppendAddresses
    <2>2. Unknown(port, 0, TRUE).state = "Unknown"
      BY DEF Unknown
    <2> QED
      BY <2>1, <2>2 DEF PutAll, KeepsVersions, Learned
  <1>3. ASSUME NEW a \in DOMAIN stored, NEW r, stored' = [stored EXCEPT ![a] = r],
               r.state = stored[a].state, r.version = stored[a].version
        PROVE  KeepsVersions(stored')
    BY <1>3, WriteVersion DEF Learned
  <1>4. ASSUME NEW a \in Addr, UpdatePeerScore(a) \/ DelayPasses(a)
        PROVE  KeepsVersions(stored')
    <2>1. CASE UpdatePeerScore(a)
      <3> DEFINE r == [stored[a] EXCEPT !.score = TRUE]
      <3>1. a \in DOMAIN stored /\ stored' = [stored EXCEPT ![a] = r]
        BY <2>1 DEF UpdatePeerScore
      <3>2. r.state = stored[a].state /\ r.version = stored[a].version
        BY <1>0, <3>1, WrittenVersion
      <3> HIDE DEF r
      <3> QED
        BY <1>3, <3>1, <3>2
    <2>2. CASE DelayPasses(a)
      <3> DEFINE r == [stored[a] EXCEPT !.due = TRUE]
      <3>1. a \in DOMAIN stored /\ stored' = [stored EXCEPT ![a] = r]
        BY <2>2 DEF DelayPasses
      <3>2. r.state = stored[a].state /\ r.version = stored[a].version
        BY <1>0, <3>1, WrittenVersion
      <3> HIDE DEF r
      <3> QED
        BY <1>3, <3>1, <3>2
    <2> QED
      BY <1>4, <2>1, <2>2
  <1>5. ASSUME NEW c \in Conn, SuggestVersion(c)
        PROVE  KeepsVersions(stored')
    <2> DEFINE a == addr[c]
               u == Unknown(FALSE, bestVersion, FALSE)
               r == [stored[a] EXCEPT !.version = nextVersion(stored[a].version), !.due = FALSE]
    <2>1. \/ a \notin DOMAIN stored /\ stored' = Put(stored, a, u)
          \/ /\ a \in DOMAIN stored /\ stored[a].state = "Unknown"
             /\ stored' = [stored EXCEPT ![a] = r]
          \/ UNCHANGED stored
      BY <1>5 DEF SuggestVersion
    <2>2. u.state = "Unknown"
      BY DEF Unknown
    <2>3. a \in DOMAIN stored => r.state = stored[a].state
      BY <1>0, WrittenVersion
    <2> HIDE DEF a, u, r
    <2>4. CASE a \notin DOMAIN stored /\ stored' = Put(stored, a, u)
      BY <2>2, <2>4, WriteVersion
    <2>5. CASE /\ a \in DOMAIN stored /\ stored[a].state = "Unknown"
               /\ stored' = [stored EXCEPT ![a] = r]
      BY <2>3, <2>5, WriteVersion
    <2> QED
      BY <1>1, <2>1, <2>4, <2>5
  <1>6. ASSUME NEW c \in Conn, connectFailed(c) \/ handleInternalError(c)
        PROVE  KeepsVersions(stored')
    <2> DEFINE a == addr[c]
               r == [stored[a] EXCEPT !.due = FALSE]
    <2>1. a \in DOMAIN stored /\ (stored' = Put(stored, a, r) \/ UNCHANGED stored)
      BY <1>6 DEF connectFailed, handleInternalError, received, AddressKnown, UnregisterPeer, putPeer
    <2>2. r.state = stored[a].state /\ r.version = stored[a].version
      BY <1>0, <2>1, WrittenVersion
    <2> HIDE DEF a, r
    <2> QED
      BY <1>1, <2>1, <2>2, WriteVersion DEF Learned
  <1>7. ASSUME NEW c \in Conn, NEW v \in NodeVersions, NEW ours \in BOOLEAN,
               NEW declares \in Declarations, handleConnected(c, v, ours, declares)
        PROVE  KeepsVersions(stored')
    <2> DEFINE a == addr[c]
               h == [stored[a] EXCEPT !.state = "Hostile", !.version = v]
               r == registered(stored[a], v, declares)
    <2>1. a \in DOMAIN stored
      BY <1>7 DEF handleConnected, received, AddressKnown
    <2>2. \/ stored' = [stored EXCEPT ![a] = h]
          \/ stored' = [stored EXCEPT ![a] = r]
          \/ stored' = stored
      BY <1>7, <2>1 DEF handleConnected, RegisterPeer
    <2>3. h.state = "Hostile" /\ h.version = v
      BY <1>0, <2>1, WrittenVersion
    <2>4. r.state = "Connected" /\ r.version = v
      BY <1>0, <2>1, RegisteredVersion
    <2> HIDE DEF a, h, r
    <2>5. CASE stored' = [stored EXCEPT ![a] = h]
      BY <2>1, <2>3, <2>5, WriteVersion
    <2>6. CASE stored' = [stored EXCEPT ![a] = r]
      BY <2>1, <2>4, <2>6, WriteVersion
    <2> QED
      BY <1>1, <2>2, <2>5, <2>6
  <1> QED
    BY <1>1, <1>2, <1>4, <1>5, <1>6, <1>7
       DEF Next, ConnectionStep, handleInfoMessage, Accept, Handshake, HandshakeFails, Lost, Ends,
           handleEvents, establishConnections, SuggestVersionFails, Restart, vars

\* A handshake begins with SuggestVersion, which looks at the state of the peer.
LEMMA NextOffered ==
    TypeOK /\ Mailbox /\ AddressKnown /\ Learned /\ VersionOffered /\ [Next]_vars
        => VersionOffered'
  <1> SUFFICES ASSUME TypeOK, Mailbox, AddressKnown, Learned, VersionOffered, [Next]_vars,
                      NEW c \in Conn, phase'[c] = "handshake"
               PROVE  \/ version'[c] \in Range(Versions)
                      \/ version'[c] \in NodeVersions /\ stored'[addr'[c]].state # "Unknown"
    BY DEF VersionOffered
  <1>0. ConnType /\ version \in [Conn -> Nat] /\ KeepsVersions(stored')
    BY NextLearned DEF TypeOK, ConnType, Mail
  <1>1. CASE phase[c] = "handshake" /\ version'[c] = version[c] /\ addr'[c] = addr[c]
    BY <1>0, <1>1 DEF VersionOffered, AddressKnown, KeepsVersions
  <1>2. CASE UNCHANGED <<phase, version, addr>>
    BY <1>1, <1>2
  <1>3. CASE handleEvents
    <2>1. version' = version
      BY <1>3 DEF handleEvents, establishConnections
    <2>2. phase'[c] = phase[c] /\ addr'[c] = addr[c]
      BY <1>3, DialStep
    <2> QED
      BY <1>1, <2>1, <2>2
  <1>4. ASSUME NEW d \in In, NEW x \in Addr, Accept(d, x)
        PROVE  phase[c] = "handshake" /\ version'[c] = version[c] /\ addr'[c] = addr[c]
    BY <1>0, <1>4 DEF Accept, ConnType, Conn
  <1>5. ASSUME NEW d \in Conn, NEW p, p # "handshake", phase' = [phase EXCEPT ![d] = p],
               addr' = addr, version' = version \/ version' = [version EXCEPT ![d] = 0]
        PROVE  phase[c] = "handshake" /\ version'[c] = version[c] /\ addr'[c] = addr[c]
    BY <1>0, <1>5 DEF ConnType
  <1>6. ASSUME NEW d \in Conn,
               \/ SuggestVersionFails(d) \/ Handshake(d) \/ HandshakeFails(d) \/ Lost(d) \/ Ends(d)
               \/ connectFailed(d)
        PROVE  phase[c] = "handshake" /\ version'[c] = version[c] /\ addr'[c] = addr[c]
    <2>1. PICK p \in {"up", "down", "returned", "free"} : phase' = [phase EXCEPT ![d] = p]
      BY <1>6 DEF SuggestVersionFails, Handshake, HandshakeFails, Lost, Ends, connectFailed, returns
    <2>2. addr' = addr /\ (version' = version \/ version' = [version EXCEPT ![d] = 0])
      BY <1>6 DEF SuggestVersionFails, Handshake, HandshakeFails, Lost, Ends, connectFailed
    <2> QED
      BY <1>5, <2>1, <2>2
  <1>7. ASSUME NEW d \in Conn, handleInfoMessage(d)
        PROVE  phase[c] = "handshake" /\ version'[c] = version[c] /\ addr'[c] = addr[c]
    <2>1. /\ addr' = addr
          /\ phase' = phase \/ (phase[d] = "up" /\ phase' = [phase EXCEPT ![d] = "down"])
      BY <1>7, HandlerPhase DEF handleInfoMessage
    <2>2. version' = version
      BY <1>7 DEF handleInfoMessage, handleConnected, handleInternalError
    <2> QED
      BY <1>5, <2>1, <2>2
  <1>8. ASSUME NEW d \in Conn, SuggestVersion(d)
        PROVE  \/ phase[c] = "handshake" /\ version'[c] = version[c] /\ addr'[c] = addr[c]
               \/ version'[c] \in Range(Versions)
               \/ version'[c] \in NodeVersions /\ stored'[addr'[c]].state # "Unknown"
    <2>1. addr' = addr
      BY <1>8 DEF SuggestVersion
    <2>2. CASE returns(d) /\ version' = version
      BY <1>5, <2>1, <2>2 DEF returns
    <2>3. ASSUME NEW v, version' = [version EXCEPT ![d] = v], phase' = [phase EXCEPT ![d] = "handshake"]
          PROVE  /\ c # d => phase[c] = "handshake" /\ version'[c] = version[c]
                 /\ version'[d] = v
      BY <1>0, <2>3 DEF ConnType
    <2>4. CASE /\ version' = [version EXCEPT ![d] = bestVersion]
               /\ phase' = [phase EXCEPT ![d] = "handshake"]
      BY <2>1, <2>3, <2>4, BestVersionSupported
    <2>5. CASE /\ version' = [version EXCEPT ![d] = nextVersion(stored[addr[d]].version)]
               /\ phase' = [phase EXCEPT ![d] = "handshake"]
      <3> DEFINE n == nextVersion(stored[addr[d]].version)
      <3>1. n \in Range(Versions)
        BY NextVersionSupported
      <3>2. version' = [version EXCEPT ![d] = n] /\ phase' = [phase EXCEPT ![d] = "handshake"]
        BY <2>5
      <3> HIDE DEF n
      <3> QED
        BY <2>1, <2>3, <3>1, <3>2
    <2>6. CASE /\ addr[d] \in DOMAIN stored /\ stored[addr[d]].state = "Connected"
               /\ version' = [version EXCEPT ![d] = stored[addr[d]].version]
               /\ phase' = [phase EXCEPT ![d] = "handshake"] /\ stored' = stored
      <3>1. stored[addr[d]].version \in NodeVersions /\ stored'[addr[d]].state # "Unknown"
        BY <2>6 DEF Learned
      <3> QED
        BY <2>1, <2>3, <2>6, <3>1
    <2> QED
      BY <1>8, <2>2, <2>4, <2>5, <2>6, Zenon DEF SuggestVersion
  <1>9. CASE Restart
    BY <1>9 DEF Restart
  <1> QED
    BY <1>1, <1>2, <1>3, <1>4, <1>6, <1>7, <1>8, <1>9
       DEF Next, ConnectionStep, AppendAddresses, UpdatePeerScore, DelayPasses, vars

-----------------------------------------------------------------------------
(* Safety of the registry                                                  *)

\* The initial states satisfy the invariant.
LEMMA InitSafe == Init => SafeInv
  <1> SUFFICES ASSUME Init PROVE SafeInv
    OBVIOUS
  <1>1. /\ phase = [c \in Conn |-> "free"] /\ inbox = [c \in Conn |-> <<>>]
        /\ version = [c \in Conn |-> 0] /\ addr \in [Conn -> Addr]
        /\ stored = Empty /\ connections = Empty /\ pending = {}
    BY DEF Init
  <1>2. armed = TRUE /\ broken = FALSE
    BY DEF Init
  <1>3. armed \in BOOLEAN /\ broken \in BOOLEAN
    BY <1>2, Zenon
  <1>4. \A c \in Conn : phase[c] = "free" /\ inbox[c] = <<>>
    BY <1>1
  <1>5. /\ stored \in [DOMAIN stored -> PeerRecord] /\ DOMAIN stored \subseteq Addr
        /\ connections \in [DOMAIN connections -> Conn] /\ DOMAIN connections = {}
    BY <1>1 DEF Empty
  <1>6. phase \in [Conn -> Phases] /\ version \in [Conn -> Nat]
    BY <1>1 DEF Phases
  <1>7. <<>> \in Mail
    BY DEF Mail
  <1>8. inbox \in [Conn -> Mail]
    BY <1>1, <1>7
  <1>9. TypeOK
    BY <1>1, <1>3, <1>4, <1>5, <1>6, <1>8 DEF TypeOK, Mail, Conn
  <1>10. Mailbox /\ DialledStored /\ AddressKnown
    BY <1>4 DEF Mailbox, DialledStored, AddressKnown, Conn
  <1>11. RegisteredEnds /\ PendingIsDialled
    BY <1>1, <1>5 DEF RegisteredEnds, PendingIsDialled
  <1>12. Learned /\ VersionOffered
    BY <1>1, <1>4 DEF Learned, VersionOffered, Empty
  <1> QED
    BY <1>9, <1>10, <1>11, <1>12 DEF SafeInv

\* SafeInv is an invariant of the registry, with failures of the storage and
\* restarts at any moment.
THEOREM Invariance == Spec => []SafeInv
  <1>1. SafeInv /\ [Next]_vars => SafeInv'
    <2>1. SafeInv /\ [Next]_vars => Learned'
      BY NextLearned DEF SafeInv, KeepsVersions, Learned
    <2> QED
      BY <2>1, NextType, NextConns, NextKnown, NextRegistered, NextPending, NextOffered DEF SafeInv
  <1> QED
    BY <1>1, InitSafe, PTL DEF Spec

\* The tables of the registry and the phases, versions and events of connections
\* have their types.
THEOREM TypeCorrect == Spec => []TypeOK
  <1>1. SafeInv => TypeOK
    BY DEF SafeInv
  <1> QED
    BY <1>1, Invariance, PTL

\* RegisterPeer and UnregisterPeer find the peer of a connection in the storage,
\* because SuggestVersion has stored it before the handshake.
THEOREM AddressesKnown == Spec => []AddressKnown
  <1>1. SafeInv => AddressKnown
    BY DEF SafeInv
  <1> QED
    BY <1>1, Invariance, PTL

\* A connection that has ended is unregistered, or the Distributor is still to be
\* told of its end, however RegisterPeer and UnregisterPeer interleave.
THEOREM RegisteredConnectionsEnd == Spec => []RegisteredEnds
  <1>1. SafeInv => RegisteredEnds
    BY DEF SafeInv
  <1> QED
    BY <1>1, Invariance, PTL

\* Some goroutine of Respawn still answers for every pending address: none is kept
\* from being dialled for good.
THEOREM PendingAddressesDialled == Spec => []PendingIsDialled
  <1>1. SafeInv => PendingIsDialled
    BY DEF SafeInv
  <1> QED
    BY <1>1, Invariance, PTL

\* A handshake offers a supported version, or to a node that has been seen the
\* version of a handshake of its own, whatever list of versions is configured and
\* whoever changes the record of the peer in between (SuggestVersion, RegisterPeer).
THEOREM VersionsOffered == Spec => []VersionOffered
  <1>1. SafeInv => VersionOffered
    BY DEF SafeInv
  <1> QED
    BY <1>1, Invariance, PTL

\* No step of the registry, no restart and no failure of the storage loses a score.
THEOREM ScoresKept == Spec => ScoreKept
  <1>1. SafeInv /\ [Next]_vars =>
           \A a \in DOMAIN stored : stored[a].score => a \in DOMAIN stored' /\ stored'[a].score
    BY NextStored DEF SafeInv, KeepsPeers
  <1> QED
    BY <1>1, Invariance, PTL DEF Spec, ScoreKept
=============================================================================
