--------------------------- MODULE ApiDocsProofs ---------------------------
(***************************************************************************)
(* The routes of the server against the description of the API, for every  *)
(* value that a user enters for the parameters of a path.                  *)
(***************************************************************************)
EXTENDS ApiDocs, SequenceTheorems, TLAPS

\* Neither the empty segment nor a parameter is the name of anything.
LEMMA Names ==
    /\ Blank # "peers" /\ Blank # "all" /\ Blank # "friendly" /\ Blank # "connections"
    /\ Blank # "heads" /\ Blank # "leashes" /\ Blank # "status" /\ Blank # "forks"
    /\ Blank # "active-forks" /\ Blank # "fork" /\ Blank # "index.html"
    /\ Param # "peers" /\ Param # "all" /\ Param # "friendly" /\ Param # "connections"
    /\ Param # "heads" /\ Param # "leashes" /\ Param # "status" /\ Param # "forks"
    /\ Param # "active-forks" /\ Param # "fork"
  BY Zenon DEF Blank, Param

\* The operations of the description, which are the handlers of api.go.
LEMMA OperationsAre ==
    Operations = {"peers", "friendly", "connections", "heads", "leashes", "status", "forks",
                  "activeForks", "fork", "forkGenerators"}
  BY DEF Operations, Routes

-----------------------------------------------------------------------------
(* Routing                                                                 *)

\* The path of an operation below the mount point.
Below(v) ==
    [peers |-> <<"peers", "all">>, friendly |-> <<"peers", "friendly">>,
     connections |-> <<"connections">>, heads |-> <<"heads">>, leashes |-> <<"leashes">>,
     status |-> <<"status">>, forks |-> <<"forks">>, activeForks |-> <<"active-forks">>,
     fork |-> <<"fork", v>>, forkGenerators |-> <<"forks", v, "generators", v>>]

\* The number of segments of a route and the first of them tell almost all apart.
segments == [op \in Operations |-> IF op \in {"peers", "friendly", "fork"} THEN 2
                                   ELSE IF op = "forkGenerators" THEN 4 ELSE 1]

first ==
    [peers |-> "peers", friendly |-> "peers", connections |-> "connections", heads |-> "heads",
     leashes |-> "leashes", status |-> "status", forks |-> "forks",
     activeForks |-> "active-forks", fork |-> "fork", forkGenerators |-> "fork"]

\* The routes of api.go and the documented paths, segment by segment.
LEMMA Shapes ==
    ASSUME NEW v, NEW op \in Operations
    PROVE  /\ Len(Routes[op]) = segments[op] /\ Routes[op][1] = first[op]
           /\ Len(Below(v)[op]) = segments[op] /\ DOMAIN Below(v)[op] = 1..segments[op]
           /\ Below(v)[op][1] = IF op = "forkGenerators" THEN "forks" ELSE first[op]
           /\ op = "peers" => Routes[op][2] = "all" /\ Below(v)[op][2] = "all"
           /\ op = "friendly" => Routes[op][2] = "friendly" /\ Below(v)[op][2] = "friendly"
  <1>1. CASE op = "peers"
    BY <1>1 DEF Routes, Below, segments, first
  <1>2. CASE op = "friendly"
    BY <1>2 DEF Routes, Below, segments, first
  <1>3. CASE op = "connections"
    BY <1>3 DEF Routes, Below, segments, first
  <1>4. CASE op = "heads"
    BY <1>4 DEF Routes, Below, segments, first
  <1>5. CASE op = "leashes"
    BY <1>5 DEF Routes, Below, segments, first
  <1>6. CASE op = "status"
    BY <1>6 DEF Routes, Below, segments, first
  <1>7. CASE op = "forks"
    BY <1>7 DEF Routes, Below, segments, first
  <1>8. CASE op = "activeForks"
    BY <1>8 DEF Routes, Below, segments, first
  <1>9. CASE op = "fork"
    BY <1>9 DEF Routes, Below, segments, first
  <1>10. CASE op = "forkGenerators"
    BY <1>10 DEF Routes, Below, segments, first
  <1> QED
    BY <1>1, <1>2, <1>3, <1>4, <1>5, <1>6, <1>7, <1>8, <1>9, <1>10, OperationsAre

\* Every documented path is below the mount point.
LEMMA Mounted ==
    ASSUME NEW v, NEW op \in Operations
    PROVE  Head(Paths(v)[op]) = "api" /\ Tail(Paths(v)[op]) = Below(v)[op]
  <1>1. CASE op = "peers"
    BY <1>1 DEF Paths, Below
  <1>2. CASE op = "friendly"
    BY <1>2 DEF Paths, Below
  <1>3. CASE op = "connections"
    BY <1>3 DEF Paths, Below
  <1>4. CASE op = "heads"
    BY <1>4 DEF Paths, Below
  <1>5. CASE op = "leashes"
    BY <1>5 DEF Paths, Below
  <1>6. CASE op = "status"
    BY <1>6 DEF Paths, Below
  <1>7. CASE op = "forks"
    BY <1>7 DEF Paths, Below
  <1>8. CASE op = "activeForks"
    BY <1>8 DEF Paths, Below
  <1>9. CASE op = "fork"
    BY <1>9 DEF Paths, Below
  <1>10. CASE op = "forkGenerators"
    BY <1>10 DEF Paths, Below
  <1> QED
    BY <1>1, <1>2, <1>3, <1>4, <1>5, <1>6, <1>7, <1>8, <1>9, <1>10, OperationsAre

\* A documented path is matched by the route of its operation.
LEMMA OwnRoute ==
    ASSUME NEW v, v # Blank, NEW op \in Operations, op # "forkGenerators"
    PROVE  matches(Below(v)[op], Routes[op])
  <1>1. CASE op = "peers"
    BY <1>1 DEF Below, Routes, matches
  <1>2. CASE op = "friendly"
    BY <1>2 DEF Below, Routes, matches
  <1>3. CASE op = "connections"
    BY <1>3 DEF Below, Routes, matches
  <1>4. CASE op = "heads"
    BY <1>4 DEF Below, Routes, matches
  <1>5. CASE op = "leashes"
    BY <1>5 DEF Below, Routes, matches
  <1>6. CASE op = "status"
    BY <1>6 DEF Below, Routes, matches
  <1>7. CASE op = "forks"
    BY <1>7 DEF Below, Routes, matches
  <1>8. CASE op = "activeForks"
    BY <1>8 DEF Below, Routes, matches
  <1>9. CASE op = "fork"
    BY <1>9 DEF Below, Routes, matches
  <1>10. CASE op = "forkGenerators"
    BY <1>10 DEF Below, Routes, matches
  <1> QED
    BY <1>1, <1>2, <1>3, <1>4, <1>5, <1>6, <1>7, <1>8, <1>9, <1>10, OperationsAre

\* The route of another operation differs in a name or in the number of segments.
LEMMA NoOtherRoute ==
    ASSUME NEW v, NEW op \in Operations, NEW h \in Operations, matches(Below(v)[op], Routes[h])
    PROVE  h = op /\ op # "forkGenerators"
  <1>1. /\ Len(Below(v)[op]) = Len(Routes[h])
        /\ \A i \in DOMAIN Below(v)[op] : Below(v)[op][i] = Routes[h][i] \/ Routes[h][i] = Param
    BY DEF matches
  <1>2. segments[op] = segments[h]
    BY <1>1, Shapes
  <1>3. 1 \in DOMAIN Below(v)[op] /\ (op \in {"peers", "friendly"} => 2 \in DOMAIN Below(v)[op])
    BY Shapes, OperationsAre DEF segments
  <1>4. (IF op = "forkGenerators" THEN "forks" ELSE first[op]) = first[h]
    <2>1. first[h] # Param
      BY OperationsAre, Names DEF first
    <2>2. Below(v)[op][1] = Routes[h][1] \/ Routes[h][1] = Param
      BY <1>1, <1>3
    <2>3. Below(v)[op][1] = IF op = "forkGenerators" THEN "forks" ELSE first[op]
      BY Shapes
    <2>4. Routes[h][1] = first[h]
      BY Shapes
    <2> QED
      BY <2>1, <2>2, <2>3, <2>4
  <1>5. ~(op = "peers" /\ h = "friendly") /\ ~(op = "friendly" /\ h = "peers")
    BY <1>1, <1>3, Shapes, Names
  <1> QED
    BY <1>2, <1>4, <1>5, OperationsAre DEF first, segments

\* Every documented operation is answered by the handler it describes, except
\* the generators of a fork, which nobody answers.
LEMMA Answered ==
    ASSUME NEW v \in Values, NEW op \in Operations
    PROVE  routes(Paths(v)[op]) = IF op = "forkGenerators" THEN "notFound" ELSE op
  <1> DEFINE path == Paths(v)[op]
             M(h) == matches(Tail(path), Routes[h])
  <1>1. Head(path) = "api" /\ Tail(path) = Below(v)[op]
    BY Mounted
  <1>2. \A h \in Operations : M(h) <=> h = op /\ op # "forkGenerators"
    BY <1>1, OwnRoute, NoOtherRoute, ValuesAssumption
  <1>3. routes(path) = IF \E h \in Operations : M(h) THEN CHOOSE h \in Operations : M(h)
                       ELSE fileServer(Tail(path))
    BY <1>1 DEF routes, Operations
  <1>4. CASE op = "forkGenerators"
    <2>1. Tail(path) = <<"forks", v, "generators", v>>
      BY <1>1, <1>4 DEF Below
    <2> DEFINE t == <<"forks", v, "generators", v>>
    <2>2. t # <<>> /\ t # <<Blank>> /\ t # <<"index.html">>
      OBVIOUS
    <2>3. Len(t) # 1
      OBVIOUS
    <2> HIDE DEF t
    <2>4. fileServer(t) = "notFound"
      BY <2>2, <2>3, Zenon DEF fileServer
    <2>5. fileServer(Tail(path)) = "notFound"
      BY <2>1, <2>4 DEF t
    <2> HIDE DEF path, M
    <2> QED
      BY <1>2, <1>3, <1>4, <2>5 DEF path
  <1>5. CASE op # "forkGenerators"
    <2> HIDE DEF path, M
    <2> QED
      BY <1>2, <1>3, <1>5 DEF path
  <1> QED
    BY <1>4, <1>5

\* The three addresses of the page: two are answered by it, one is redirected.
LEMMA PageAddresses ==
    /\ routes(<<"api">>) = "index.html"
    /\ routes(<<"api", Blank>>) = "index.html"
    /\ routes(<<"api", "index.html">>) = "redirect"
    /\ resolve(<<"api", "index.html">>, Blank) = <<"api", Blank>>
  <1>1. ASSUME NEW path \in {<<>>, <<Blank>>, <<"index.html">>}, NEW h \in DOMAIN Routes
        PROVE  ~matches(path, Routes[h])
    <2> SUFFICES ASSUME matches(path, Routes[h])
                 PROVE  FALSE
      OBVIOUS
    <2>1. /\ Len(path) = segments[h] /\ h \in Operations
          /\ \A i \in DOMAIN path : path[i] = Routes[h][i] \/ Routes[h][i] = Param
      BY Shapes DEF matches, Operations
    <2>2. segments[h] # 0
      BY <2>1, OperationsAre DEF segments
    <2>3. path \in {<<Blank>>, <<"index.html">>}
      BY <2>1, <2>2
    <2>4. 1 \in DOMAIN path /\ path[1] \in {Blank, "index.html"}
      BY <2>3
    <2>5. path[1] = first[h] \/ first[h] = Param
      BY <2>1, <2>4, Shapes
    <2> QED
      BY <2>1, <2>4, <2>5, OperationsAre, Names DEF first
  <1>2. /\ Head(<<"api">>) = "api" /\ Tail(<<"api">>) = <<>>
        /\ Head(<<"api", Blank>>) = "api" /\ Tail(<<"api", Blank>>) = <<Blank>>
        /\ Head(<<"api", "index.html">>) = "api"
        /\ Tail(<<"api", "index.html">>) = <<"index.html">>
    OBVIOUS
  <1>3. fileServer(<<>>) = "index.html" /\ fileServer(<<Blank>>) = "index.html"
    BY DEF fileServer
  <1>4. fileServer(<<"index.html">>) = "redirect"
    <2>1. <<"index.html">> # <<>> /\ <<"index.html">> # <<Blank>>
      <3>1. <<"index.html">>[1] = "index.html" /\ <<Blank>>[1] = Blank
        OBVIOUS
      <3> QED
        BY <3>1, Names
    <2> QED
      BY <2>1 DEF fileServer
  <1>5. resolve(<<"api", "index.html">>, Blank) = <<"api", Blank>>
    <2> DEFINE V == {"api", "index.html", Blank}
               u == <<"api", "index.html">>
               f == SubSeq(u, 1, 1)
    <2>1. u \in Seq(V) /\ Len(u) - 1 = 1 /\ u[1] = "api"
      OBVIOUS
    <2>2. resolve(u, Blank) = Append(f, Blank)
      BY <2>1 DEF resolve, Front
    <2> HIDE DEF u, V
    <2>3. f \in Seq(V) /\ Len(f) = 1 /\ f[1] = "api"
      BY <2>1
    <2> HIDE DEF f
    <2>4. Append(f, Blank) = <<"api", Blank>>
      <3>1. Blank \in V
        BY DEF V
      <3>2. /\ Append(f, Blank) \in Seq(V) /\ Len(Append(f, Blank)) = 2
            /\ Append(f, Blank)[1] = "api" /\ Append(f, Blank)[2] = Blank
        BY <2>3, <3>1, AppendProperties
      <3> DEFINE w == Append(f, Blank)
      <3> HIDE DEF w
      <3>3. w \in Seq(V) /\ Len(w) = 2 /\ w[1] = "api" /\ w[2] = Blank
        BY <3>2 DEF w
      <3>4. w = <<w[1], w[2]>>
        BY <3>3
      <3> QED
        BY <3>3, <3>4 DEF w
    <2> QED
      BY <2>2, <2>4 DEF u
  <1> QED
    BY <1>1, <1>2, <1>3, <1>4, <1>5 DEF routes

-----------------------------------------------------------------------------
(* The invariant                                                           *)

\* What a trial may have shown.
TrialOK ==
    \/ trial = NoTrial
    \/ \E op \in Operations : trial \in {<<op, IF op = "forkGenerators" THEN "notFound" ELSE op>>,
                                         <<op, "failed">>}

DocsInv == TypeOK /\ TrialOK

\* Every action keeps the invariant.
LEMMA NextDocs ==
    ASSUME DocsInv, [Next]_vars
    PROVE  DocsInv'
  <1> USE DEF DocsInv
  <1>1. ASSUME NEW u \in Pages, open(u)
        PROVE  DocsInv'
    <2>1. page' \in {<<"api">>, <<"api", Blank>>}
      BY <1>1, PageAddresses DEF open, Pages
    <2> QED
      BY <1>1, <2>1 DEF open, TypeOK, TrialOK
  <1>2. ASSUME NEW x \in Resources, fetch(x)
        PROVE  DocsInv'
    BY <1>2 DEF fetch, TypeOK, TrialOK
  <1>3. ASSUME NEW i \in DOMAIN Scripts, runScript(i)
        PROVE  DocsInv'
    BY <1>3 DEF runScript, TypeOK, TrialOK
  <1>4. CASE onload
    BY <1>4 DEF onload, TypeOK, TrialOK
  <1>5. CASE fetchDoc
    BY <1>5 DEF fetchDoc, TypeOK, TrialOK
  <1>6. ASSUME NEW op \in Operations, NEW v \in Values, tryItOut(op, v)
        PROVE  DocsInv'
    <2>1. trial' \in {<<op, IF op = "forkGenerators" THEN "notFound" ELSE op>>, <<op, "failed">>}
      BY <1>6, Answered DEF tryItOut
    <2>2. TrialOK'
      BY <2>1 DEF TrialOK
    <2>3. trial' \in Operations \X (Operations \cup {"notFound", "failed"})
      BY <2>1
    <2> QED
      BY <1>6, <2>2, <2>3 DEF tryItOut, TypeOK
  <1>7. CASE Shutdown
    BY <1>7 DEF Shutdown, TypeOK, TrialOK
  <1>8. CASE UNCHANGED vars
    BY <1>8 DEF vars, TypeOK, TrialOK
  <1> QED
    BY <1>1, <1>2, <1>3, <1>4, <1>5, <1>6, <1>7, <1>8 DEF Next, BrowserStep

\* The page, its resources and the trials stay in the states the code knows.
THEOREM Invariance == Spec => []DocsInv
  <1>1. Init => DocsInv
    BY DEF Init, DocsInv, TypeOK, TrialOK
  <1> QED
    BY <1>1, NextDocs, PTL DEF Spec

\* Every variable of the page and of the server keeps its type: the page is only
\* ever open at /api or /api/.
THEOREM TypeCorrect == Spec => []TypeOK
  <1>1. DocsInv => TypeOK
    BY DEF DocsInv
  <1> QED
    BY <1>1, Invariance, PTL

\* The description and the routes of api.go agree, whatever values a user enters,
\* except for the generators of a fork.
THEOREM DescriptionAnswered == Spec => []DocumentedAnswered
  <1>1. DocsInv => DocumentedAnswered
    BY DEF DocsInv, TrialOK, DocumentedAnswered, NoTrial
  <1> QED
    BY <1>1, Invariance, PTL
=============================================================================
