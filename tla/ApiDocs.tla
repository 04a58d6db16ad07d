------------------------------ MODULE ApiDocs ------------------------------
(***************************************************************************)
(* The HTTP server of api/api.go and the page it serves: Swagger UI        *)
(* (api/swagger/index.html with swagger-initializer.js), which loads the   *)
(* description of the API (openapi.yaml) and lets a user try its           *)
(* operations.                                                             *)
(*                                                                         *)
(* A URL is the sequence of its segments: /api is <<"api">> and /api/ is   *)
(* <<"api", "">>.  The browser, a library, is modelled from what the page  *)
(* asks of it: it fetches everything the page refers to at the same time,  *)
(* runs scripts in the order of the page, and fires `load' when all is     *)
(* done.  Its requests fail only when the server has been shut down.       *)
(***************************************************************************)
EXTENDS Integers, Sequences, SequencesExt

CONSTANT Values     \* what a user enters for the parameters of a path

\* The last segment of a URL that ends in a slash.
Blank == ""

\* The UI does not send a request while a parameter of its path is missing.
ASSUME ValuesAssumption == Blank \notin Values

VARIABLES
    srv,        \* "up", or "closed": no new connections
    page,       \* the URL of the open page, <<>> for none
    resources,  \* what the page refers to -> how far it is
    loaded,     \* the event `load' has been fired
    ui,         \* window.ui: "none", "built", or "broken" if its construction threw
    doc,        \* the description of the API: "none", "asked", "shown" or "failed"
    trial       \* the last operation tried and who answered it

vars == <<srv, page, resources, loaded, ui, doc, trial>>

-----------------------------------------------------------------------------
(* The server                                                              *)

\* The directory swagger, embedded; index.html apart.
Files == {"favicon-16x16.png", "favicon-32x32.png", "index.css", "oauth2-redirect.html",
          "openapi.yaml", "swagger-initializer.js", "swagger-ui-bundle.js",
          "swagger-ui-es-bundle-core.js", "swagger-ui-es-bundle.js",
          "swagger-ui-standalone-preset.js", "swagger-ui.css", "swagger-ui.js"}

Param == "{}"

\* Mutant: the route of one fork is called as in the description of generators.
RoutesRenamed ==
    [peers |-> <<"peers", "all">>, friendly |-> <<"peers", "friendly">>,
     connections |-> <<"connections">>, heads |-> <<"heads">>, leashes |-> <<"leashes">>,
     status |-> <<"status">>, forks |-> <<"forks">>, activeForks |-> <<"active-forks">>,
     fork |-> <<"forks", Param>>, forkGenerators |-> <<"forks", Param, "generators", Param>>]

\* handler -> its path below the mount point
Routes ==
    [peers |-> <<"peers", "all">>, friendly |-> <<"peers", "friendly">>,
     connections |-> <<"connections">>, heads |-> <<"heads">>, leashes |-> <<"leashes">>,
     status |-> <<"status">>, forks |-> <<"forks">>, activeForks |-> <<"active-forks">>,
     fork |-> <<"fork", Param>>, forkGenerators |-> <<"fork", Param, "generators", Param>>]

\* A parameter of chi stands for one segment that is not empty.
matches(path, pattern) ==
    /\ Len(path) = Len(pattern)
    /\ \A i \in DOMAIN path : path[i] = pattern[i] \/ (pattern[i] = Param /\ path[i] # Blank)

\* Mutant: paths that are not files are answered by the page.
fileServerFallback(path) ==
    IF path = <<"index.html">> THEN "redirect"
    ELSE IF Len(path) = 1 /\ path[1] \in Files THEN path[1]
    ELSE "index.html"

\* http.FileServer below StripPrefix: the directory is answered by its
\* index.html, whose own name is redirected to "./".
fileServer(path) ==
    IF path \in {<<>>, <<Blank>>} THEN "index.html"
    ELSE IF path = <<"index.html">> THEN "redirect"
    ELSE IF Len(path) = 1 /\ path[1] \in Files THEN path[1]
    ELSE "notFound"

\* Who answers a request: a handler of the API, a file, or nobody.
routes(url) ==
    IF Head(url) # "api" THEN "notFound"
    ELSE IF \E h \in DOMAIN Routes : matches(Tail(url), Routes[h])
    THEN CHOOSE h \in DOMAIN Routes : matches(Tail(url), Routes[h])
    ELSE fileServer(Tail(url))

\* The context given to http.Server.Shutdown is already cancelled: it closes the
\* listener and does not wait for requests that are being answered.
Shutdown ==
    /\ srv = "up" /\ srv' = "closed"
    /\ UNCHANGED <<page, resources, loaded, ui, doc, trial>>

-----------------------------------------------------------------------------
(* The page                                                                *)

Styles == {"swagger-ui.css", "index.css"}
Scripts == <<"swagger-ui-bundle.js", "swagger-ui-standalone-preset.js", "swagger-initializer.js">>
Resources == Styles \cup Range(Scripts)

\* How a browser resolves a relative reference: it replaces the last segment.
resolve(base, ref) == Append(Front(base), ref)

\* The user opens the page; a redirection is followed.
open(url) ==
    /\ srv = "up" /\ page = <<>>
    /\ page' = IF routes(url) = "redirect" THEN resolve(url, Blank) ELSE url
    /\ routes(page') = "index.html"
    /\ resources' = [x \in Resources |-> "asked"]
    /\ UNCHANGED <<srv, loaded, ui, doc, trial>>

\* A file arrives, or the request fails: with status 404, or with the server.
fetch(x) ==
    /\ resources[x] = "asked"
    /\ \/ resources' = [resources EXCEPT ![x] =
                          IF routes(resolve(page, x)) = x THEN "arrived" ELSE "failed"]
       \/ srv = "closed" /\ resources' = [resources EXCEPT ![x] = "failed"]
    /\ UNCHANGED <<srv, page, loaded, ui, doc, trial>>

\* A script runs after those before it and after the style sheets.
runScript(i) ==
    /\ resources[Scripts[i]] = "arrived"
    /\ \A j \in 1..(i - 1) : resources[Scripts[j]] \in {"ran", "failed"}
    /\ \A x \in Styles : resources[x] # "asked"
    /\ resources' = [resources EXCEPT ![Scripts[i]] = "ran"]
    /\ UNCHANGED <<srv, page, loaded, ui, doc, trial>>

-----------------------------------------------------------------------------
(* swagger-initializer.js                                                  *)

\* Mutant: the mount point is missing.
urlUnmounted == <<"openapi.yaml">>

\* The configuration of the UI.
url == <<"api", "openapi.yaml">>

\* The scripts that define SwaggerUIBundle and SwaggerUIStandalonePreset.
globals == {Scripts[1], Scripts[2]}

\* The event `load'.  The handler is there if the initializer has run; it throws
\* if one of the globals is not defined, and asks for the description if not.
onload ==
    /\ page # <<>> /\ ~loaded
    /\ \A x \in Styles : resources[x] \in {"arrived", "failed"}
    /\ \A i \in DOMAIN Scripts : resources[Scripts[i]] \in {"ran", "failed"}
    /\ loaded' = TRUE
    /\ LET set == resources["swagger-initializer.js"] = "ran"
           built == set /\ \A x \in globals : resources[x] = "ran"
       IN  /\ ui' = IF built THEN "built" ELSE IF set THEN "broken" ELSE "none"
           /\ doc' = IF built THEN "asked" ELSE "none"
    /\ UNCHANGED <<srv, page, resources, trial>>

fetchDoc ==
    /\ doc = "asked"
    /\ \/ doc' = IF routes(url) = "openapi.yaml" THEN "shown" ELSE "failed"
       \/ srv = "closed" /\ doc' = "failed"
    /\ UNCHANGED <<srv, page, resources, loaded, ui, trial>>

-----------------------------------------------------------------------------
(* openapi.yaml                                                            *)

\* operation -> its documented path; the operation is named like the handler
\* whose reply it describes.
Paths(v) ==
    [peers |-> <<"api", "peers", "all">>, friendly |-> <<"api", "peers", "friendly">>,
     connections |-> <<"api", "connections">>, heads |-> <<"api", "heads">>,
     leashes |-> <<"api", "leashes">>, status |-> <<"api", "status">>,
     forks |-> <<"api", "forks">>, activeForks |-> <<"api", "active-forks">>,
     fork |-> <<"api", "fork", v>>,
     forkGenerators |-> <<"api", "forks", v, "generators", v>>]

Operations == DOMAIN Routes

NoTrial == <<>>

\* The user tries an operation of the description.
tryItOut(op, v) ==
    /\ doc = "shown"
    /\ \/ trial' = <<op, routes(Paths(v)[op])>>
       \/ srv = "closed" /\ trial' = <<op, "failed">>
    /\ UNCHANGED <<srv, page, resources, loaded, ui, doc>>

-----------------------------------------------------------------------------
Init ==
    /\ srv = "up" /\ page = <<>>
    /\ resources = [x \in Resources |-> "none"]
    /\ loaded = FALSE /\ ui = "none" /\ doc = "none" /\ trial = NoTrial

BrowserStep ==
    \/ \E x \in Resources : fetch(x)
    \/ \E i \in DOMAIN Scripts : runScript(i)
    \/ onload
    \/ fetchDoc

Pages == {<<"api">>, <<"api", Blank>>, <<"api", "index.html">>}

Next ==
    \/ \E u \in Pages : open(u)
    \/ BrowserStep
    \/ \E op \in Operations, v \in Values : tryItOut(op, v)
    \/ Shutdown

\* The browser goes on with a page it has begun to load, and its requests are
\* answered or fail.
Spec == Init /\ [][Next]_vars /\ WF_vars(BrowserStep)

-----------------------------------------------------------------------------
(* Properties                                                              *)

TypeOK ==
    /\ srv \in {"up", "closed"}
    /\ page \in {<<>>, <<"api">>, <<"api", Blank>>}
    /\ resources \in [Resources -> {"none", "asked", "arrived", "ran", "failed"}]
    /\ loaded \in BOOLEAN
    /\ ui \in {"none", "built", "broken"}
    /\ doc \in {"none", "asked", "shown", "failed"}
    /\ trial \in {NoTrial} \cup (Operations \X (Operations \cup {"notFound", "failed"}))

\* Comment in api.go: the UI is served at the mount point + "/index.html" or
\* "/".  Opened there, the page finds its scripts and style sheets by relative
\* references, the UI is built when all of them have run, and finds the
\* description by an absolute one, unless the server is shut down meanwhile.
\* (At /api, without the slash, the references lead nowhere.)
DocumentShown == page = <<"api", Blank>> ~> doc = "shown" \/ srv = "closed"

\* Every operation of the description is answered by the handler it describes,
\* neither by another one nor by the file server that is mounted over the whole
\* path.  The generators of a fork are excepted: their route is /fork/..., and the
\* description says /forks/... .
DocumentedAnswered ==
    trial # NoTrial /\ trial[1] # "forkGenerators" => trial[2] \in {trial[1], "failed"}
=============================================================================
