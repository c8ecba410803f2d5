---------------------------- MODULE FacadeRoutes ----------------------------
(* The routes that are forwarded to Hindsight, and the scope each of them   *)
(* needs: facade_routes.py with facade_scope of principals.py.              *)
(*                                                                          *)
(* A path is the sequence of its decoded segments after the bank; "*" in a  *)
(* template stands for a parameter.                                         *)
EXTENDS Integers, Sequences, SequencesExt, FiniteSets, FiniteSetsExt

VARIABLES
    asked,    \* the request: method, path and whether it asks for payloads
    matched   \* the route it was matched to, by its position, or 0

routeVars == <<asked, matched>>

Reads(method, template) == [method |-> method, template |-> template, read |-> TRUE]
Writes(method, template) == [method |-> method, template |-> template, read |-> FALSE]

\* The strict part of the contract, and bank management.
BANK_ROUTES == <<
    Writes("PUT", <<>>),
    Writes("PATCH", <<"config">>),
    Reads("GET", <<"mental-models">>),
    Writes("POST", <<"mental-models">>),
    Reads("GET", <<"mental-models", "*">>),
    Writes("PATCH", <<"mental-models", "*">>),
    Writes("DELETE", <<"mental-models", "*">>),
    Reads("POST", <<"reflect">>),
    Writes("PATCH", <<>>),
    Writes("DELETE", <<>>),
    Reads("GET", <<"config">>),
    Writes("DELETE", <<"config">>),
    Reads("GET", <<"stats">>),
    Reads("GET", <<"stats", "memories-timeseries">>),
    Reads("GET", <<"tags">>),
    Reads("GET", <<"graph">>),
    Writes("POST", <<"consolidate">>),
    Writes("POST", <<"consolidation", "recover">>)>>

\* Memories, documents, entities and operations on mental models.
MEMORY_ROUTES == <<
    Reads("GET", <<"memories", "list">>),
    Writes("DELETE", <<"memories">>),
    Reads("POST", <<"memories", "dry-run-extract">>),
    Reads("GET", <<"memories", "*">>),
    Writes("PATCH", <<"memories", "*">>),
    Reads("GET", <<"memories", "*", "history">>),
    Writes("DELETE", <<"memories", "*", "observations">>),
    Reads("GET", <<"documents">>),
    Reads("GET", <<"documents", "*">>),
    Writes("PATCH", <<"documents", "*">>),
    Writes("DELETE", <<"documents", "*">>),
    Reads("GET", <<"documents", "*", "chunks">>),
    Writes("POST", <<"documents", "*", "reprocess">>),
    Reads("GET", <<"entities">>),
    Reads("GET", <<"entities", "graph">>),
    Reads("GET", <<"entities", "*">>),
    Writes("POST", <<"mental-models", "*", "refresh">>),
    Writes("POST", <<"mental-models", "*", "clear">>),
    Reads("POST", <<"mental-models", "*", "dry-run-refresh">>),
    Reads("GET", <<"mental-models", "*", "history">>)>>

\* Directives, observations, operations, knowledge base and observability.
SERVICE_ROUTES == <<
    Reads("GET", <<"directives">>),
    Writes("POST", <<"directives">>),
    Reads("GET", <<"directives", "*">>),
    Writes("PATCH", <<"directives", "*">>),
    Writes("DELETE", <<"directives", "*">>),
    Reads("GET", <<"observations", "scopes">>),
    Writes("DELETE", <<"observations">>),
    Reads("GET", <<"operations">>),
    Reads("GET", <<"operations", "*">>),
    Writes("DELETE", <<"operations", "*">>),
    Writes("DELETE", <<"operations", "*", "delete">>),
    Writes("POST", <<"operations", "*", "retry">>),
    Reads("GET", <<"knowledge-base", "search">>),
    Reads("GET", <<"knowledge-base", "tree">>),
    Writes("POST", <<"knowledge-base", "folders">>),
    Writes("POST", <<"knowledge-base", "pages">>),
    Reads("GET", <<"knowledge-base", "pages", "*">>),
    Writes("PATCH", <<"knowledge-base", "nodes", "*">>),
    Writes("DELETE", <<"knowledge-base", "nodes", "*">>),
    Reads("GET", <<"audit-logs">>),
    Reads("GET", <<"audit-logs", "stats">>),
    Reads("GET", <<"llm-requests">>),
    Reads("GET", <<"llm-requests", "stats">>)>>

FACADE_ROUTES == BANK_ROUTES \o MEMORY_ROUTES \o SERVICE_ROUTES

-----------------------------------------------------------------------------

\* The regular expression of a route: a parameter takes any one segment.
FullMatch(route, method, path) ==
    /\ route.method = method
    /\ Len(route.template) = Len(path)
    /\ \A i \in DOMAIN path : route.template[i] \in {"*", path[i]}

Hits(method, path) ==
    {i \in DOMAIN FACADE_ROUTES : FullMatch(FACADE_ROUTES[i], method, path)}

MatchFacadeRouteFault(method, path) == Max(Hits(method, path) \cup {0})

\* match_facade_route: the first route that matches.
MatchFacadeRoute(method, path) ==
    LET hits == Hits(method, path) IN IF hits = {} THEN 0 ELSE Min(hits)

Resource(route) == SelectSeq(route.template, LAMBDA s : s # "*")

BankManage == {<<"consolidate">>, <<"consolidation", "recover">>}
BankLevelRead ==
    {<<"stats">>, <<"stats", "memories-timeseries">>, <<"tags">>,
     <<"audit-logs", "stats">>, <<"llm-requests", "stats">>}

\* The scope of a request.  Reading an operation with its payload is reading
\* memories.
FacadeScope(route, payload) ==
    LET resource == Resource(route) IN
    IF route.template = <<"reflect">> THEN "memory.reflect"
    ELSE IF route.template = <<"memories", "dry-run-extract">> THEN "memory.retain"
    ELSE IF resource = <<>> \/ resource \in BankManage THEN "bank.admin"
    ELSE IF resource = <<"config">>
         THEN IF route.read THEN "bank.config.read" ELSE "bank.config.write"
    ELSE IF resource \in BankLevelRead THEN "bank.config.read"
    ELSE IF route.read /\ route.template = <<"operations", "*">>
         THEN IF payload THEN "memory.recall" ELSE "bank.config.read"
    ELSE IF resource[1] = "operations"
         THEN IF route.read THEN "bank.config.read" ELSE "bank.admin"
    ELSE IF route.read THEN "memory.recall" ELSE "memory.retain"

-----------------------------------------------------------------------------

\* Paths that some route matches, with any word of any route as a parameter.
Words == UNION {Range(FACADE_ROUTES[i].template) : i \in DOMAIN FACADE_ROUTES}
Paths ==
    UNION {{[k \in DOMAIN FACADE_ROUTES[i].template |->
                IF FACADE_ROUTES[i].template[k] = "*" THEN word ELSE FACADE_ROUTES[i].template[k]] :
            word \in Words} : i \in DOMAIN FACADE_ROUTES}

RouteInit ==
    /\ asked \in [method : {"GET", "PUT", "POST", "PATCH", "DELETE"},
                  path : Paths, payload : BOOLEAN]
    /\ matched = 0

\* _dispatch_facade finds the route.
MatchRoute ==
    /\ matched = 0
    /\ matched' = MatchFacadeRoute(asked.method, asked.path)
    /\ matched' # 0
    /\ UNCHANGED asked

\* A request is forwarded by the most specific of the routes that match it: a
\* static segment is never taken for a parameter, as the comment above
\* FACADE_ROUTES demands of their order.  And what changes a bank needs a scope
\* that allows changes, whatever path and query lead to it.
RoutedRight ==
    LET route == FACADE_ROUTES[matched] IN
    matched # 0 =>
        /\ \A i \in Hits(asked.method, asked.path) : \A k \in DOMAIN asked.path :
              FACADE_ROUTES[i].template[k] # "*" => route.template[k] # "*"
        /\ ~route.read =>
              FacadeScope(route, asked.payload) \notin
                 {"memory.recall", "memory.reflect", "bank.config.read", "bank.list"}
=============================================================================
