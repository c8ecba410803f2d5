------------------------------ MODULE Gateway ------------------------------
(* The gates a request passes before it has an effect: app.py,              *)
(* principal_gate.py, auth.py, principals.py and request_dispatch.py.       *)
(*                                                                          *)
(* The limiters are models of their own (RateLimiter, MemoryLimiter,        *)
(* ConcurrencyLease).  Here a rate limit may refuse, or be unavailable, at  *)
(* any time; only the limit on failed authentications is counted, because   *)
(* it is what bounds the events these failures write.                       *)
EXTENDS FacadeRoutes

CONSTANTS
    Clients,         \* requests at a time
    Agents, Humans,  \* principals with a key, and with a session
    Banks,
    Grants,          \* Grants[p]: the pairs <<bank, scope>> p was granted
    Restricted,      \* Restricted[p]: banks whose access policy leaves p out
    Samples,         \* positions of the facade routes that are requested
    ConcurrencyMax,  \* concurrency_max
    FailureMax,      \* auth_failure_max
    MaxWindows

VARIABLES
    principals,  \* MEMORY_ROUTER_PRINCIPALS is configured
    gate,        \* gate[c]: where a request stands
    failures,    \* charges of the current auth_failure window, by group
    audits,      \* history: auth_failed events that were written
    windows      \* history: windows begun

gateVars == <<principals, gate, failures, audits, windows>>

Groups == {"router", "admin"}
Slots == {"legacy", "read", "review", "cleanup"}
AdminRoutes == {"queue", "item", "cleanup", "metrics"}
Routes == AdminRoutes \cup
    {"ready", "version", "banks", "retain", "recall", "facade", "unknown"}

\* Credentials: a principal stands for its own valid one.
Keys == Agents \cup Humans \cup Slots \cup {"token", "mr_", "other"}

Idle == [pc |-> "idle", route |-> "none", facade |-> 1, key |-> "other",
         who |-> "nobody", bank |-> "none", group |-> "router", persist |-> FALSE]

GateInit ==
    /\ principals \in BOOLEAN
    /\ gate = [c \in Clients |-> Idle]
    /\ failures = [g \in Groups |-> 0]
    /\ audits = [g \in Groups |-> 0]
    /\ windows = 1

-----------------------------------------------------------------------------

\* _scope of app.py, and the token slots that cover it.
AdminScope(route) ==
    CASE route \in {"queue", "metrics"} -> "read"
      [] route = "cleanup" -> "cleanup"
      [] OTHER -> "review"

AdminSlots(scope) ==
    {"legacy", scope} \cup IF scope = "read" THEN {"review"} ELSE {}

\* principal_token_present: a session of a person has another prefix.
TokenPresent(key) == key \in Agents \cup {"mr_"}

Scope(request) ==
    CASE request.route = "retain" -> "memory.retain"
      [] request.route = "recall" -> "memory.recall"
      [] request.route = "banks" -> "bank.list"
      [] request.route = "facade" -> FacadeScope(FACADE_ROUTES[request.facade], FALSE)
      [] request.route = "unknown" -> "bank.admin"
      [] OTHER -> "quarantine.review"

\* The operation whose limits a scope shares.
ScopeLimitOperation(scope) ==
    CASE scope = "memory.recall" -> "recall"
      [] scope = "memory.retain" -> "retain"
      [] scope = "memory.reflect" -> "reflect"
      [] scope \in {"bank.admin", "quarantine.review"} -> "admin"
      [] OTHER -> "config"

\* authorize: a grant for this scope and bank, and the bank's own policy.
Authorize(p, scope, bank) ==
    <<bank, scope>> \in Grants[p] /\ bank \notin Restricted[p]

BanksWithScope(p, scope) == {b \in Banks : Authorize(p, scope, b)}

-----------------------------------------------------------------------------

To(c, pc) == gate' = [gate EXCEPT ![c].pc = pc]
Over(c) == gate' = [gate EXCEPT ![c] = Idle]
Rest == UNCHANGED <<principals, failures, audits, windows>>

\* From here on nothing else of the request matters.
Failed(c, group, persist) ==
    gate' = [gate EXCEPT ![c] =
               [Idle EXCEPT !.pc = "failed", !.group = group, !.persist = persist]]

Known(c, request, pc) ==
    gate' = [gate EXCEPT ![c] =
               [request EXCEPT !.pc = pc, !.who = request.key, !.key = "other"]]

\* authenticate_principal.  A known key may be revoked or expired, and the
\* claimed agent may be another.
AuthenticatePrincipal(c, request, group, pc) ==
    \/ request.key \in Agents \cup Humans /\ Known(c, request, pc)
    \/ Failed(c, group, TRUE)

\* _dispatch_admin and _dispatch_metrics.  A token that is known but does not
\* cover the scope is charged but leaves no event.
AuthenticateAdmin(c, request) ==
    LET key == request.key
        covered == key \in AdminSlots(AdminScope(request.route))
        principal == ~covered /\ principals /\ TokenPresent(key)
    IN  /\ request.route \in AdminRoutes
        /\ \/ covered /\ Known(c, request, "adminrate")
           \/ principal /\ AuthenticatePrincipal(c, request, "admin", "metadata")
           \/ ~covered /\ ~principal /\ Failed(c, "admin", key \notin Slots)
        /\ Rest

\* readiness_probe_response: who may not see the details sees the status.
AuthenticateProbe(c, request) ==
    /\ request.route = "ready"
    /\ \/ (principals => request.key \notin Agents \cup Humans \cup {"mr_"}) /\ Over(c)
       \/ /\ principals /\ request.key \in Agents \cup Humans \cup {"mr_"}
          /\ \/ request.key # "mr_" /\ Over(c)
             \/ Failed(c, "router", TRUE)
    /\ Rest

\* dispatch, for everything else.
Authenticate(c, request) ==
    /\ request.route \notin AdminRoutes \cup {"ready"}
    /\ LET pc == IF request.route = "version" THEN "effect"
                 ELSE IF principals THEN "rate"
                 ELSE IF request.route \in {"unknown", "banks"} THEN "effect" ELSE "body"
       IN  \/ principals /\ AuthenticatePrincipal(c, request, "router", pc)
           \/ ~principals /\ request.key = "token" /\ Known(c, request, pc)
           \/ ~principals /\ request.key # "token" /\ Failed(c, "router", TRUE)
    /\ Rest

\* A request comes, for a bank or not, and with any credential.
Arrive(c) ==
    /\ gate[c] = Idle
    /\ \E route \in Routes, key \in Keys :
        \E bank \in IF route \in {"retain", "recall", "facade", "queue"} THEN Banks ELSE {"none"},
           facade \in IF route = "facade" THEN Samples ELSE {Idle.facade} :
            LET request == [Idle EXCEPT !.route = route, !.key = key, !.bank = bank,
                                        !.facade = facade]
            IN  \/ AuthenticateAdmin(c, request) \/ AuthenticateProbe(c, request)
                \/ Authenticate(c, request)

AuthFailureRateFault(c) ==
    LET g == gate[c].group IN
    /\ gate[c].pc = "failed"
    /\ \/ /\ failures[g] < FailureMax
          /\ failures' = [failures EXCEPT ![g] = @ + 1]
       \/ UNCHANGED failures
    /\ IF gate[c].persist THEN To(c, "persist") ELSE Over(c)
    /\ UNCHANGED <<principals, audits, windows>>

\* _auth_failure_rate: the filter of this process, then the shared limiter.
\* Either may refuse, and the second may be unavailable.
AuthFailureRate(c) ==
    LET g == gate[c].group IN
    /\ gate[c].pc = "failed"
    /\ \/ /\ failures[g] < FailureMax
          /\ failures' = [failures EXCEPT ![g] = @ + 1]
          /\ IF gate[c].persist THEN To(c, "persist") ELSE Over(c)
       \/ Over(c) /\ UNCHANGED failures
    /\ UNCHANGED <<principals, audits, windows>>

\* auditor.persist; an error is logged and nothing written.
Persist(c) ==
    /\ gate[c].pc = "persist"
    /\ Over(c)
    /\ \/ audits' = [audits EXCEPT ![gate[c].group] = @ + 1]
       \/ UNCHANGED audits
    /\ UNCHANGED <<principals, failures, windows>>

\* principal_admin_metadata_response and _principal_metrics_response: reading
\* only, and the grant comes before the rate.  The queue may be asked for one
\* bank.
Metadata(c) ==
    LET request == gate[c]
        banks == BanksWithScope(request.who, "quarantine.review")
    IN  /\ request.pc = "metadata"
        /\ \/ /\ request.route \in {"queue", "metrics"} /\ banks # {}
              /\ request.route = "queue" => request.bank \in banks
              /\ To(c, "rate")
           \/ Over(c)
        /\ Rest

\* _admin_rate.
AdminRate(c) ==
    /\ gate[c].pc = "adminrate"
    /\ To(c, "effect") \/ Over(c)
    /\ Rest

\* _principal_rate.  The endpoint that is denied needs no grant.
PrincipalRate(c) ==
    /\ gate[c].pc = "rate"
    /\ \/ To(c, IF gate[c].route \in {"queue", "metrics", "unknown"} THEN "effect" ELSE "grant")
       \/ Over(c)
    /\ Rest

RequireGrantFault(c) ==
    LET request == gate[c] IN
    /\ request.pc = "grant"
    /\ \/ (\E b \in Banks : Authorize(request.who, Scope(request), b)) /\ To(c, "body")
       \/ Over(c)
    /\ Rest

\* require_grant, or list_banks of the resolver.
RequireGrant(c) ==
    LET request == gate[c] IN
    /\ request.pc = "grant"
    /\ IF request.route = "banks"
       THEN IF BanksWithScope(request.who, "bank.list") # {} THEN To(c, "body") ELSE Over(c)
       ELSE IF Authorize(request.who, Scope(request), request.bank)
            THEN To(c, "body") ELSE Over(c)
    /\ Rest

\* _json_body, _facade_body, the bounds of limits.py or the query of the list;
\* without principals there is no place to take.
Body(c) ==
    /\ gate[c].pc = "body"
    /\ To(c, IF principals THEN "place" ELSE "effect") \/ Over(c)
    /\ Rest

\* Requests of p inside the concurrency limiter, in the bucket of an operation.
Inside(p, operation) ==
    {c \in Clients : /\ gate[c].pc = "running" /\ gate[c].who = p
                     /\ ScopeLimitOperation(Scope(gate[c])) = operation}

\* _with_principal_concurrency.
TakePlace(c) ==
    LET bucket == Inside(gate[c].who, ScopeLimitOperation(Scope(gate[c]))) IN
    /\ gate[c].pc = "place"
    /\ \/ Cardinality(bucket) < ConcurrencyMax /\ To(c, "running")
       \/ Over(c)
    /\ Rest

\* The operation runs, or fails, and the answer is sent.
Answer(c) ==
    /\ gate[c].pc \in {"effect", "running"}
    /\ Over(c)
    /\ Rest

WindowPasses ==
    /\ windows < MaxWindows
    /\ windows' = windows + 1
    /\ failures' = [g \in Groups |-> 0]
    /\ UNCHANGED <<principals, gate, audits>>

GateNext ==
    \/ \E c \in Clients :
        \/ Arrive(c) \/ AuthFailureRate(c) \/ Persist(c) \/ Metadata(c) \/ AdminRate(c)
        \/ PrincipalRate(c) \/ RequireGrant(c) \/ Body(c) \/ TakePlace(c) \/ Answer(c)
    \/ WindowPasses

-----------------------------------------------------------------------------

LimitClasses ==
    {{"memory.recall"}, {"memory.retain"}, {"memory.reflect"},
     {"bank.admin", "quarantine.review"},
     {"bank.list", "bank.config.read", "bank.config.write"}}

\* No operation runs ungated, on any way through dispatch: an administrative one
\* has a token that covers it or is a reading of banks the principal may review;
\* one of a principal has the grant for its own scope and bank; and operations
\* that share a limit share its places.
GatedEffects ==
    /\ \A c \in Clients :
        LET request == gate[c] IN
        /\ request.pc = "effect" /\ request.route \in AdminRoutes =>
            \/ request.who \in AdminSlots(AdminScope(request.route))
            \/ /\ principals /\ request.route \in {"queue", "metrics"}
               /\ \E b \in Banks : Authorize(request.who, "quarantine.review", b)
               /\ request.route = "queue" =>
                    Authorize(request.who, "quarantine.review", request.bank)
        /\ request.pc = "running" =>
            /\ request.who \in Agents \cup Humans
            /\ request.route # "banks" => Authorize(request.who, Scope(request), request.bank)
        /\ principals /\ request.pc = "effect" /\ request.route \notin AdminRoutes =>
            request.route \in {"version", "unknown"} /\ request.who \in Agents \cup Humans
    /\ \A p \in Agents \cup Humans, class \in LimitClasses :
        Cardinality({c \in Clients : gate[c].pc = "running" /\ gate[c].who = p
                                     /\ Scope(gate[c]) \in class}) <= ConcurrencyMax

\* Failed authentications cannot fill the quarantine: in every window at most
\* FailureMax of a group write an event, whichever routes they came from and
\* however they overlap.
AuditsBounded == \A g \in Groups : audits[g] <= FailureMax * windows
=============================================================================
