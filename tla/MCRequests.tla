----------------------------- MODULE MCRequests -----------------------------
(* What a request meets on its way: the gates, the routes of the facade,    *)
(* the write path, the list of banks and the safety scan.  They share no    *)
(* state; part says which one a behaviour is about.                         *)
EXTENDS ScanBatches, TLC

CONSTANTS Clients, Writers, ann, bot, home, work

VARIABLES
    part,
    asked, matched, principals, gate, failures, audits, windowsBegun,
    write, told,
    upstream, allowed, offset, visible, pages, listing, steady

routeVars == <<asked, matched>>
gateVars == <<principals, gate, failures, audits, windowsBegun>>
writeVars == <<write, told>>
listVars == <<upstream, allowed, offset, visible, pages, listing, steady>>

\* ann is a person and bot an agent that the policy of one bank leaves out.
AnnsGrants ==
    {<<home, "memory.recall">>, <<work, "bank.list">>,
     <<home, "bank.config.read">>, <<work, "memory.retain">>}
BotsGrants ==
    {<<home, "quarantine.review">>, <<work, "memory.retain">>, <<work, "bank.admin">>,
     <<home, "memory.reflect">>, <<work, "bank.config.write">>}

\* One facade route for each scope: bank, configuration, reflect, memories.
Gate == INSTANCE Gateway WITH
    windows <- windowsBegun,
    Agents <- {bot}, Humans <- {ann}, Banks <- {home, work},
    Grants <- (ann :> AnnsGrants) @@ (bot :> BotsGrants),
    Restricted <- (ann :> {}) @@ (bot :> {work}),
    Samples <- {1, 2, 8, 11, 19}, ConcurrencyMax <- 1, FailureMax <- 1, MaxWindows <- 2
Path == INSTANCE WritePath
List == INSTANCE BankList WITH
    Banks <- {"b1", "b2", "b3", "b4"}, PageLimit <- 2, MaxPages <- 4

MCDocuments == UNION {[1 .. n -> {"key", "value", "number"}] : n \in 0 .. 7}

\* The other parts have one initial state each.
MCInit ==
    /\ part \in {"gate", "route", "write", "list", "scan"}
    /\ IF part = "scan" THEN ScanInit
       ELSE /\ mode = "direct" /\ fields = <<>> /\ flawed = 0 /\ next = 0
            /\ carry = <<>> /\ split = <<>> /\ seen = {} /\ windows = {}
            /\ findings = {} /\ scanning = TRUE
    /\ IF part = "route" THEN Gate!RouteInit
       ELSE matched = 0 /\ asked = [method |-> "GET", path |-> <<>>, payload |-> FALSE]
    /\ Gate!GateInit /\ (part # "gate" => ~principals)
    /\ IF part = "write" THEN Path!WriteInit
       ELSE write = <<>> /\ told = <<>>
    /\ IF part = "list" THEN List!ListInit
       ELSE /\ upstream = <<>> /\ allowed = {} /\ offset = 0 /\ visible = <<>>
            /\ pages = 0 /\ listing = "failed" /\ steady = TRUE

MCNext ==
    /\ UNCHANGED part
    /\ \/ part = "gate" /\ Gate!GateNext
            /\ UNCHANGED <<scanVars, routeVars, writeVars, listVars>>
       \/ part = "route" /\ Gate!MatchRoute
            /\ UNCHANGED <<scanVars, gateVars, writeVars, listVars>>
       \/ part = "write" /\ Path!WriteNext
            /\ UNCHANGED <<scanVars, gateVars, routeVars, listVars>>
       \/ part = "list" /\ List!ListNext
            /\ UNCHANGED <<scanVars, gateVars, routeVars, writeVars>>
       \/ part = "scan" /\ ScanNext
            /\ UNCHANGED <<gateVars, routeVars, writeVars, listVars>>

MCSpec == MCInit /\ [][MCNext]_<<part, scanVars, gateVars, routeVars, writeVars, listVars>>

Symmetry == Permutations(Clients) \cup Permutations(Writers)

\* No operation runs ungated.
GatedEffects == Gate!GatedEffects

\* Failed authentications write a bounded number of events.
AuditsBounded == Gate!AuditsBounded

\* A request is forwarded by the most specific route, under a fitting scope.
RoutedRight == Gate!RoutedRight

\* A write is queued or sent, and its client hears which.
WritesToldTruthfully == part = "write" => Path!WritesToldTruthfully

\* A principal lists exactly the banks it may.
BankListExact == List!BankListExact
=============================================================================
