----------------------------- MODULE SchemaSetup -----------------------------
(***************************************************************************)
(* db.py, _initialize_postgres_schema: every replica brings the schema up  *)
(* to date when it starts.  A session takes an advisory lock, runs the     *)
(* schema transaction, and builds the missing capacity indexes with CREATE *)
(* INDEX CONCURRENTLY, which waits for the snapshots of statements that    *)
(* were running when it began and leaves an invalid index if it fails.     *)
(***************************************************************************)
EXTENDS Naturals

CONSTANTS
    Replicas,
    Indexes,    \* how many capacity indexes there are
    MaxFaults   \* bound on failures and crashes

VARIABLES
    rep,        \* replica -> [pc, k]: where it stands, and with which index
    owner,      \* who holds the advisory lock: a replica, none, or the session
                \* of a replica that is gone
    table,      \* the schema transaction has been run
    index,      \* index -> missing, invalid or valid
    waits,      \* the statements the index build under way waits for
    faults

vars == <<rep, owner, table, index, waits, faults>>

Nobody == "nobody"
Orphan == "orphan"

Init ==
    /\ rep = [r \in Replicas |-> [pc |-> "off", k |-> 1]]
    /\ owner = Nobody /\ table = FALSE
    /\ index = [i \in 1..Indexes |-> "missing"]
    /\ waits = {} /\ faults = 0

Goto(r, pc) == rep' = [rep EXCEPT ![r].pc = pc]

Connect(r) ==
    /\ rep[r].pc = "off"
    /\ Goto(r, "lock")
    /\ UNCHANGED <<owner, table, index, waits, faults>>

\* SELECT pg_try_advisory_lock: the statement begins with a snapshot.
Try(r) ==
    /\ rep[r].pc = "lock"
    /\ Goto(r, "trying")
    /\ UNCHANGED <<owner, table, index, waits, faults>>

\* The statement ends at once, with or without the lock.
TriedFault(r) ==
    /\ rep[r].pc = "trying" /\ owner = Nobody
    /\ owner' = r /\ Goto(r, "schema")
    /\ waits' = waits \ {r}
    /\ UNCHANGED <<table, index, faults>>

Tried(r) ==
    /\ rep[r].pc = "trying"
    /\ IF owner = Nobody THEN owner' = r /\ Goto(r, "schema")
                         ELSE UNCHANGED owner /\ Goto(r, "lock")
    /\ waits' = waits \ {r}
    /\ UNCHANGED <<table, index, faults>>

\* _initialize_schema_transaction: table, added columns, other indexes.
SchemaTransaction(r) ==
    /\ rep[r].pc = "schema"
    /\ table' = TRUE
    /\ Goto(r, "check")
    /\ UNCHANGED <<owner, index, waits, faults>>

CheckIndexFault(r) ==
    /\ rep[r].pc = "check" /\ rep[r].k <= Indexes
    /\ IF index[rep[r].k] # "missing"
         THEN rep' = [rep EXCEPT ![r].k = @ + 1]
         ELSE Goto(r, "create")
    /\ UNCHANGED <<owner, table, index, waits, faults>>

CheckIndex(r) ==
    /\ rep[r].pc = "check" /\ rep[r].k <= Indexes
    /\ CASE index[rep[r].k] = "valid" -> rep' = [rep EXCEPT ![r].k = @ + 1]
         [] index[rep[r].k] = "invalid" -> Goto(r, "drop")
         [] index[rep[r].k] = "missing" -> Goto(r, "create")
    /\ UNCHANGED <<owner, table, index, waits, faults>>

DropIndex(r) ==
    /\ rep[r].pc = "drop"
    /\ index' = [index EXCEPT ![rep[r].k] = "missing"]
    /\ Goto(r, "create")
    /\ UNCHANGED <<owner, table, waits, faults>>

CreateBegins(r) ==
    /\ rep[r].pc = "create"
    /\ index' = [index EXCEPT ![rep[r].k] = "invalid"]
    /\ waits' = {o \in Replicas : rep[o].pc = "trying"}
    /\ Goto(r, "building")
    /\ UNCHANGED <<owner, table, faults>>

CreateEnds(r) ==
    /\ rep[r].pc = "building" /\ waits = {}
    /\ index' = [index EXCEPT ![rep[r].k] = "valid"]
    /\ rep' = [rep EXCEPT ![r] = [pc |-> "check", k |-> @.k + 1]]
    /\ UNCHANGED <<owner, table, waits, faults>>

\* The connection is closed, which gives the lock back.
Ready(r) ==
    /\ rep[r].pc = "check" /\ rep[r].k > Indexes
    /\ Goto(r, "ready")
    /\ owner' = Nobody
    /\ UNCHANGED <<table, index, waits, faults>>

\* A statement fails, the start is cancelled, or the process dies.  The server
\* ends the session, and gives up its lock, when it notices.  A build that goes
\* on until then and succeeds is CreateEnds before Fail: nobody looks between.
Fail(r) ==
    /\ rep[r].pc # "off" /\ faults < MaxFaults
    /\ faults' = faults + 1
    /\ rep' = [rep EXCEPT ![r] = [pc |-> "off", k |-> 1]]
    /\ owner' = IF owner = r THEN Orphan ELSE owner
    /\ waits' = waits \ {r}
    /\ UNCHANGED <<table, index>>

OrphanEnds ==
    /\ owner = Orphan
    /\ owner' = Nobody
    /\ waits' = {}
    /\ UNCHANGED <<rep, table, index, faults>>

Step(r) ==
    \/ Connect(r) \/ Try(r) \/ Tried(r) \/ SchemaTransaction(r) \/ CheckIndex(r)
    \/ DropIndex(r) \/ CreateBegins(r) \/ CreateEnds(r) \/ Ready(r)

Next == OrphanEnds \/ \E r \in Replicas : Step(r) \/ Fail(r)

\* A replica that is starting goes on, and the server ends dead sessions.
Fairness == WF_vars(OrphanEnds) /\ \A r \in Replicas : WF_vars(Step(r))

Spec == Init /\ [][Next]_vars /\ Fairness

\* A replica that serves has a complete schema under it: no index it counts on
\* is missing, or left invalid by a build that another replica began.
ReadyMeansIndexed ==
    \A r \in Replicas : rep[r].pc = "ready" =>
        table /\ \A i \in 1..Indexes : index[i] = "valid"

\* Replicas that start together all come up: none waits for the lock of a
\* session whose index build waits for it.
ReplicasComeUp == \A r \in Replicas : <>[](rep[r].pc = "ready")
=============================================================================
