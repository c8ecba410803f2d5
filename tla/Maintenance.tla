---------------------------- MODULE Maintenance ----------------------------
(***************************************************************************)
(* memory_router/maintenance.py: cleanup in two requests (a preview and an *)
(* execution that repeats its count), expiry in batches, and retention of  *)
(* the audit events that every change of the queue leaves behind.          *)
(*                                                                         *)
(* The statuses of a row in review are the business of module Review; here *)
(* a row is in the queue or it is not, and the queue is what both filters  *)
(* of maintenance.py leave to it: rows that no review has claimed.         *)
(* Retention and export are configured.  A batch of prune_events_before is *)
(* one transaction, but its append to the export file is not part of what  *)
(* the database rolls back, and its SELECT takes no lock: on PostgreSQL    *)
(* the sweepers of two replicas interleave inside it.                      *)
(***************************************************************************)
EXTENDS Integers, FiniteSets

CONSTANTS
    Items,          \* quarantine ids
    Filters,        \* cleanup filters, by the rows they can match
    Sweepers,       \* replicas, each with a sweeper loop
    BatchLimit,     \* BATCH_LIMIT
    Ttl,            \* item TTL
    RetentionDays,  \* age at which an event is pruned; retention is on
    MaxTime,        \* bound: the clock stops here
    MaxEvents,      \* bound: no row is admitted once this many events exist
    MaxFailures     \* bound: how many iterations of a sweeper fail

ASSUME MaintenanceAssumption ==
    /\ BatchLimit \in Nat \ {0} /\ Ttl \in Nat /\ RetentionDays \in Nat \ {0}
    /\ Filters \subseteq SUBSET Items
    /\ MaxTime \in Nat /\ MaxEvents \in Nat /\ MaxFailures \in Nat

VARIABLES
    now,        \* the clock
    expires,    \* expires[q]: expires_at of the queued row q, or Gone
    log,        \* table quarantine_events
    file,       \* complete records in the export file
    recorded,   \* how many events were ever recorded; they are numbered
    preview,    \* what the operator holds of the last dry run, or NoPreview
    sweeper,    \* sweeper[s]: where the loop of replica s stands
    failures    \* how many iterations have failed

vars == <<now, expires, log, file, recorded, preview, sweeper, failures>>

Gone == -1
Queue == {q \in Items : expires[q] # Gone}
NoPreview == [filter |-> {}, ids |-> {}, count |-> Gone]
Asleep == [pc |-> "asleep", at |-> 0, cutoff |-> 0, batch |-> {}, total |-> 0]

\* An event says of an item that it came into the queue or left it; the
\* retention summary concerns none.  event_id is a random UUID; the model numbers
\* the events in the order they are committed.
Event == [id : Nat, of : Items \cup {"none"}, occurred_at : Nat,
          type : {"quarantined", "removed", "retention_pruned"}]

-----------------------------------------------------------------------------
(* insert_event, called once for each row by the transactions below.       *)

\* One event for every member of `of`, in some order.
InsertEvents(of, type, at) ==
    /\ recorded' = recorded + Cardinality(of)
    /\ \E order \in [of -> recorded..(recorded + Cardinality(of) - 1)] :
         /\ \A a, b \in of : order[a] = order[b] => a = b
         /\ log' = log \cup {[id |-> order[a], of |-> a, occurred_at |-> at,
                              type |-> type] : a \in of}

Delete(selected, at) ==
    /\ expires' = [q \in Items |-> IF q \in selected THEN Gone ELSE expires[q]]
    /\ InsertEvents(selected, "removed", at)

\* Admission and review, seen from here: a row comes, a row goes.
Quarantine(q) ==
    /\ expires[q] = Gone
    /\ recorded < MaxEvents
    /\ expires' = [expires EXCEPT ![q] = now + Ttl]
    /\ InsertEvents({q}, "quarantined", now)
    /\ UNCHANGED <<now, file, preview, sweeper, failures>>

Decide(q) ==
    /\ q \in Queue
    /\ Delete({q}, now)
    /\ UNCHANGED <<now, file, preview, sweeper, failures>>

-----------------------------------------------------------------------------
(* Cleanup.                                                                *)

\* Dry run: the rows that match the operator's filter are counted.
PreviewCleanup(filter) ==
    /\ preview' = [filter |-> filter, ids |-> Queue \cap filter,
                   count |-> Cardinality(Queue \cap filter)]
    /\ UNCHANGED <<now, expires, log, file, recorded, sweeper, failures>>

\* Execution: the selection is repeated under lock and its size compared.
Cleanup ==
    /\ preview # NoPreview
    /\ Cardinality(Queue \cap preview.filter) = preview.count
    /\ Delete(Queue \cap preview.filter, now)
    /\ preview' = NoPreview
    /\ UNCHANGED <<now, file, sweeper, failures>>

-----------------------------------------------------------------------------
(* The sweeper.                                                            *)

\* The first BatchLimit members of S in the order of key; ties either way.
Batches(S, key) ==
    {B \in SUBSET S :
        /\ Cardinality(B) = IF Cardinality(S) < BatchLimit THEN Cardinality(S)
                                                           ELSE BatchLimit
        /\ \A b \in B, s \in S \ B : key[b] <= key[s]}

SetSweeper(s, r) == sweeper' = [sweeper EXCEPT ![s] = r]

\* The loop wakes and reads the clock once for recovery, expiry and summary.
Wake(s) ==
    /\ sweeper[s].pc = "asleep"
    /\ SetSweeper(s, [Asleep EXCEPT !.pc = "expiry", !.at = now])
    /\ UNCHANGED <<now, expires, log, file, recorded, preview, failures>>

\* Fault: a row expires only after its time.
ExpiredItemsFault(at) == {q \in Queue : expires[q] < at}
ExpiredItems(at) == {q \in Queue : expires[q] <= at}
\* At most one batch of expired rows goes in an iteration.
SweepExpired(s) ==
    /\ sweeper[s].pc = "expiry"
    /\ \E batch \in Batches(ExpiredItems(sweeper[s].at), expires) :
         Delete(batch, sweeper[s].at)
    /\ SetSweeper(s, [sweeper[s] EXCEPT !.pc = "retention"])
    /\ UNCHANGED <<now, file, preview, failures>>

\* The cutoff is computed once for all batches, from a clock read of its own.
StartPrune(s) ==
    /\ sweeper[s].pc = "retention"
    /\ SetSweeper(s, [sweeper[s] EXCEPT !.pc = "select", !.cutoff = now - RetentionDays])
    /\ UNCHANGED <<now, expires, log, file, recorded, preview, failures>>

\* Fault: an event exactly at the cutoff is pruned.
OldFault(cutoff) == {e \in log : e.occurred_at <= cutoff}
Old(cutoff) == {e \in log : e.occurred_at < cutoff}

SelectBatch(s) ==
    /\ sweeper[s].pc = "select"
    /\ \E batch \in Batches(Old(sweeper[s].cutoff), [e \in log |-> e.occurred_at]) :
         SetSweeper(s, [sweeper[s] EXCEPT !.pc = "append", !.batch = batch])
    /\ UNCHANGED <<now, expires, log, file, recorded, preview, failures>>

\* Fault: an event that is in the file already is not exported again.
AppendEventExportFault(s) ==
    /\ sweeper[s].pc = "append"
    /\ sweeper[s].batch \cap file = {}
    /\ file' = file \cup sweeper[s].batch
    /\ SetSweeper(s, [sweeper[s] EXCEPT !.pc = "delete"])
    /\ UNCHANGED <<now, expires, log, recorded, preview, failures>>
\* The worker thread appends and closes the file before anything is deleted.
AppendEventExport(s) ==
    /\ sweeper[s].pc = "append"
    /\ file' = file \cup sweeper[s].batch
    /\ SetSweeper(s, [sweeper[s] EXCEPT !.pc = "delete"])
    /\ UNCHANGED <<now, expires, log, recorded, preview, failures>>

\* Fault: a batch that is not full is committed without waiting for the file.
DeleteBatchFault(s) ==
    /\ \/ sweeper[s].pc = "delete"
       \/ sweeper[s].pc = "append" /\ Cardinality(sweeper[s].batch) < BatchLimit
    /\ log' = log \ sweeper[s].batch
    /\ SetSweeper(s, Asleep)
    /\ UNCHANGED <<now, expires, file, recorded, preview, failures>>

\* Deletion and commit; a full batch may have left more behind.
DeleteBatch(s) ==
    /\ sweeper[s].pc = "delete"
    /\ log' = log \ sweeper[s].batch
    /\ LET size == Cardinality(sweeper[s].batch)
           total == sweeper[s].total + size
       IN  SetSweeper(s, IF size < BatchLimit /\ total = 0 THEN Asleep
                         ELSE [sweeper[s] EXCEPT
                                 !.pc = IF size = BatchLimit THEN "select" ELSE "summary",
                                 !.batch = {}, !.total = total])
    /\ UNCHANGED <<now, expires, file, recorded, preview, failures>>

RecordSummary(s) ==
    /\ sweeper[s].pc = "summary"
    /\ InsertEvents({"none"}, "retention_pruned", sweeper[s].at)
    /\ SetSweeper(s, Asleep)
    /\ UNCHANGED <<now, expires, file, preview, failures>>

\* A phase ends where it stands: a failed or partial append, a failed database
\* call, a cancellation (which waits for the worker), a crash and a restart.
\* The batch in hand is rolled back; records that were appended stay.  After an
\* error in recovery or expiry the iteration goes on with retention.
FailIteration(s) ==
    /\ sweeper[s].pc # "asleep"
    /\ failures < MaxFailures
    /\ failures' = failures + 1
    /\ \E written \in SUBSET sweeper[s].batch :
         /\ sweeper[s].pc # "append" => written = {}
         /\ \A e \in written, f \in sweeper[s].batch \ written :
              e.occurred_at <= f.occurred_at
         /\ file' = file \cup written
    /\ \/ SetSweeper(s, Asleep)
       \/ /\ sweeper[s].pc = "expiry"
          /\ SetSweeper(s, [sweeper[s] EXCEPT !.pc = "retention"])
    /\ UNCHANGED <<now, expires, log, recorded, preview>>

Tick ==
    /\ now < MaxTime
    /\ now' = now + 1
    /\ UNCHANGED <<expires, log, file, recorded, preview, sweeper, failures>>

-----------------------------------------------------------------------------
Init ==
    /\ now = 0
    /\ expires = [q \in Items |-> Gone]
    /\ log = {} /\ file = {} /\ recorded = 0
    /\ preview = NoPreview
    /\ sweeper = [s \in Sweepers |-> Asleep]
    /\ failures = 0

SweepLoop(s) ==
    \/ Wake(s) \/ SweepExpired(s) \/ StartPrune(s)
    \/ SelectBatch(s) \/ AppendEventExport(s) \/ DeleteBatch(s) \/ RecordSummary(s)

Next ==
    \/ \E q \in Items : Quarantine(q) \/ Decide(q)
    \/ \E filter \in Filters : PreviewCleanup(filter)
    \/ Cleanup
    \/ \E s \in Sweepers : SweepLoop(s) \/ FailIteration(s)
    \/ Tick

Spec == Init /\ [][Next]_vars

\* Time passes, and a sweeper loop goes on after a failed iteration.
FairSpec == /\ Spec /\ WF_vars(Tick)
            /\ \A s \in Sweepers : WF_vars(SweepLoop(s))

-----------------------------------------------------------------------------
(* Properties.                                                             *)

\* The database and the export file together tell the whole story: whatever
\* sweepers crash, fail or overlap, the last event kept about an item says
\* whether the item is in the queue.  Export comes before deletion, and a
\* deleted row and its event share a transaction.
Trail(q) == {e \in log \cup file : e.of = q}
TrailTellsQueue ==
    \A q \in Items :
        q \in Queue <=> \E e \in Trail(q) : /\ e.type = "quarantined"
                                            /\ \A f \in Trail(q) : f.id <= e.id

\* Retention never prunes an event before its time, although the cutoff is
\* older than the deletion.
RetentionRespected ==
    [][\A e \in log \ log' : e.occurred_at + RetentionDays < now]_vars

\* cleanup.md: "Cleanup returns `409` if the selected set changes after
\* preview."  So what an execution deletes is what the operator previewed.
CleanupDeletesPreview ==
    [][Cleanup => {q \in Items : expires[q] # Gone /\ expires'[q] = Gone} = preview.ids]_vars

\* An old event does not stay in the database, although batches are bounded,
\* iterations fail and replicas prune the same rows.
OldEventsPruned ==
    \A id \in 0..(MaxEvents - 1) :
        (\E e \in log : e.id = id /\ e.occurred_at + RetentionDays < MaxTime)
            ~> ~(\E e \in log : e.id = id)

\* Expiry works off a backlog larger than its batch.
BacklogExpires ==
    \A q \in Items : (q \in Queue /\ expires[q] <= MaxTime)
                       ~> ~(q \in Queue /\ expires[q] <= MaxTime)
=============================================================================
