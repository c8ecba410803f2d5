---------------------------- MODULE ScanExecutor ----------------------------
(***************************************************************************)
(* scan_executor.py: safety scans run in a pool of worker processes.  A    *)
(* semaphore bounds the scans in flight; a slot is given back by the done  *)
(* callback of the scan's future, to the semaphore it was taken from.      *)
(* Shutting down and starting again moves to another generation with       *)
(* another semaphore while scans of the old one are still on their way.    *)
(*                                                                         *)
(* Shutdown, start and _get_scan_executor run in threads of their own: a   *)
(* step is what happens under _SCAN_EXECUTOR_LOCK or between two awaits.   *)
(***************************************************************************)
EXTENDS Integers, FiniteSets

CONSTANTS
    Scans,          \* requests that need a scan
    Capacity,       \* SCAN_CAPACITY
    MaxGeneration,  \* bound on shutdowns
    Pools           \* handles for the pools that exist at one time

None == "none"
Semaphores == 0..MaxGeneration

VARIABLES
    shutdown,       \* _SCAN_SHUTDOWN
    generation,     \* _SCAN_GENERATION
    executor,       \* _SCAN_EXECUTOR: a pool or None
    pool,           \* pool -> active, dead, stale: being replaced, or free: not running
    semaphore,      \* which semaphore _SCAN_CAPACITY is
    free,           \* semaphore -> its free slots
    futures,        \* _SCAN_FUTURES
    scan            \* scan -> [pc, gen, sem, pool]

scanVars == <<shutdown, generation, executor, pool, semaphore, free, futures, scan>>

NoScan == [pc |-> "idle", gen |-> 0, sem |-> 0, pool |-> None]

\* admitted: the slot is taken.  executing: an executor was obtained.
\* waiting: the future is scheduled and registered.  over: the future is done
\* and the request has not seen it yet.
Holding == {"admitted", "executing", "waiting"}

ScanInit ==
    /\ shutdown = FALSE
    /\ generation = 0
    /\ executor = None
    /\ pool = [p \in Pools |-> "free"]
    /\ semaphore = 0
    /\ free = [s \in Semaphores |-> Capacity]
    /\ futures = {}
    /\ scan = [s \in Scans |-> NoScan]

-----------------------------------------------------------------------------
(* _scan_in_worker                                                         *)

Stopped(gen) == shutdown \/ gen # generation

\* _acquire_scan_capacity.  Without a free slot, or when shut down, the request
\* is answered with 503 and nothing changes.
AcquireScanCapacity(s) ==
    /\ scan[s].pc = "idle"
    /\ ~shutdown
    /\ free[semaphore] > 0
    /\ free' = [free EXCEPT ![semaphore] = @ - 1]
    /\ scan' = [scan EXCEPT ![s] =
         [pc |-> "admitted", gen |-> generation, sem |-> semaphore, pool |-> None]]
    /\ UNCHANGED <<shutdown, generation, executor, pool, semaphore, futures>>

\* capacity.release() and the end of the request.
ReleaseFault(s) ==
    /\ free' = [free EXCEPT ![semaphore] = @ + 1]
    /\ scan' = [scan EXCEPT ![s] = NoScan]

Release(s) ==
    /\ free' = [free EXCEPT ![scan[s].sem] = @ + 1]
    /\ scan' = [scan EXCEPT ![s] = NoScan]

\* Before the future is registered: the payload cannot be encoded or is too
\* large, scheduling fails, or the request is cancelled.
GiveUp(s) ==
    /\ scan[s].pc \in {"admitted", "executing"}
    /\ Release(s)
    /\ UNCHANGED <<shutdown, generation, executor, pool, semaphore, futures>>

\* The part of _get_scan_executor under the lock: a pool that is no longer
\* active is replaced.  It is stopped outside of the lock (StopStale).
ProvideExecutor ==
    IF executor # None /\ pool[executor] = "active"
      THEN UNCHANGED <<executor, pool>>
      ELSE \E new \in {p \in Pools : pool[p] = "free"} :
             /\ executor' = new
             /\ pool' = [p \in Pools |-> IF p = new THEN "active"
                                         ELSE IF p = executor THEN "stale"
                                         ELSE pool[p]]

StopStale(p) ==
    /\ pool[p] = "stale"
    /\ pool' = [pool EXCEPT ![p] = "free"]
    /\ UNCHANGED <<shutdown, generation, executor, semaphore, free, futures, scan>>

GetScanExecutor(s) ==
    /\ scan[s].pc = "admitted"
    /\ IF Stopped(scan[s].gen)
         THEN Release(s) /\ UNCHANGED <<executor, pool>>
         ELSE /\ ProvideExecutor
              /\ scan' = [scan EXCEPT ![s] = [@ EXCEPT !.pc = "executing", !.pool = executor']]
              /\ UNCHANGED free
    /\ UNCHANGED <<shutdown, generation, semaphore, futures>>

\* The scan is scheduled, and registered unless the scanner stopped meanwhile.
Register(s) ==
    /\ scan[s].pc = "executing"
    /\ IF Stopped(scan[s].gen)
         THEN Release(s) /\ UNCHANGED futures
         ELSE /\ scan' = [scan EXCEPT ![s].pc = "waiting"]
              /\ futures' = futures \cup {s}
              /\ UNCHANGED free
    /\ UNCHANGED <<shutdown, generation, executor, pool, semaphore>>

\* The done callback of the future: a result, an error, a crashed worker, the
\* worker's own time limit, or a cancellation by shutdown.
FutureDone(s) ==
    /\ scan[s].pc = "waiting"
    /\ free' = [free EXCEPT ![scan[s].sem] = @ + 1]
    /\ futures' = futures \ {s}
    /\ scan' = [scan EXCEPT ![s].pc = "over"]
    /\ UNCHANGED <<shutdown, generation, executor, pool, semaphore>>

Answer(s) ==
    /\ scan[s].pc = "over"
    /\ scan' = [scan EXCEPT ![s] = NoScan]
    /\ UNCHANGED <<shutdown, generation, executor, pool, semaphore, free, futures>>

\* wait_for gives up, or the request is cancelled: the future is cancelled, and
\* its callback gives the slot back.
Abandon(s) ==
    /\ scan[s].pc = "waiting"
    /\ Release(s)
    /\ futures' = futures \ {s}
    /\ UNCHANGED <<shutdown, generation, executor, pool, semaphore>>

\* The pool fails as a whole.
PoolDies ==
    /\ executor # None
    /\ pool[executor] = "active"
    /\ pool' = [pool EXCEPT ![executor] = "dead"]
    /\ UNCHANGED <<shutdown, generation, executor, semaphore, free, futures, scan>>

ScanStep(s) ==
    \/ AcquireScanCapacity(s) \/ GiveUp(s) \/ GetScanExecutor(s) \/ Register(s)
    \/ FutureDone(s) \/ Answer(s) \/ Abandon(s)

-----------------------------------------------------------------------------
(* start_scan_executor and shutdown_scan_executor, in the steps of a thread *)

StartFlag ==
    /\ shutdown' = FALSE
    /\ IF shutdown
         THEN /\ semaphore' = generation
              /\ futures' = {}
         ELSE UNCHANGED <<semaphore, futures>>
    /\ UNCHANGED <<generation, executor, pool, free, scan>>

StartPool ==
    /\ ~shutdown
    /\ ProvideExecutor
    /\ UNCHANGED <<shutdown, generation, semaphore, free, futures, scan>>

\* Under the lock: the flag, the generation, and what is to be cancelled.
ShutdownFlag ==
    /\ shutdown' = TRUE
    /\ generation' = generation + 1
    /\ executor' = None
    /\ UNCHANGED <<pool, semaphore, free, futures, scan>>

\* Outside of the lock: the futures are cancelled and the pool is stopped.
ShutdownStop(victims, stale) ==
    /\ scan' = [s \in Scans |-> IF s \in victims /\ scan[s].pc = "waiting"
                                  THEN [scan[s] EXCEPT !.pc = "over"] ELSE scan[s]]
    /\ free' = [m \in Semaphores |->
         free[m] + Cardinality({s \in victims : scan[s].pc = "waiting" /\ scan[s].sem = m})]
    /\ futures' = futures \ victims
    /\ pool' = [p \in Pools |-> IF p = stale THEN "free" ELSE pool[p]]
    /\ UNCHANGED <<shutdown, generation, executor, semaphore>>

\* Every slot of every semaphore is free or held by exactly one scan on its
\* way, whatever mixture of completion, timeout, cancellation, pool failure,
\* shutdown and restart ended the others: none is lost and none given back twice.
SlotsAccountedFor ==
    \A m \in Semaphores :
        free[m] + Cardinality({s \in Scans : scan[s].pc \in Holding /\ scan[s].sem = m})
            = Capacity
=============================================================================
