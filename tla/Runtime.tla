------------------------------ MODULE Runtime ------------------------------
(***************************************************************************)
(* The life of the service (app.py, lifecycle.py, db.py): lifespan starts  *)
(* the runtime and then the scanner, serves, and stops them.  Any step of  *)
(* the start may fail or be cancelled; what was opened must be closed.     *)
(* open is what is really open, held is what the Runtime object refers to  *)
(* and what _close therefore closes.                                       *)
(***************************************************************************)
EXTENDS ScanExecutor, Sequences

CONSTANT MaxLifespans   \* bound on starts; at most MaxGeneration

Backend == <<"database", "rate_limit_database">>
Order == Backend \o <<"human_auth", "wrap_provider", "hindsight", "sweeper">>
CloseOrder == <<"sweeper", "human_auth", "hindsight", "wrap_provider",
                "rate_limit_database", "database">>
Resources == {Order[k] : k \in DOMAIN Order}

VARIABLES
    stage,      \* where lifespan stands
    plan,       \* what is left of stopping: close the runtime, shut the scanner down
    open, held,
    sweeper,    \* none, sleeping, or working on the database
    starter,    \* the thread that starts the scanner
    stopper,    \* the thread that shuts it down
    lifespans   \* how many there were

runtimeVars == <<stage, plan, open, held, sweeper, starter, stopper, lifespans>>
vars == <<scanVars, runtimeVars>>

NoThread == [pc |-> "none"]

Init ==
    /\ ScanInit
    /\ stage = "down" /\ plan = <<>>
    /\ open = {} /\ held = {} /\ sweeper = "none"
    /\ starter = "none" /\ stopper = NoThread
    /\ lifespans = 0

-----------------------------------------------------------------------------
(* Runtime.start                                                           *)

BeginLifespan ==
    /\ stage = "down" /\ stopper = NoThread
    /\ lifespans < MaxLifespans
    /\ lifespans' = lifespans + 1
    /\ stage' = "backend"
    /\ UNCHANGED <<scanVars, plan, open, held, sweeper, starter, stopper>>

\* The first member of a sequence of resources that is not open.
Opens(seq, r) ==
    \E k \in DOMAIN seq : /\ r = seq[k] /\ r \notin open
                          /\ \A j \in 1..k - 1 : seq[j] \in open

\* create_backend opens the two pools and hands them over together.
OpenBackend ==
    /\ stage = "backend"
    /\ \E r \in Resources : Opens(Backend, r) /\ open' = open \cup {r}
    /\ UNCHANGED <<scanVars, stage, plan, held, sweeper, starter, stopper, lifespans>>

AdoptBackend ==
    /\ stage = "backend"
    /\ \A k \in DOMAIN Backend : Backend[k] \in open
    /\ held' = open
    /\ stage' = "starting"
    /\ UNCHANGED <<scanVars, plan, open, sweeper, starter, stopper, lifespans>>

\* create_database and create_backend close what they opened: the Runtime does
\* not know of it yet.
BackendFailsFault ==
    /\ stage = "backend"
    /\ stage' = "stopping" /\ plan' = <<"close">>
    /\ UNCHANGED <<scanVars, open, held, sweeper, starter, stopper, lifespans>>

BackendFails ==
    /\ stage = "backend"
    /\ open' = {}
    /\ stage' = "stopping" /\ plan' = <<"close">>
    /\ UNCHANGED <<scanVars, held, sweeper, starter, stopper, lifespans>>

\* The rest of _start, each resource stored in the Runtime as it is made.
StartNext ==
    /\ stage = "starting"
    /\ \E r \in Resources :
         /\ Opens(Order, r)
         /\ open' = open \cup {r} /\ held' = held \cup {r}
         /\ sweeper' = IF r = "sweeper" THEN "sleeping" ELSE sweeper
    /\ UNCHANGED <<scanVars, stage, plan, starter, stopper, lifespans>>

\* validate_storage, recover_interrupted, the human authentication tables or
\* the registry raise, or the start is cancelled: start calls _close.
StartFails ==
    /\ stage = "starting"
    /\ stage' = "stopping" /\ plan' = <<"close">>
    /\ UNCHANGED <<scanVars, open, held, sweeper, starter, stopper, lifespans>>

\* lifespan goes on to start the scanner in a thread.
RuntimeStarted ==
    /\ stage = "starting"
    /\ open = Resources
    /\ stage' = "scanner" /\ starter' = "flag"
    /\ UNCHANGED <<scanVars, plan, open, held, sweeper, stopper, lifespans>>

ScannerFlag ==
    /\ starter = "flag"
    /\ StartFlag
    /\ starter' = "pool"
    /\ UNCHANGED <<stage, plan, open, held, sweeper, stopper, lifespans>>

ScannerPool ==
    /\ starter = "pool"
    /\ StartPool
    /\ starter' = "none"
    /\ UNCHANGED <<stage, plan, open, held, sweeper, stopper, lifespans>>

ScannerStarted ==
    /\ stage = "scanner" /\ starter = "none"
    /\ stage' = "up"
    /\ UNCHANGED <<scanVars, plan, open, held, sweeper, starter, stopper, lifespans>>

\* The pool is not active, or lifespan was cancelled: finish_before_cancelling
\* lets the thread finish first.
ScannerFails ==
    /\ stage = "scanner" /\ starter = "none"
    /\ stage' = "stopping" /\ plan' = <<"shutdown", "close">>
    /\ UNCHANGED <<scanVars, open, held, sweeper, starter, stopper, lifespans>>

-----------------------------------------------------------------------------
(* Stopping                                                                *)

\* _stop_runtime: the scanner is shut down whether or not stop raised.
Stop ==
    /\ stage = "up"
    /\ stage' = "stopping" /\ plan' = <<"close", "shutdown">>
    /\ UNCHANGED <<scanVars, open, held, sweeper, starter, stopper, lifespans>>

Doing(step) == stage = "stopping" /\ plan # <<>> /\ Head(plan) = step

Foremost(seq, R) ==
    CHOOSE r \in R : \E k \in DOMAIN seq : r = seq[k] /\ \A j \in 1..k - 1 : seq[j] \notin R

\* One callback of _close.  The sweeper is cancelled and waited for.  An error
\* does not keep the others from closing, and neither does a cancellation.
CloseNext ==
    /\ Doing("close") /\ held # {}
    /\ LET r == Foremost(CloseOrder, held)
       IN /\ open' = open \ {r} /\ held' = held \ {r}
          /\ sweeper' = IF r = "sweeper" THEN "none" ELSE sweeper
    /\ UNCHANGED <<scanVars, stage, plan, starter, stopper, lifespans>>

Closed ==
    /\ Doing("close") /\ held = {}
    /\ plan' = Tail(plan)
    /\ UNCHANGED <<scanVars, stage, open, held, sweeper, starter, stopper, lifespans>>

\* shutdown_scan_executor runs in a thread.
ShutdownBegins ==
    /\ Doing("shutdown") /\ stopper = NoThread
    /\ stopper' = [pc |-> "flag"]
    /\ UNCHANGED <<scanVars, stage, plan, open, held, sweeper, starter, lifespans>>

ShutdownFlags ==
    /\ stopper.pc = "flag"
    /\ ShutdownFlag
    /\ stopper' = [pc |-> "stop", victims |-> futures, stale |-> executor]
    /\ UNCHANGED <<stage, plan, open, held, sweeper, starter, lifespans>>

ShutdownEnds ==
    /\ stopper.pc = "stop"
    /\ ShutdownStop(stopper.victims, stopper.stale)
    /\ stopper' = NoThread
    /\ plan' = IF Doing("shutdown") THEN Tail(plan) ELSE plan
    /\ UNCHANGED <<stage, open, held, sweeper, starter, lifespans>>

\* _stop_runtime does not protect the shutdown of the scanner from being
\* cancelled: lifespan ends and the thread goes on.
CutShort ==
    /\ stage = "stopping" /\ plan = <<"shutdown">> /\ stopper # NoThread
    /\ stage' = "down" /\ plan' = <<>>
    /\ UNCHANGED <<scanVars, open, held, sweeper, starter, stopper, lifespans>>

EndLifespan ==
    /\ stage = "stopping" /\ plan = <<>>
    /\ stage' = "down"
    /\ UNCHANGED <<scanVars, plan, open, held, sweeper, starter, stopper, lifespans>>

-----------------------------------------------------------------------------
SweeperWorks ==
    /\ sweeper = "sleeping"
    /\ sweeper' = "working"
    /\ UNCHANGED <<scanVars, stage, plan, open, held, starter, stopper, lifespans>>

SweeperSleeps ==
    /\ sweeper = "working"
    /\ sweeper' = "sleeping"
    /\ UNCHANGED <<scanVars, stage, plan, open, held, starter, stopper, lifespans>>

\* Requests are accepted while the service is up; those on their way go on.
Serve(s) ==
    /\ scan[s].pc = "idle" => stage = "up"
    /\ ScanStep(s)
    /\ UNCHANGED runtimeVars

PoolFails == PoolDies /\ UNCHANGED runtimeVars

PoolStops == (\E p \in Pools : StopStale(p)) /\ UNCHANGED runtimeVars

Lifecycle ==
    \/ BeginLifespan \/ OpenBackend \/ AdoptBackend \/ BackendFails
    \/ StartNext \/ StartFails \/ RuntimeStarted
    \/ ScannerFlag \/ ScannerPool \/ ScannerStarted \/ ScannerFails
    \/ Stop \/ CloseNext \/ Closed \/ ShutdownBegins \/ ShutdownFlags \/ ShutdownEnds
    \/ CutShort \/ EndLifespan

Next ==
    \/ Lifecycle \/ SweeperWorks \/ SweeperSleeps \/ PoolFails \/ PoolStops
    \/ \E s \in Scans : Serve(s)

Spec == Init /\ [][Next]_vars

-----------------------------------------------------------------------------
(* Properties                                                              *)

\* When a lifespan is over, however it ended, nothing of it is left: no
\* resource is open, no sweeper runs, no thread is about to start the scanner,
\* and once the thread that stops the scanner is done no pool is in use and no
\* request waits for one.  Until then the sweeper never works on a database
\* that was closed under it.
StoppedMeansStopped ==
    /\ sweeper # "none" => "database" \in open
    /\ stage = "down" =>
        /\ open = {} /\ sweeper = "none" /\ starter = "none"
        /\ stopper = NoThread =>
             /\ executor = None /\ \A p \in Pools : pool[p] \in {"free", "stale"}
             /\ \A s \in Scans : scan[s].pc # "waiting"
=============================================================================
