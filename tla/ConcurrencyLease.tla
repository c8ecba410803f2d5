-------------------------- MODULE ConcurrencyLease --------------------------
(***************************************************************************)
(* PostgresConcurrencyLimiter (rate_limit.py): at most Maximum operations  *)
(* of one principal at a time over all replicas.  A request inserts a      *)
(* lease row, runs its operation next to a heartbeat that extends the row, *)
(* and deletes the row at the end.                                         *)
(*                                                                         *)
(* Every instant is kept as the time that remains until it: the life of a  *)
(* row by the database's clock, the heartbeat's timer and its deadline by  *)
(* the process's clock.  Tick lets one unit pass everywhere, so nothing    *)
(* bounds the length of a behaviour.                                       *)
(***************************************************************************)
EXTENDS Integers, FiniteSets

CONSTANTS
    Requests,       \* calls of run on one bucket, on any replica
    Maximum,        \* operations the principal may run at once
    Lease,          \* lease_ms, in units
    RetryCap,       \* the second after which a failed refresh is retried
    AcquireDelay    \* units by which the answer to an acquisition may lag

Interval == Lease \div 3
RefreshTimeout == Interval \div 2

\* The constructor refuses leases under three seconds; the answer to an
\* acquisition is not timed by the code, so its delay is assumed here.
ASSUME LeaseAssumption ==
    /\ IsFiniteSet(Requests)
    /\ Maximum \in Nat \ {0}
    /\ Lease \in Nat \ {0} /\ Lease % 6 = 0
    /\ RetryCap \in Nat \ {0}
    /\ AcquireDelay \in Nat /\ AcquireDelay < RefreshTimeout

\* call[p].op: where run stands.       call[p].hb: where the heartbeat stands.
\* call[p].row: time until the row expires, 0 when there is no unexpired row.
\* call[p].timer: time until the next thing that must happen to the request.
\* call[p].deadline: the heartbeat's bound on local retries.
VARIABLE call

OpStates == {"idle", "acquired", "running", "stopping", "done", "dead"}
HbStates == {"off", "sleep", "refresh", "refreshed"}

TypeOK ==
    call \in [Requests -> [op: OpStates, hb: HbStates, row: 0..Lease,
                           timer: 0..Lease, deadline: 0..Lease]]

Init ==
    call = [p \in Requests |-> [op |-> "idle", hb |-> "off", row |-> 0,
                                timer |-> 0, deadline |-> 0]]

-----------------------------------------------------------------------------
Less(t) == IF t = 0 THEN 0 ELSE t - 1
Least(s, t) == IF s < t THEN s ELSE t

LiveRows == {p \in Requests : call[p].row > 0}
Running == {p \in Requests : call[p].op = "running"}

\* The transaction of _acquire: expired rows are pruned, the rest is counted.
\* A refused request may be sent again later.
Acquire(p) ==
    /\ call[p].op = "idle"
    /\ Cardinality(LiveRows) < Maximum
    /\ call' = [call EXCEPT ![p] = [@ EXCEPT !.op = "acquired", !.row = Lease,
                                             !.timer = AcquireDelay]]

\* The answer is lost or the request is cancelled: the row was inserted outside
\* of the try block and nothing deletes it.
AcquireFails(p) ==
    /\ call[p].op = "acquired"
    /\ call' = [call EXCEPT ![p].op = "done"]

\* operation_task and heartbeat are created.
Begin(p) ==
    /\ call[p].op = "acquired"
    /\ call' = [call EXCEPT ![p] = [@ EXCEPT !.op = "running", !.hb = "sleep",
                                             !.timer = Interval, !.deadline = Lease]]

WakeUp(p) ==
    /\ call[p].hb = "sleep"
    /\ call[p].timer = 0
    /\ call' = [call EXCEPT ![p] = [@ EXCEPT !.hb = "refresh", !.timer = RefreshTimeout]]

\* The heartbeat raises: run cancels both tasks before it releases the row.
Stop(c) == [c EXCEPT !.op = "stopping", !.hb = "off", !.timer = 0]
StopFault(c) == [c EXCEPT !.op = "stopping"]

\* The transaction of _refresh: an expired row is not extended, and the lease is
\* lost.
Refresh(p) ==
    /\ call[p].hb = "refresh"
    /\ call' = [call EXCEPT ![p] = IF @.row > 0
                                     THEN [@ EXCEPT !.hb = "refreshed", !.row = Lease]
                                     ELSE Stop(@)]

RefreshAnswered(p) ==
    /\ call[p].hb = "refreshed"
    /\ call[p].timer > 0
    /\ call' = [call EXCEPT ![p] = [@ EXCEPT !.hb = "sleep", !.timer = Interval,
                                             !.deadline = Lease]]

Retry(c, delay) == [c EXCEPT !.hb = "sleep", !.timer = delay]

\* The refresh fails or times out, whether or not it was carried out.
RefreshFailsFault(p) ==
    /\ call[p].hb \in {"refresh", "refreshed"}
    /\ call' = [call EXCEPT ![p] =
                  IF @.deadline = 0
                    THEN Stop(@)
                    ELSE Retry(@, Least(RetryCap, @.deadline))]

RefreshFails(p) ==
    /\ call[p].hb \in {"refresh", "refreshed"}
    /\ call' = [call EXCEPT ![p] =
                  IF @.deadline <= Interval
                    THEN Stop(@)
                    ELSE Retry(@, Least(RetryCap, @.deadline - Interval))]

\* The operation returns, raises, or the request is cancelled.
OperationEndsFault(p) ==
    /\ call[p].op = "running"
    /\ call' = [call EXCEPT ![p] = StopFault(@)]

OperationEnds(p) ==
    /\ call[p].op = "running"
    /\ call' = [call EXCEPT ![p] = Stop(@)]

Release(p) ==
    /\ call[p].op = "stopping"
    /\ call' = [call EXCEPT ![p] = [@ EXCEPT !.op = "done", !.row = 0]]

\* The delete fails or takes longer than the cleanup timeout: logged only.
ReleaseFails(p) ==
    /\ call[p].op = "stopping"
    /\ call' = [call EXCEPT ![p].op = "done"]

\* The process of the request dies.
Crash(p) ==
    /\ call[p].op \in {"acquired", "running", "stopping"}
    /\ call' = [call EXCEPT ![p] = [@ EXCEPT !.op = "dead", !.hb = "off", !.timer = 0]]

\* One unit passes; nothing that is due waits longer.
Due(p) ==
    /\ call[p].op = "acquired" \/ call[p].hb # "off"
    /\ call[p].timer = 0

Tick ==
    /\ \A p \in Requests : ~Due(p)
    /\ call' = [p \in Requests |->
                  [call[p] EXCEPT !.row = Less(@), !.timer = Less(@), !.deadline = Less(@)]]

-----------------------------------------------------------------------------
Heartbeat(p) ==
    \/ WakeUp(p) \/ Refresh(p) \/ RefreshAnswered(p) \/ RefreshFails(p)

Next ==
    \/ Tick
    \/ \E p \in Requests :
         \/ Acquire(p) \/ AcquireFails(p) \/ Begin(p)
         \/ Heartbeat(p) \/ OperationEnds(p) \/ Release(p) \/ ReleaseFails(p)
         \/ Crash(p)

vars == call

\* Time passes and the event loop serves timers and answers that are due.
\* Operations may run for ever, releases may fail, clients owe nothing.
Fairness ==
    /\ WF_vars(Tick)
    /\ \A p \in Requests :
         /\ WF_vars(Begin(p) \/ AcquireFails(p))
         /\ WF_vars(Heartbeat(p))

Spec == Init /\ [][Next]_vars /\ Fairness

-----------------------------------------------------------------------------
(* Properties                                                              *)

\* Over all replicas no more operations run than the principal may run at
\* once: a heartbeat that cannot reach the database gives up, and run cancels
\* the operation, before another request can take the expired row's place.
RunningWithinMaximum == Cardinality(Running) <= Maximum

\* A request that is over, released or not, and a request whose process died
\* give their place back: no later heartbeat keeps the row alive.
PlaceComesBack ==
    \A p \in Requests : call[p].op \in {"done", "dead"} ~> call[p].row = 0
=============================================================================
