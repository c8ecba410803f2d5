---------------------------- MODULE RateLimiter ----------------------------
(***************************************************************************)
(* PostgresRateLimiter (rate_limit.py): sliding windows shared by replicas.*)
(* A charge names buckets and perhaps an identity; it is admitted if every *)
(* bucket has room in its window and the identity is known or fits among   *)
(* the distinct ones, and then it counts in all of them.                   *)
(*                                                                         *)
(* A session is one transaction.  Advisory locks on its buckets and on the *)
(* identities' scope serialise sessions that share one; a sweep, made by   *)
(* every SweepEvery-th session of a replica, deletes events of every       *)
(* bucket and is not serialised with sessions on other buckets.            *)
(***************************************************************************)
EXTENDS Integers, FiniteSets, FiniteSetsExt, Functions

CONSTANTS
    Replicas,
    Sessions,       \* transactions in flight
    Buckets,
    Identities,     \* members of one scope of distinct identities
    Charges,        \* [buckets, identities]: what one call charges
    Window,         \* bucket -> window_ms
    Maximum,        \* bucket -> maximum
    IdWindow,
    IdMaximum,
    SweepEvery,     \* _SWEEP_EVERY
    TxDelay,        \* longest time between a session's clock and its counting
    MaxTime         \* bound of the model's clock

Never == -1
Instants == 0..MaxTime
Windows == {Window[b] : b \in Buckets} \cup {IdWindow}

ASSUME RateAssumption ==
    /\ Window \in [Buckets -> Nat \ {0}] /\ Maximum \in [Buckets -> Nat \ {0}]
    /\ IdWindow \in Nat \ {0} /\ IdMaximum \in Nat \ {0}
    /\ SweepEvery \in Nat \ {0}
    /\ TxDelay \in Nat /\ \A w \in Windows : TxDelay < w
    /\ Charges \subseteq [buckets: SUBSET Buckets, identities: SUBSET Identities]

VARIABLES
    now,        \* the database's clock
    events,     \* quarantine_rate_limit_events: bucket -> instant -> rows
    ids,        \* quarantine_rate_limit_identities: identity -> occurred_at_ms
    maxWindow,  \* quarantine_rate_limit_state.max_window_ms
    limiter,    \* replica -> [count, cache]: consume_count, max_window_cache
    session,    \* the transactions in flight
    admitted,   \* history: bucket -> instant -> charges admitted at it
    named       \* history: the pairs <<identity, instant>> admitted

vars == <<now, events, ids, maxWindow, limiter, session, admitted, named>>

NoSession == [pc |-> "none"]
Init ==
    /\ now = 0
    /\ events = [b \in Buckets |-> [t \in Instants |-> 0]]
    /\ ids = [i \in Identities |-> Never]
    /\ maxWindow = 0
    /\ limiter = [r \in Replicas |-> [count |-> 0, cache |-> 0]]
    /\ session = [s \in Sessions |-> NoSession]
    /\ admitted = events
    /\ named = {}

-----------------------------------------------------------------------------
Active == {s \in Sessions : session[s].pc # "none"}

\* The advisory locks of _lock_scopes: one per bucket, one for the scope.
Conflict(c, d) ==
    \/ c.buckets \cap d.buckets # {}
    \/ c.identities # {} /\ d.identities # {}

ChargeWindows(c) ==
    {Window[b] : b \in c.buckets} \cup (IF c.identities = {} THEN {} ELSE {IdWindow})

\* _next_session, _lock_scopes in sorted order, _database_now_ms, and
\* _record_max_window, which is skipped when the replica knows of a larger
\* window.  A session on a caller's transaction (own = FALSE,
\* consumer_for_transaction) neither counts towards the sweep nor feeds the
\* replica's cache.
Open(s, r, c, own) ==
    LET count == (limiter[r].count + 1) % SweepEvery
        window == Max(ChargeWindows(c))
        known == own /\ window <= limiter[r].cache
    IN /\ session[s].pc = "none"
       /\ \A o \in Active : ~Conflict(session[o].charge, c)
       /\ limiter' = IF own THEN [limiter EXCEPT ![r].count = count] ELSE limiter
       /\ session' = [session EXCEPT ![s] =
            [pc |-> "open", replica |-> r, charge |-> c, at |-> now, own |-> own,
             sweep |-> own /\ count = 0,
             record |-> IF known \/ window <= maxWindow THEN 0 ELSE window,
             observed |-> IF known THEN limiter[r].cache ELSE Max({window, maxWindow})]]
       /\ UNCHANGED <<now, events, ids, maxWindow, admitted, named>>

Count(b, from) == SumFunctionOnSet(events[b], {t \in Instants : t > from})
KnownSince(from) == {i \in Identities : ids[i] # Never /\ ids[i] > from}

\* _check_buckets and _check_distinct_scope, after the expired rows are deleted.
Admits(c, at, cutoff) ==
    /\ \A b \in c.buckets : Count(b, Max({at - Window[b], cutoff})) < Maximum[b]
    /\ c.identities # {} =>
         Cardinality(KnownSince(Max({at - IdWindow, cutoff})) \cup c.identities) <= IdMaximum

\* _global_sweep reads the table again; the session's own record is in it.
SweepWindow(x) == IF x.sweep THEN Max({maxWindow, x.record}) ELSE 0
Cutoff(x) == IF SweepWindow(x) = 0 THEN Never ELSE x.at - SweepWindow(x)

\* The rows of bucket b that the session's deletes leave.
Kept(x, b, t) ==
    /\ t > Cutoff(x)
    /\ b \in x.charge.buckets => t > x.at - Window[b]

\* _commit_session: what the session saw of the largest window is kept once the
\* transaction has committed.
CommitSession(x) ==
    IF x.own THEN [limiter EXCEPT ![x.replica].cache = Max({@, x.observed, SweepWindow(x)})]
             ELSE limiter

\* The sweep, the checks, the inserts and the commit.
Commit(s) ==
    LET x == session[s]
    IN /\ x.pc = "open"
       /\ Admits(x.charge, x.at, Cutoff(x))
       /\ events' = [b \in Buckets |-> [t \in Instants |->
            (IF Kept(x, b, t) THEN events[b][t] ELSE 0)
            + (IF b \in x.charge.buckets /\ t = x.at THEN 1 ELSE 0)]]
       /\ ids' = [i \in Identities |->
            IF i \in x.charge.identities THEN x.at
            ELSE IF ids[i] <= Cutoff(x) \/ (x.charge.identities # {} /\ ids[i] <= x.at - IdWindow)
                   THEN Never
            ELSE ids[i]]
       /\ maxWindow' = Max({maxWindow, x.record})
       /\ limiter' = CommitSession(x)
       /\ admitted' = [b \in Buckets |->
            IF b \in x.charge.buckets THEN [admitted[b] EXCEPT ![x.at] = @ + 1] ELSE admitted[b]]
       /\ named' = named \cup {<<i, x.at>> : i \in x.charge.identities}
       /\ session' = [session EXCEPT ![s] = NoSession]
       /\ UNCHANGED now

\* The charge is refused with 429, the request is cancelled, the connection is
\* lost, or the caller's own transaction fails: nothing of it stays.
RollbackFault(s) ==
    /\ session[s].pc = "open"
    /\ session' = [session EXCEPT ![s] = NoSession]
    /\ limiter' = CommitSession(session[s])
    /\ UNCHANGED <<now, events, ids, maxWindow, admitted, named>>

Rollback(s) ==
    /\ session[s].pc = "open"
    /\ session' = [session EXCEPT ![s] = NoSession]
    /\ UNCHANGED <<now, events, ids, maxWindow, limiter, admitted, named>>

\* A replica starts again: its counter and its cache are empty.
Restart(r) ==
    /\ \A s \in Active : session[s].replica # r
    /\ limiter' = [limiter EXCEPT ![r] = [count |-> 0, cache |-> 0]]
    /\ UNCHANGED <<now, events, ids, maxWindow, session, admitted, named>>

Tick ==
    /\ now < MaxTime
    /\ \A s \in Active : now < session[s].at + TxDelay
    /\ now' = now + 1
    /\ UNCHANGED <<events, ids, maxWindow, limiter, session, admitted, named>>

Next ==
    \/ Tick
    \/ \E r \in Replicas : Restart(r)
    \/ \E s \in Sessions :
         \/ \E r \in Replicas, c \in Charges, own \in BOOLEAN : Open(s, r, c, own)
         \/ Commit(s) \/ Rollback(s)

Spec == Init /\ [][Next]_vars

-----------------------------------------------------------------------------
(* Properties                                                              *)

\* No window of a bucket, shortened by the time a session may take between
\* reading the clock and counting, ever holds more admitted charges than the
\* bucket's maximum, nor more distinct identities than the scope's: pruning,
\* sweeps by other replicas and the cached largest window never forget a charge
\* that still counts.  The shortening is needed: a sweep with a later clock may
\* commit between the two.
LimitsRespected ==
    \A t \in Instants :
        LET Recent(window) == {u \in Instants : t - (window - TxDelay) < u /\ u <= t}
        IN /\ \A b \in Buckets :
                SumFunctionOnSet(admitted[b], Recent(Window[b])) <= Maximum[b]
           /\ Cardinality({i \in Identities :
                \E u \in Recent(IdWindow) : <<i, u>> \in named}) <= IdMaximum
=============================================================================
