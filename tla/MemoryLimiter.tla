--------------------------- MODULE MemoryLimiter ---------------------------
(***************************************************************************)
(* InMemoryRateLimiter.consume_many_distinct (rate_limit.py): the limiter  *)
(* of one process.  The guard is never held across an await and the clock  *)
(* is read right before it is taken, so a call is one step.                *)
(***************************************************************************)
EXTENDS Integers, Sequences, FiniteSets

CONSTANTS
    Buckets,        \* the keys a call charges, in its order: a sequence
    Window,         \* key -> window_ms
    Maximum,        \* key -> maximum
    Families,       \* members of the one scope of distinct identities
    FamilyWindow,
    FamilyMaximum,
    SweepEvery,     \* _SWEEP_EVERY
    MaxTime         \* bound of the model's clock

Never == -1
Instants == 0..MaxTime
Keys == {Buckets[k] : k \in DOMAIN Buckets}

VARIABLES
    clock,
    queue,          \* events: key -> instants, oldest first
    distinct,       \* family -> its latest instant
    count,          \* consume_count
    charges         \* history: the charges admitted, in order

vars == <<clock, queue, distinct, count, charges>>

Init ==
    /\ clock = 0
    /\ queue = [k \in Keys |-> <<>>]
    /\ distinct = [f \in Families |-> Never]
    /\ count = 0
    /\ charges = <<>>

-----------------------------------------------------------------------------
Live(k) == SelectSeq(queue[k], LAMBDA at : at > clock - Window[k])
Room(k) == Len(Live(k)) < Maximum[k]
Known == {f \in Families : distinct[f] # Never /\ distinct[f] > clock - FamilyWindow}

\* The keys whose queues _live_buckets prunes before it raises at a full one.
Visited == {Buckets[k] : k \in {j \in DOMAIN Buckets : \A h \in 1..j - 1 : Room(Buckets[h])}}

\* _sweep_stale prunes everything; then buckets and scope are pruned and
\* checked, and charged together or not at all.
ConsumeManyDistinctFault(f) ==
    LET sweep == (count + 1) % SweepEvery = 0
        full == \E k \in Keys : ~Room(k)
        admit == ~full /\ (f \in Known \/ Cardinality(Known) <= FamilyMaximum)
    IN /\ count' = (count + 1) % SweepEvery
       /\ queue' = [k \in Keys |->
            LET kept == IF sweep \/ k \in Visited THEN Live(k) ELSE queue[k]
            IN IF admit THEN Append(kept, clock) ELSE kept]
       /\ distinct' = [g \in Families |->
            IF admit /\ g = f THEN clock
            ELSE IF g \in Known \/ (full /\ ~sweep) THEN distinct[g]
            ELSE Never]
       /\ charges' = IF admit THEN Append(charges, [at |-> clock, family |-> f]) ELSE charges
       /\ UNCHANGED clock

ConsumeManyDistinct(f) ==
    LET sweep == (count + 1) % SweepEvery = 0
        full == \E k \in Keys : ~Room(k)
        admit == ~full /\ Cardinality(Known \cup {f}) <= FamilyMaximum
    IN /\ count' = (count + 1) % SweepEvery
       /\ queue' = [k \in Keys |->
            LET kept == IF sweep \/ k \in Visited THEN Live(k) ELSE queue[k]
            IN IF admit THEN Append(kept, clock) ELSE kept]
       /\ distinct' = [g \in Families |->
            IF admit /\ g = f THEN clock
            ELSE IF g \in Known \/ (full /\ ~sweep) THEN distinct[g]
            ELSE Never]
       /\ charges' = IF admit THEN Append(charges, [at |-> clock, family |-> f]) ELSE charges
       /\ UNCHANGED clock

Tick ==
    /\ clock < MaxTime
    /\ clock' = clock + 1
    /\ UNCHANGED <<queue, distinct, count, charges>>

Next == Tick \/ \E f \in Families : ConsumeManyDistinct(f)

Spec == Init /\ [][Next]_vars

-----------------------------------------------------------------------------
(* Properties                                                              *)

Recent(window) == SelectSeq(charges, LAMBDA c : c.at > clock - window)

\* A bucket's window never holds more charges than its maximum, nor more
\* distinct families than theirs; refused calls, which prune some queues and
\* not others, and sweeps forget nothing that still counts.
MemoryWindowRespected ==
    /\ \A k \in Keys : Len(Recent(Window[k])) <= Maximum[k]
    /\ LET recent == Recent(FamilyWindow)
       IN Cardinality({recent[n].family : n \in DOMAIN recent}) <= FamilyMaximum
=============================================================================
