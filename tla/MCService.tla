----------------------------- MODULE MCService -----------------------------
(* Components around the review life cycle that share no state: the leases  *)
(* of principals, the runtime with its scanner, the schema setup, the       *)
(* in-memory rate limiter and its identity lock.  One run checks them; part *)
(* says which one a behaviour is about.                                     *)
EXTENDS ConcurrencyLease, Sequences, TLC

CONSTANTS Scans, Pools, Replicas, Tasks

VARIABLES
    part,
    shutdown, generation, executor, pool, semaphore, free, futures, scan,
    stage, plan, open, held, sweeper, starter, stopper, lifespans,
    rep, owner, table, index, waits, faults,
    clock, queue, distinct, count, charges,
    locks, holder, task

lifeVars ==
    <<shutdown, generation, executor, pool, semaphore, free, futures, scan,
      stage, plan, open, held, sweeper, starter, stopper, lifespans>>
schemaVars == <<rep, owner, table, index, waits, faults>>
memoryVars == <<clock, queue, distinct, count, charges>>
lockVars == <<locks, holder, task>>

Life == INSTANCE Runtime WITH Capacity <- 1, MaxGeneration <- 2, MaxLifespans <- 2
Schema == INSTANCE SchemaSetup WITH Indexes <- 2, MaxFaults <- 2
Memory == INSTANCE MemoryLimiter WITH
    Buckets <- <<"b", "a">>, Window <- [a |-> 2, b |-> 4], Maximum <- [a |-> 1, b |-> 2],
    Families <- {"i", "j"}, FamilyWindow <- 4, FamilyMaximum <- 1,
    SweepEvery <- 3, MaxTime <- 5
Lock == INSTANCE IdentityLock WITH Identities <- {"i", "j"}

MCInit ==
    /\ part \in {"lease", "runtime", "schema", "memory", "lock"}
    /\ Init /\ Life!Init /\ Schema!Init /\ Memory!Init /\ Lock!Init

MCNext ==
    /\ UNCHANGED part
    /\ \/ part = "lease" /\ Next
            /\ UNCHANGED <<lifeVars, schemaVars, memoryVars, lockVars>>
       \/ part = "runtime" /\ Life!Next
            /\ UNCHANGED <<vars, schemaVars, memoryVars, lockVars>>
       \/ part = "schema" /\ Schema!Next
            /\ UNCHANGED <<vars, lifeVars, memoryVars, lockVars>>
       \/ part = "memory" /\ Memory!Next
            /\ UNCHANGED <<vars, lifeVars, schemaVars, lockVars>>
       \/ part = "lock" /\ Lock!Next
            /\ UNCHANGED <<vars, lifeVars, schemaVars, memoryVars>>

MCSpec ==
    /\ MCInit
    /\ [][MCNext]_<<part, vars, lifeVars, schemaVars, memoryVars, lockVars>>
    /\ part = "lease" => Fairness
    /\ part = "schema" => Schema!Fairness

\* Every slot of the scanner is free or held by one scan.
SlotsAccountedFor == Life!SlotsAccountedFor

\* Nothing of a lifespan outlives it.
StoppedMeansStopped == Life!StoppedMeansStopped

\* A replica that serves has every index, and valid.
ReadyMeansIndexed == Schema!ReadyMeansIndexed

\* Replicas that start together all come up.
ReplicasComeUp == part = "schema" => Schema!ReplicasComeUp

\* Every window of the in-memory limiter holds at most its maximum.
MemoryWindowRespected == Memory!MemoryWindowRespected

\* At most one operation works on an identity.
IdentityExclusive == Lock!IdentityExclusive
=============================================================================
