---------------------------- MODULE LeaseProofs ----------------------------
(* ConcurrencyLease keeps to the maximum for every number of requests and   *)
(* every length of the lease.                                               *)
EXTENDS ConcurrencyLease, FiniteSetTheorems, TLAPS

\* What the timers say of the row while the heartbeat h runs: the row outlives
\* the deadline less one refresh, a heartbeat that sleeps wakes an interval
\* before the deadline, and one that refreshes gives up in time.
InTime(c) ==
    /\ c.op = "acquired" => c.row = Lease - AcquireDelay + c.timer /\ c.timer <= AcquireDelay
    /\ c.op = "running" <=> c.hb # "off"
    /\ c.hb # "off" => c.row > c.deadline - RefreshTimeout
    /\ c.hb = "sleep" => c.deadline >= c.timer + Interval
    /\ c.hb \in {"refresh", "refreshed"} =>
         c.timer <= RefreshTimeout /\ c.deadline >= c.timer + RefreshTimeout
    /\ c.hb = "refreshed" => c.row >= Lease - RefreshTimeout + c.timer

LeaseInv ==
    /\ TypeOK
    /\ \A p \in Requests : InTime(call[p])
    /\ Cardinality(LiveRows) <= Maximum

Call == [op: OpStates, hb: HbStates, row: 0..Lease, timer: 0..Lease, deadline: 0..Lease]

\* A third of the lease is an interval and half of that a timeout.
LEMMA Lengths ==
    /\ Lease \in Nat /\ Interval \in Nat /\ RefreshTimeout \in Nat
    /\ Lease = 3 * Interval /\ Interval = 2 * RefreshTimeout
    /\ RefreshTimeout > 0 /\ AcquireDelay \in Nat /\ AcquireDelay < RefreshTimeout
    /\ RetryCap \in Nat /\ RetryCap > 0
<1>1. Lease \in Nat /\ Lease > 0 /\ Lease % 6 = 0
  BY LeaseAssumption
<1>2. Interval \in Nat /\ Lease = 3 * Interval
  BY <1>1, SMT DEF Interval
<1>3. RefreshTimeout \in Nat /\ Interval = 2 * RefreshTimeout
  BY <1>1, <1>2, SMT DEF RefreshTimeout, Interval
<1> QED
  BY <1>1, <1>2, <1>3, LeaseAssumption

\* A row that counts as live belongs to every running operation.
LEMMA RunningIsLive ==
    ASSUME TypeOK, \A p \in Requests : InTime(call[p])
    PROVE  Running \subseteq LiveRows
<1> SUFFICES ASSUME NEW p \in Requests, call[p].op = "running"
             PROVE  call[p].row > 0
  BY DEF Running, LiveRows
<1>1. call[p] \in Call /\ InTime(call[p])
  BY DEF TypeOK, Call
<1> QED
  BY <1>1, Lengths, SMT DEF InTime, Call, OpStates, HbStates

\* The places are counted among finitely many requests.
LEMMA LiveFinite ==
    /\ IsFiniteSet(LiveRows) /\ IsFiniteSet(Running)
    /\ Cardinality(LiveRows) \in Nat /\ Cardinality(Running) \in Nat
  BY LeaseAssumption, FS_Subset, FS_CardinalityType DEF LiveRows, Running

-----------------------------------------------------------------------------
\* The steps of one request.
RequestStep(p) ==
    \/ Acquire(p) \/ AcquireFails(p) \/ Begin(p) \/ Heartbeat(p)
    \/ OperationEnds(p) \/ Release(p) \/ ReleaseFails(p) \/ Crash(p)

\* What a step makes of the call of its request: the timers stay in order and
\* only an acquisition brings a row to life.
Becomes(p, n) ==
    /\ call' = [call EXCEPT ![p] = n]
    /\ n \in Call
    /\ InTime(n)
    /\ n.row > 0 => call[p].row > 0 \/ Cardinality(LiveRows) < Maximum

\* Every step of a request keeps its timers in order.  The cases that matter:
\* a refresh finds the row, and a failed one is retried only while an interval
\* remains to the deadline.
LEMMA OwnStep ==
    ASSUME NEW p \in Requests, TypeOK, InTime(call[p]), RequestStep(p)
    PROVE  \E n : Becomes(p, n)
<1>1. PICK c \in Call : c = call[p]
  BY DEF TypeOK, Call
<1>2. InTime(c)
  BY <1>1
<1>3. /\ 0 \in 0..Lease /\ Lease \in 0..Lease /\ Interval \in 0..Lease
      /\ RefreshTimeout \in 0..Lease /\ AcquireDelay \in 0..Lease
  BY Lengths
<1>4. c.hb # "off" => c.row > 0
  BY <1>2, Lengths, SMT DEF InTime, Call, OpStates, HbStates
<1>5. CASE Acquire(p)
  <2> DEFINE n == [c EXCEPT !.op = "acquired", !.row = Lease, !.timer = AcquireDelay]
  <2>1. n \in Call
    BY <1>3, Zenon DEF Call, OpStates, HbStates
  <2>2. call' = [call EXCEPT ![p] = n]
    BY <1>1, <1>5 DEF Acquire
  <2>3. InTime(n)
    BY <1>1, <1>2, <1>4, <1>5, Lengths, SMT DEF InTime, Call, OpStates, HbStates, Acquire
  <2>4. n.row > 0 => call[p].row > 0 \/ Cardinality(LiveRows) < Maximum
    BY <1>1, <1>4, <1>5, SMT DEF Call, Acquire
  <2> QED
    BY <2>1, <2>2, <2>3, <2>4 DEF Becomes
<1>6. CASE AcquireFails(p)
  <2> DEFINE n == [c EXCEPT !.op = "done"]
  <2>1. n \in Call
    BY <1>3, Zenon DEF Call, OpStates, HbStates
  <2>2. call' = [call EXCEPT ![p] = n]
    BY <1>1, <1>6 DEF AcquireFails
  <2>3. InTime(n)
    BY <1>1, <1>2, <1>4, <1>6, Lengths, SMT DEF InTime, Call, OpStates, HbStates, AcquireFails
  <2>4. n.row > 0 => call[p].row > 0 \/ Cardinality(LiveRows) < Maximum
    BY <1>1, <1>4, <1>6, SMT DEF Call, AcquireFails
  <2> QED
    BY <2>1, <2>2, <2>3, <2>4 DEF Becomes
<1>7. CASE Begin(p)
  <2> DEFINE n == [c EXCEPT !.op = "running", !.hb = "sleep", !.timer = Interval, !.deadline = Lease]
  <2>1. n \in Call
    BY <1>3, Zenon DEF Call, OpStates, HbStates
  <2>2. call' = [call EXCEPT ![p] = n]
    BY <1>1, <1>7 DEF Begin
  <2>3. InTime(n)
    BY <1>1, <1>2, <1>4, <1>7, Lengths, SMT DEF InTime, Call, OpStates, HbStates, Begin
  <2>4. n.row > 0 => call[p].row > 0 \/ Cardinality(LiveRows) < Maximum
    BY <1>1, <1>4, <1>7, SMT DEF Call, Begin
  <2> QED
    BY <2>1, <2>2, <2>3, <2>4 DEF Becomes
<1>8. CASE WakeUp(p)
  <2> DEFINE n == [c EXCEPT !.hb = "refresh", !.timer = RefreshTimeout]
  <2>1. n \in Call
    BY <1>3, Zenon DEF Call, OpStates, HbStates
  <2>2. call' = [call EXCEPT ![p] = n]
    BY <1>1, <1>8 DEF WakeUp
  <2>3. InTime(n)
    BY <1>1, <1>2, <1>4, <1>8, Lengths, SMT DEF InTime, Call, OpStates, HbStates, WakeUp
  <2>4. n.row > 0 => call[p].row > 0 \/ Cardinality(LiveRows) < Maximum
    BY <1>1, <1>4, <1>8, SMT DEF Call, WakeUp
  <2> QED
    BY <2>1, <2>2, <2>3, <2>4 DEF Becomes
<1>9. CASE Refresh(p)
  <2> DEFINE n == [c EXCEPT !.hb = "refreshed", !.row = Lease]
  <2>1. n \in Call
    BY <1>3, Zenon DEF Call, OpStates, HbStates
  <2>2. call' = [call EXCEPT ![p] = n]
    BY <1>1, <1>9, <1>4 DEF Refresh
  <2>3. InTime(n)
    BY <1>1, <1>2, <1>4, <1>9, Lengths, SMT DEF InTime, Call, OpStates, HbStates, Refresh
  <2>4. n.row > 0 => call[p].row > 0 \/ Cardinality(LiveRows) < Maximum
    BY <1>1, <1>4, <1>9, SMT DEF Call, Refresh
  <2> QED
    BY <2>1, <2>2, <2>3, <2>4 DEF Becomes
<1>10. CASE RefreshAnswered(p)
  <2> DEFINE n == [c EXCEPT !.hb = "sleep", !.timer = Interval, !.deadline = Lease]
  <2>1. n \in Call
    BY <1>3, Zenon DEF Call, OpStates, HbStates
  <2>2. call' = [call EXCEPT ![p] = n]
    BY <1>1, <1>10 DEF RefreshAnswered
  <2>3. InTime(n)
    BY <1>1, <1>2, <1>4, <1>10, Lengths, SMT DEF InTime, Call, OpStates, HbStates, RefreshAnswered
  <2>4. n.row > 0 => call[p].row > 0 \/ Cardinality(LiveRows) < Maximum
    BY <1>1, <1>4, <1>10, SMT DEF Call, RefreshAnswered
  <2> QED
    BY <2>1, <2>2, <2>3, <2>4 DEF Becomes
<1>11. CASE RefreshFails(p) /\ c.deadline <= Interval
  <2> DEFINE n == [c EXCEPT !.op = "stopping", !.hb = "off", !.timer = 0]
  <2>1. n \in Call
    BY <1>3, Zenon DEF Call, OpStates, HbStates
  <2>2. call' = [call EXCEPT ![p] = n]
    BY <1>1, <1>11 DEF RefreshFails, Stop
  <2>3. InTime(n)
    BY <1>1, <1>2, <1>4, <1>11, Lengths, SMT DEF InTime, Call, OpStates, HbStates, RefreshFails
  <2>4. n.row > 0 => call[p].row > 0 \/ Cardinality(LiveRows) < Maximum
    BY <1>1, <1>4, <1>11, SMT DEF Call, RefreshFails
  <2> QED
    BY <2>1, <2>2, <2>3, <2>4 DEF Becomes
<1>12. CASE RefreshFails(p) /\ ~(c.deadline <= Interval)
  <2> DEFINE delay == Least(RetryCap, c.deadline - Interval)
  <2>0. delay \in 0..Lease /\ delay <= c.deadline - Interval
    BY <1>12, Lengths, SMT DEF Least, Call
  <2> HIDE DEF delay
  <2> DEFINE n == [c EXCEPT !.hb = "sleep", !.timer = delay]
  <2>1. n \in Call
    BY <1>3, <2>0, Zenon DEF Call, OpStates, HbStates
  <2>2. call' = [call EXCEPT ![p] = n]
    BY <1>1, <1>12 DEF RefreshFails, Retry, delay
  <2>3. InTime(n)
    BY <1>1, <1>2, <1>4, <1>12, <2>0, Lengths, SMT DEF InTime, Call, OpStates, HbStates, RefreshFails
  <2>4. n.row > 0 => call[p].row > 0 \/ Cardinality(LiveRows) < Maximum
    BY <1>1, <1>4, <1>12, SMT DEF Call, RefreshFails
  <2> QED
    BY <2>1, <2>2, <2>3, <2>4 DEF Becomes
<1>13. CASE OperationEnds(p)
  <2> DEFINE n == [c EXCEPT !.op = "stopping", !.hb = "off", !.timer = 0]
  <2>1. n \in Call
    BY <1>3, Zenon DEF Call, OpStates, HbStates
  <2>2. call' = [call EXCEPT ![p] = n]
    BY <1>1, <1>13 DEF OperationEnds, Stop
  <2>3. InTime(n)
    BY <1>1, <1>2, <1>4, <1>13, Lengths, SMT DEF InTime, Call, OpStates, HbStates, OperationEnds
  <2>4. n.row > 0 => call[p].row > 0 \/ Cardinality(LiveRows) < Maximum
    BY <1>1, <1>4, <1>13, SMT DEF Call, OperationEnds
  <2> QED
    BY <2>1, <2>2, <2>3, <2>4 DEF Becomes
<1>14. CASE Release(p)
  <2> DEFINE n == [c EXCEPT !.op = "done", !.row = 0]
  <2>1. n \in Call
    BY <1>3, Zenon DEF Call, OpStates, HbStates
  <2>2. call' = [call EXCEPT ![p] = n]
    BY <1>1, <1>14 DEF Release
  <2>3. InTime(n)
    BY <1>1, <1>2, <1>4, <1>14, Lengths, SMT DEF InTime, Call, OpStates, HbStates, Release
  <2>4. n.row > 0 => call[p].row > 0 \/ Cardinality(LiveRows) < Maximum
    BY <1>1, <1>4, <1>14, SMT DEF Call, Release
  <2> QED
    BY <2>1, <2>2, <2>3, <2>4 DEF Becomes
<1>15. CASE ReleaseFails(p)
  <2> DEFINE n == [c EXCEPT !.op = "done"]
  <2>1. n \in Call
    BY <1>3, Zenon DEF Call, OpStates, HbStates
  <2>2. call' = [call EXCEPT ![p] = n]
    BY <1>1, <1>15 DEF ReleaseFails
  <2>3. InTime(n)
    BY <1>1, <1>2, <1>4, <1>15, Lengths, SMT DEF InTime, Call, OpStates, HbStates, ReleaseFails
  <2>4. n.row > 0 => call[p].row > 0 \/ Cardinality(LiveRows) < Maximum
    BY <1>1, <1>4, <1>15, SMT DEF Call, ReleaseFails
  <2> QED
    BY <2>1, <2>2, <2>3, <2>4 DEF Becomes
<1>16. CASE Crash(p)
  <2> DEFINE n == [c EXCEPT !.op = "dead", !.hb = "off", !.timer = 0]
  <2>1. n \in Call
    BY <1>3, Zenon DEF Call, OpStates, HbStates
  <2>2. call' = [call EXCEPT ![p] = n]
    BY <1>1, <1>16 DEF Crash
  <2>3. InTime(n)
    BY <1>1, <1>2, <1>4, <1>16, Lengths, SMT DEF InTime, Call, OpStates, HbStates, Crash
  <2>4. n.row > 0 => call[p].row > 0 \/ Cardinality(LiveRows) < Maximum
    BY <1>1, <1>4, <1>16, SMT DEF Call, Crash
  <2> QED
    BY <2>1, <2>2, <2>3, <2>4 DEF Becomes
<1> QED
  BY <1>5, <1>6, <1>7, <1>8, <1>9, <1>10, <1>11, <1>12, <1>13, <1>14, <1>15, <1>16 DEF RequestStep, Heartbeat

\* Time passes for all calls alike, and for none that has something due.
LEMMA TickStep ==
    ASSUME TypeOK, \A p \in Requests : InTime(call[p]), Tick
    PROVE  TypeOK' /\ (\A p \in Requests : InTime(call'[p])) /\ LiveRows' \subseteq LiveRows
<1>1. ASSUME NEW p \in Requests
      PROVE  /\ call'[p] \in Call
             /\ InTime(call'[p])
             /\ call'[p].row > 0 => call[p].row > 0
  <2>1. PICK c \in Call : c = call[p]
    BY DEF TypeOK, Call
  <2> DEFINE r == Less(c.row)
             t == Less(c.timer)
             d == Less(c.deadline)
             n == [c EXCEPT !.row = r, !.timer = t, !.deadline = d]
  <2>2. /\ r \in 0..Lease /\ t \in 0..Lease /\ d \in 0..Lease
        /\ c.row = (IF c.row = 0 THEN r ELSE r + 1)
        /\ c.timer = (IF c.timer = 0 THEN t ELSE t + 1)
        /\ c.deadline = (IF c.deadline = 0 THEN d ELSE d + 1)
        /\ (c.row = 0 => r = 0) /\ (c.timer = 0 => t = 0) /\ (c.deadline = 0 => d = 0)
    BY Lengths, SMT DEF Less, Call
  <2>3. call'[p] = n
    BY <2>1 DEF Tick
  <2>4. ~(c.timer = 0 /\ (c.op = "acquired" \/ c.hb # "off"))
    BY <2>1 DEF Tick, Due
  <2> HIDE DEF r, t, d
  <2>5. n \in Call
    BY <2>2, Zenon DEF Call
  <2>6. InTime(c)
    BY <2>1
  <2>7. InTime(n)
    BY <2>2, <2>4, <2>6, Lengths, SMT DEF InTime, Call, OpStates, HbStates
  <2>8. n.row > 0 => c.row > 0
    BY <2>2, SMT DEF Call
  <2> QED
    BY <2>1, <2>3, <2>5, <2>7, <2>8
<1>2. call' = [p \in Requests |-> call'[p]]
  BY DEF Tick
<1>3. TypeOK'
  BY <1>1, <1>2, Zenon DEF TypeOK, Call
<1> QED
  BY <1>1, <1>3 DEF LiveRows

\* Every step keeps the invariant; an acquisition adds one live row and only
\* where the transaction has counted fewer than the maximum.
LEMMA LeaseStep == LeaseInv /\ [Next]_vars => LeaseInv'
<1> SUFFICES ASSUME LeaseInv, [Next]_vars PROVE LeaseInv'
  OBVIOUS
<1>0. TypeOK /\ (\A p \in Requests : InTime(call[p])) /\ Cardinality(LiveRows) <= Maximum
  BY DEF LeaseInv
<1>1. CASE Tick
  <2>1. TypeOK' /\ (\A p \in Requests : InTime(call'[p])) /\ LiveRows' \subseteq LiveRows
    BY <1>0, <1>1, TickStep
  <2>2. Cardinality(LiveRows') <= Cardinality(LiveRows)
    BY <2>1, LiveFinite, FS_Subset
  <2>3. Cardinality(LiveRows') \in Nat
    BY <2>1, LiveFinite, FS_Subset, FS_CardinalityType
  <2> QED
    BY <1>0, <2>1, <2>2, <2>3, LiveFinite, LeaseAssumption DEF LeaseInv
<1>2. ASSUME NEW p \in Requests, RequestStep(p) PROVE LeaseInv'
  <2>1. PICK n : Becomes(p, n)
    BY <1>0, <1>2, OwnStep
  <2>2. \A q \in Requests : call'[q] = (IF q = p THEN n ELSE call[q])
    BY <1>0, <2>1 DEF Becomes, TypeOK
  <2>3. TypeOK'
    BY <1>0, <2>1, Zenon DEF Becomes, TypeOK, Call
  <2>4. \A q \in Requests : InTime(call'[q])
    BY <1>0, <2>1, <2>2 DEF Becomes
  <2>5. Cardinality(LiveRows') <= Maximum
    <3>1. CASE LiveRows' \subseteq LiveRows
      <4>1. Cardinality(LiveRows') <= Cardinality(LiveRows) /\ Cardinality(LiveRows') \in Nat
        BY <3>1, LiveFinite, FS_Subset, FS_CardinalityType
      <4> QED
        BY <1>0, <4>1, LiveFinite, LeaseAssumption
    <3>2. CASE ~(LiveRows' \subseteq LiveRows)
      <4>1. p \notin LiveRows /\ n.row > 0
        BY <2>2, <3>2 DEF LiveRows
      <4>2. Cardinality(LiveRows) < Maximum
        BY <2>1, <4>1 DEF Becomes, LiveRows
      <4>3. LiveRows' \subseteq LiveRows \cup {p}
        BY <2>2 DEF LiveRows
      <4>4. /\ IsFiniteSet(LiveRows \cup {p})
            /\ Cardinality(LiveRows \cup {p}) = Cardinality(LiveRows) + 1
        BY <4>1, LiveFinite, FS_AddElement
      <4>5. /\ Cardinality(LiveRows') <= Cardinality(LiveRows \cup {p})
            /\ Cardinality(LiveRows') \in Nat
        BY <4>3, <4>4, FS_Subset, FS_CardinalityType
      <4> QED
        BY <4>2, <4>4, <4>5, LiveFinite, LeaseAssumption
    <3> QED
      BY <3>1, <3>2
  <2> QED
    BY <2>3, <2>4, <2>5 DEF LeaseInv
<1>3. CASE UNCHANGED vars
  BY <1>0, <1>3 DEF vars, LeaseInv, TypeOK, LiveRows
<1> QED
  BY <1>1, <1>2, <1>3 DEF Next, RequestStep

\* The invariant holds of no calls at all.
LEMMA LeaseInit == Init => LeaseInv
<1> SUFFICES ASSUME Init PROVE LeaseInv
  OBVIOUS
<1>1. TypeOK
  BY Lengths DEF Init, TypeOK, OpStates, HbStates
<1>2. \A p \in Requests : InTime(call[p])
  BY Lengths DEF Init, InTime
<1>3. LiveRows = {}
  BY DEF Init, LiveRows
<1> QED
  BY <1>1, <1>2, <1>3, FS_EmptySet, LeaseAssumption DEF LeaseInv

\* PostgresConcurrencyLimiter.run never has more operations of a principal
\* under way than the maximum, for any number of requests and replicas and any
\* lease, as long as the answer to an acquisition takes less than one refresh
\* timeout.
THEOREM LeaseKeepsMaximum == Spec => []RunningWithinMaximum
<1>1. LeaseInv => RunningWithinMaximum
  <2> SUFFICES ASSUME LeaseInv PROVE RunningWithinMaximum
    OBVIOUS
  <2>1. Running \subseteq LiveRows
    BY RunningIsLive DEF LeaseInv
  <2>2. Cardinality(Running) <= Cardinality(LiveRows)
    BY <2>1, LiveFinite, FS_Subset
  <2> QED
    BY <2>2, LiveFinite, LeaseAssumption DEF LeaseInv, RunningWithinMaximum
<1> QED
  BY <1>1, LeaseInit, LeaseStep, PTL DEF Spec

\* No lease is lost to another request: whenever the heartbeat asks for a
\* refresh its row has not expired.  One that cannot refresh gives up by its own
\* deadline before the database would refuse it.
THEOREM RefreshFindsRow ==
    Spec => [](\A p \in Requests : call[p].hb = "refresh" => call[p].row > 0)
<1>1. LeaseInv => \A p \in Requests : call[p].hb = "refresh" => call[p].row > 0
  <2> SUFFICES ASSUME LeaseInv, NEW p \in Requests, call[p].hb = "refresh"
               PROVE  call[p].row > 0
    OBVIOUS
  <2>1. call[p] \in Call /\ InTime(call[p])
    BY DEF LeaseInv, TypeOK, Call
  <2> QED
    BY <2>1, Lengths, SMT DEF InTime, Call, OpStates, HbStates
<1> QED
  BY <1>1, LeaseInit, LeaseStep, PTL DEF Spec
=============================================================================
