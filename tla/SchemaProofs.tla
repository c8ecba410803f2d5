---------------------------- MODULE SchemaProofs ----------------------------
(* SchemaSetup: a replica that serves has its schema, for any number of      *)
(* replicas, indexes and failures.                                          *)
EXTENDS SchemaSetup, TLAPS

\* The session of a replica is distinct from nobody's and from a dead one's, and
\* the indexes can be counted.
Distinct == Nobody \notin Replicas /\ Orphan \notin Replicas /\ Indexes \in Nat

Holding == {"schema", "check", "drop", "create", "building"}
Pcs == {"off", "lock", "trying", "ready"} \cup Holding

SchemaTypes ==
    /\ rep \in [Replicas -> [pc: Pcs, k: Nat \ {0}]]
    /\ index \in [1..Indexes -> {"missing", "invalid", "valid"}]
    /\ table \in BOOLEAN

\* Who works on the schema holds the lock, so at most one does.
LockHeld == \A r \in Replicas : rep[r].pc \in Holding => owner = r

\* The indexes before the one a replica is at are valid; the one it drops or
\* builds is not, so no valid index is ever touched.
Progress ==
    \A r \in Replicas :
        /\ rep[r].pc \in {"check", "drop", "create", "building"} =>
             table /\ \A i \in 1..Indexes : i < rep[r].k => index[i] = "valid"
        /\ rep[r].pc \in {"drop", "create", "building"} =>
             rep[r].k \in 1..Indexes /\ index[rep[r].k] # "valid"
        /\ rep[r].pc \in {"off", "lock", "trying", "schema"} => rep[r].k = 1

SchemaInv == SchemaTypes /\ LockHeld /\ Progress /\ ReadyMeansIndexed

\* A step changes one replica and no valid index.
Advances(r, n) ==
    /\ n \in [pc: Pcs, k: Nat \ {0}]
    /\ rep' = [rep EXCEPT ![r] = n]
    /\ index' \in [1..Indexes -> {"missing", "invalid", "valid"}]
    /\ \A i \in 1..Indexes : index[i] = "valid" => index'[i] = "valid"
    /\ table' \in {table, TRUE}
    /\ \A o \in Replicas : o # r /\ rep[o].pc \in Holding => owner' = o /\ index' = index
    /\ n.pc \in Holding => owner' = r
    /\ n.pc \in {"check", "drop", "create", "building"} =>
         table' /\ \A i \in 1..Indexes : i < n.k => index'[i] = "valid"
    /\ n.pc \in {"drop", "create", "building"} =>
         n.k \in 1..Indexes /\ index'[n.k] # "valid"
    /\ n.pc \in {"off", "lock", "trying", "schema"} => n.k = 1
    /\ n.pc = "ready" => table' /\ \A i \in 1..Indexes : index'[i] = "valid"

LEMMA AdvanceKeeps ==
    ASSUME SchemaInv, NEW r \in Replicas, NEW n, Advances(r, n)
    PROVE  SchemaInv'
<1>0. SchemaTypes /\ LockHeld /\ Progress /\ ReadyMeansIndexed
  BY DEF SchemaInv
<1>1. \A o \in Replicas : rep'[o] = (IF o = r THEN n ELSE rep[o])
  BY <1>0 DEF Advances, SchemaTypes
<1>2. SchemaTypes'
  BY <1>0 DEF Advances, SchemaTypes
<1>3. LockHeld'
  BY <1>0, <1>1 DEF Advances, LockHeld
<1>4. Progress'
  <2> SUFFICES ASSUME NEW o \in Replicas
               PROVE  /\ rep'[o].pc \in {"check", "drop", "create", "building"} =>
                           table' /\ \A i \in 1..Indexes : i < rep'[o].k => index'[i] = "valid"
                      /\ rep'[o].pc \in {"drop", "create", "building"} =>
                           rep'[o].k \in 1..Indexes /\ index'[rep'[o].k] # "valid"
                      /\ rep'[o].pc \in {"off", "lock", "trying", "schema"} => rep'[o].k = 1
    BY DEF Progress
  <2>1. CASE o = r
    BY <1>1, <2>1 DEF Advances
  <2>2. CASE o # r
    <3>1. rep'[o] = rep[o]
      BY <1>1, <2>2
    <3>2. table => table' = TRUE
      BY <1>0 DEF Advances, SchemaTypes
    <3>3. rep[o].pc \in Holding => index' = index
      BY <2>2 DEF Advances
    <3> QED
      BY <1>0, <3>1, <3>2, <3>3 DEF Progress, Holding
  <2> QED
    BY <2>1, <2>2
<1>5. ReadyMeansIndexed'
  <2> SUFFICES ASSUME NEW o \in Replicas, rep'[o].pc = "ready"
               PROVE  table' /\ \A i \in 1..Indexes : index'[i] = "valid"
    BY DEF ReadyMeansIndexed
  <2>1. CASE o = r
    BY <1>1, <2>1 DEF Advances
  <2>2. CASE o # r
    BY <1>0, <1>1, <2>2 DEF Advances, ReadyMeansIndexed, SchemaTypes
  <2> QED
    BY <2>1, <2>2
<1> QED
  BY <1>2, <1>3, <1>4, <1>5 DEF SchemaInv

\* Every step of a starting replica, and its failure.
LEMMA ReplicaStep ==
    ASSUME SchemaInv, Distinct, NEW r \in Replicas, Step(r) \/ Fail(r)
    PROVE  \E n : Advances(r, n)
<1>0. SchemaTypes /\ LockHeld /\ Progress /\ ReadyMeansIndexed
  BY DEF SchemaInv
<1>1. PICK x \in [pc: Pcs, k: Nat \ {0}] : x = rep[r]
  BY <1>0 DEF SchemaTypes
<1>2. \A o \in Replicas : o # r /\ x.pc \in Holding => rep[o].pc \notin Holding
  BY <1>0, <1>1 DEF LockHeld
<1>3. CASE Connect(r) \/ Try(r)
  <2>1. PICK pc \in {"lock", "trying"} : rep' = [rep EXCEPT ![r].pc = pc]
    BY <1>3 DEF Connect, Try, Goto
  <2> DEFINE n == [x EXCEPT !.pc = pc]
  <2>2. n \in [pc: Pcs, k: Nat \ {0}] /\ n.pc = pc /\ n.k = x.k
    BY DEF Pcs
  <2>3. x.k = 1
    BY <1>0, <1>1, <1>3 DEF Connect, Try, Progress
  <2>4. rep' = [rep EXCEPT ![r] = n] /\ UNCHANGED <<owner, table, index>>
    BY <1>1, <1>3, <2>1 DEF Connect, Try
  <2> HIDE DEF n
  <2> QED
    BY <1>0, <2>1, <2>2, <2>3, <2>4 DEF Advances, Holding, SchemaTypes, LockHeld
<1>4. CASE Tried(r)
  <2>1. x.k = 1 /\ UNCHANGED <<table, index>>
    BY <1>0, <1>1, <1>4 DEF Tried, Progress
  <2>2. CASE owner = Nobody
    <3> DEFINE n == [x EXCEPT !.pc = "schema"]
    <3>1. n \in [pc: Pcs, k: Nat \ {0}] /\ n.pc = "schema" /\ n.k = x.k
      BY DEF Pcs, Holding
    <3>2. rep' = [rep EXCEPT ![r] = n] /\ owner' = r
      BY <1>1, <1>4, <2>2 DEF Tried, Goto
    <3>3. \A o \in Replicas : rep[o].pc \notin Holding
      BY <1>0, <2>2 DEF LockHeld, Distinct
    <3> HIDE DEF n
    <3> QED
      BY <1>0, <2>1, <3>1, <3>2, <3>3 DEF Advances, SchemaTypes
  <2>3. CASE owner # Nobody
    <3> DEFINE n == [x EXCEPT !.pc = "lock"]
    <3>1. n \in [pc: Pcs, k: Nat \ {0}] /\ n.pc = "lock" /\ n.k = x.k
      BY DEF Pcs
    <3>2. rep' = [rep EXCEPT ![r] = n] /\ owner' = owner
      BY <1>1, <1>4, <2>3 DEF Tried, Goto
    <3> HIDE DEF n
    <3> QED
      BY <1>0, <2>1, <3>1, <3>2 DEF Advances, Holding, SchemaTypes, LockHeld
  <2> QED
    BY <2>2, <2>3
<1>5. CASE SchemaTransaction(r)
  <2> DEFINE n == [x EXCEPT !.pc = "check"]
  <2>1. n \in [pc: Pcs, k: Nat \ {0}] /\ n.pc = "check" /\ n.k = x.k
    BY DEF Pcs, Holding
  <2>2. rep' = [rep EXCEPT ![r] = n]
    BY <1>1, <1>5 DEF SchemaTransaction, Goto
  <2> HIDE DEF n
  <2>3. x.k = 1 /\ x.pc = "schema"
    BY <1>0, <1>1, <1>5 DEF SchemaTransaction, Progress
  <2>4. owner = r /\ \A o \in Replicas : o # r => rep[o].pc \notin Holding
    BY <1>0, <1>1, <1>2, <2>3 DEF LockHeld, Holding
  <2>5. \A i \in 1..Indexes : ~(i < n.k)
    BY <2>1, <2>3
  <2>6. owner' = owner /\ index' = index /\ table' = TRUE
    BY <1>5 DEF SchemaTransaction
  <2> QED
    BY <1>0, <2>1, <2>2, <2>4, <2>5, <2>6 DEF Advances, SchemaTypes
<1>6. CASE CheckIndex(r) /\ index[x.k] = "valid"
  <2> DEFINE n == [x EXCEPT !.k = x.k + 1]
  <2>0. x.pc = "check" /\ x.k + 1 \in Nat \ {0}
    BY <1>1, <1>6 DEF CheckIndex
  <2>1. n \in [pc: Pcs, k: Nat \ {0}] /\ n.pc = "check" /\ n.k = x.k + 1
    BY <2>0 DEF Pcs, Holding
  <2>2. rep' = [rep EXCEPT ![r] = n]
    BY <1>1, <1>6 DEF CheckIndex
  <2> HIDE DEF n
  <2>3. x.pc = "check" /\ x.k <= Indexes
    BY <1>0, <1>1, <1>6 DEF CheckIndex, Progress
  <2>4. owner = r /\ \A o \in Replicas : o # r => rep[o].pc \notin Holding
    BY <1>0, <1>1, <1>2, <2>3 DEF LockHeld, Holding
  <2>5. table /\ \A i \in 1..Indexes : i < x.k => index[i] = "valid"
    BY <1>0, <1>1, <2>3 DEF Progress
  <2>6. \A i \in 1..Indexes : i < n.k => index[i] = "valid"
    <3> TAKE i \in 1..Indexes
    <3>1. i < n.k => i < x.k \/ i = x.k
      BY <2>1
    <3> QED
      BY <1>6, <2>5, <3>1
  <2>7. owner' = owner /\ index' = index /\ table' = table
    BY <1>6 DEF CheckIndex
  <2> QED
    BY <1>0, <2>1, <2>2, <2>4, <2>5, <2>6, <2>7 DEF Advances, SchemaTypes
<1>7. CASE CheckIndex(r) /\ index[x.k] = "invalid"
  <2> DEFINE n == [x EXCEPT !.pc = "drop"]
  <2>1. n \in [pc: Pcs, k: Nat \ {0}] /\ n.pc = "drop" /\ n.k = x.k
    BY DEF Pcs, Holding
  <2>2. rep' = [rep EXCEPT ![r] = n]
    BY <1>1, <1>7 DEF CheckIndex, Goto
  <2> HIDE DEF n
  <2>3. x.pc = "check" /\ x.k \in 1..Indexes
    BY <1>0, <1>1, <1>7 DEF CheckIndex, Progress
  <2> QED
    BY <1>0, <1>1, <1>2, <1>7, <2>1, <2>2, <2>3 DEF Advances, Holding, SchemaTypes, LockHeld, CheckIndex, Progress
<1>8. CASE CheckIndex(r) /\ index[x.k] = "missing"
  <2> DEFINE n == [x EXCEPT !.pc = "create"]
  <2>1. n \in [pc: Pcs, k: Nat \ {0}] /\ n.pc = "create" /\ n.k = x.k
    BY DEF Pcs, Holding
  <2>2. rep' = [rep EXCEPT ![r] = n]
    BY <1>1, <1>8 DEF CheckIndex, Goto
  <2> HIDE DEF n
  <2>3. x.pc = "check" /\ x.k \in 1..Indexes
    BY <1>0, <1>1, <1>8 DEF CheckIndex, Progress
  <2> QED
    BY <1>0, <1>1, <1>2, <1>8, <2>1, <2>2, <2>3 DEF Advances, Holding, SchemaTypes, LockHeld, CheckIndex, Progress
<1>9. CASE DropIndex(r)
  <2> DEFINE n == [x EXCEPT !.pc = "create"]
  <2>1. n \in [pc: Pcs, k: Nat \ {0}] /\ n.pc = "create" /\ n.k = x.k
    BY DEF Pcs, Holding
  <2>2. rep' = [rep EXCEPT ![r] = n]
    BY <1>1, <1>9 DEF DropIndex, Goto
  <2> HIDE DEF n
  <2>3. x.pc = "drop" /\ x.k \in 1..Indexes /\ index[x.k] # "valid"
    BY <1>0, <1>1, <1>9 DEF DropIndex, Progress
  <2> QED
    BY <1>0, <1>1, <1>2, <1>9, <2>1, <2>2, <2>3 DEF Advances, Holding, SchemaTypes, LockHeld, DropIndex, Progress
<1>10. CASE CreateBegins(r)
  <2> DEFINE n == [x EXCEPT !.pc = "building"]
  <2>1. n \in [pc: Pcs, k: Nat \ {0}] /\ n.pc = "building" /\ n.k = x.k
    BY DEF Pcs, Holding
  <2>2. rep' = [rep EXCEPT ![r] = n]
    BY <1>1, <1>10 DEF CreateBegins, Goto
  <2> HIDE DEF n
  <2>3. x.pc = "create" /\ x.k \in 1..Indexes /\ index[x.k] # "valid"
    BY <1>0, <1>1, <1>10 DEF CreateBegins, Progress
  <2> QED
    BY <1>0, <1>1, <1>2, <1>10, <2>1, <2>2, <2>3 DEF Advances, Holding, SchemaTypes, LockHeld, CreateBegins, Progress
<1>11. CASE CreateEnds(r)
  <2> DEFINE n == [pc |-> "check", k |-> x.k + 1]
  <2>1. n \in [pc: Pcs, k: Nat \ {0}] /\ n.pc = "check" /\ n.k = x.k + 1
    BY DEF Pcs, Holding
  <2>2. rep' = [rep EXCEPT ![r] = n]
    BY <1>1, <1>11 DEF CreateEnds
  <2> HIDE DEF n
  <2>3. x.pc = "building" /\ x.k \in 1..Indexes /\ index[x.k] # "valid"
    BY <1>0, <1>1, <1>11 DEF CreateEnds, Progress
  <2>4. owner = r /\ \A o \in Replicas : o # r => rep[o].pc \notin Holding
    BY <1>0, <1>1, <1>2, <2>3 DEF LockHeld, Holding
  <2>5. table /\ \A i \in 1..Indexes : i < x.k => index[i] = "valid"
    BY <1>0, <1>1, <2>3 DEF Progress
  <2>6. owner' = owner /\ index' = [index EXCEPT ![x.k] = "valid"] /\ table' = table
    BY <1>1, <1>11 DEF CreateEnds
  <2>7. /\ index' \in [1..Indexes -> {"missing", "invalid", "valid"}]
        /\ \A i \in 1..Indexes : index'[i] = (IF i = x.k THEN "valid" ELSE index[i])
    BY <1>0, <2>6 DEF SchemaTypes
  <2>8. \A i \in 1..Indexes : i < n.k => index'[i] = "valid"
    <3> TAKE i \in 1..Indexes
    <3>1. i < n.k => i < x.k \/ i = x.k
      BY <2>1
    <3> QED
      BY <2>5, <2>7, <3>1
  <2> QED
    BY <1>0, <2>1, <2>2, <2>4, <2>5, <2>6, <2>7, <2>8 DEF Advances, SchemaTypes
<1>12. CASE Ready(r)
  <2> DEFINE n == [x EXCEPT !.pc = "ready"]
  <2>1. n \in [pc: Pcs, k: Nat \ {0}] /\ n.pc = "ready" /\ n.k = x.k
    BY DEF Pcs, Holding
  <2>2. rep' = [rep EXCEPT ![r] = n]
    BY <1>1, <1>12 DEF Ready, Goto
  <2> HIDE DEF n
  <2>3. x.pc = "check" /\ x.k > Indexes
    BY <1>0, <1>1, <1>12 DEF Ready, Progress
  <2>4. owner = r /\ \A o \in Replicas : o # r => rep[o].pc \notin Holding
    BY <1>0, <1>1, <1>2, <2>3 DEF LockHeld, Holding
  <2>5. table /\ \A i \in 1..Indexes : i < x.k => index[i] = "valid"
    BY <1>0, <1>1, <2>3 DEF Progress
  <2>6. \A i \in 1..Indexes : index[i] = "valid"
    <3> TAKE i \in 1..Indexes
    <3>1. i < x.k
      BY <2>3 DEF Distinct
    <3> QED
      BY <2>5, <3>1
  <2>7. index' = index /\ table' = table
    BY <1>12 DEF Ready
  <2> QED
    BY <1>0, <2>1, <2>2, <2>4, <2>5, <2>6, <2>7 DEF Advances, Holding, SchemaTypes
<1>13. CASE Fail(r)
  <2> DEFINE n == [pc |-> "off", k |-> 1]
  <2>1. n \in [pc: Pcs, k: Nat \ {0}] /\ n.pc = "off" /\ n.k = 1
    BY DEF Pcs, Holding
  <2>2. rep' = [rep EXCEPT ![r] = n]
    BY <1>1, <1>13 DEF Fail
  <2> HIDE DEF n
  <2>3. owner' = (IF owner = r THEN Orphan ELSE owner)
    BY <1>0, <1>1, <1>13 DEF Fail
  <2> QED
    BY <1>0, <1>1, <1>2, <1>13, <2>1, <2>2, <2>3 DEF Advances, Holding, SchemaTypes, LockHeld, Fail
<1>14. CASE CheckIndex(r)
  <2>1. x.k \in 1..Indexes
    BY <1>1, <1>14 DEF CheckIndex
  <2>2. index[x.k] \in {"missing", "invalid", "valid"}
    BY <1>0, <2>1 DEF SchemaTypes
  <2> QED
    BY <1>6, <1>7, <1>8, <1>14, <2>2
<1> QED
  BY <1>3, <1>4, <1>5, <1>9, <1>10, <1>11, <1>12, <1>13, <1>14 DEF Step

\* Every step keeps the invariant; the end of a dead session takes the lock from
\* nobody.
LEMMA SchemaStep == Distinct /\ SchemaInv /\ [Next]_vars => SchemaInv'
<1> SUFFICES ASSUME Distinct, SchemaInv, [Next]_vars PROVE SchemaInv'
  OBVIOUS
<1>1. CASE OrphanEnds
  BY <1>1 DEF OrphanEnds, Distinct, SchemaInv, SchemaTypes, LockHeld, Progress, ReadyMeansIndexed
<1>2. ASSUME NEW r \in Replicas, Step(r) \/ Fail(r) PROVE SchemaInv'
  BY <1>2, ReplicaStep, AdvanceKeeps
<1>3. CASE UNCHANGED vars
  BY <1>3 DEF vars, SchemaInv, SchemaTypes, LockHeld, Progress, ReadyMeansIndexed
<1> QED
  BY <1>1, <1>2, <1>3 DEF Next

\* The invariant holds of an empty database.
LEMMA SchemaInit == Init => SchemaInv
<1> SUFFICES ASSUME Init PROVE SchemaInv
  OBVIOUS
<1>1. SchemaTypes
  <2>1. [pc |-> "off", k |-> 1] \in [pc: Pcs, k: Nat \ {0}]
    BY DEF Pcs
  <2>2. rep \in [Replicas -> [pc: Pcs, k: Nat \ {0}]]
    BY <2>1 DEF Init
  <2> QED
    BY <2>2 DEF Init, SchemaTypes
<1> QED
  BY <1>1 DEF Init, SchemaInv, LockHeld, Progress, ReadyMeansIndexed, Holding

\* A replica that _initialize_postgres_schema lets serve has the table and every
\* capacity index, valid, for as long as it serves: whatever other replicas start,
\* fail or leave half built.
THEOREM ServesWithSchema == Distinct => (Spec => []ReadyMeansIndexed)
<1>1. SchemaInv => ReadyMeansIndexed
  BY DEF SchemaInv
<1> SUFFICES ASSUME Distinct PROVE Spec => []ReadyMeansIndexed
  OBVIOUS
<1>2. SchemaInv /\ [Next]_vars => SchemaInv'
  BY SchemaStep
<1> QED
  BY <1>1, <1>2, SchemaInit, PTL DEF Spec
=============================================================================
