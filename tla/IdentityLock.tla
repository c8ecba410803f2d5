---------------------------- MODULE IdentityLock ----------------------------
(***************************************************************************)
(* InMemoryRateLimiter.with_identity_lock (rate_limit.py).  A lock is an   *)
(* object kept in a table with the number of its users; the entry is       *)
(* dropped with the last user, and a later user makes a new object.        *)
(* Nothing is awaited while the guard is held, so each of its critical     *)
(* sections is one step.                                                   *)
(***************************************************************************)
EXTENDS Integers, FiniteSets, FiniteSetsExt

CONSTANTS
    Tasks,
    Identities      \* what with_identity_lock is called with

None == 0
Objects == 1..Cardinality(Tasks)

VARIABLES
    locks,      \* identity -> [obj, users]
    holder,     \* lock object -> the task inside it, or None
    task        \* task -> [pc, id, obj]

vars == <<locks, holder, task>>

NoLock == [obj |-> None, users |-> 0]

Init ==
    /\ locks = [i \in Identities |-> NoLock]
    /\ holder = [o \in Objects |-> None]
    /\ task = [t \in Tasks |-> [pc |-> "out", id |-> "none", obj |-> None]]

-----------------------------------------------------------------------------
Outside == {t \in Tasks : task[t].pc = "out"}
InUse == {task[t].obj : t \in Tasks \ Outside}

\* The first critical section: the entry's lock, or a new one.
Enter(t, i) ==
    LET obj == IF locks[i] = NoLock THEN Min(Objects \ InUse) ELSE locks[i].obj
    IN /\ t \in Outside
       /\ locks' = [locks EXCEPT ![i] = [obj |-> obj, users |-> @.users + 1]]
       /\ task' = [task EXCEPT ![t] = [pc |-> "waiting", id |-> i, obj |-> obj]]
       /\ UNCHANGED holder

Take(t) ==
    /\ task[t].pc = "waiting"
    /\ holder[task[t].obj] = None
    /\ holder' = [holder EXCEPT ![task[t].obj] = t]
    /\ task' = [task EXCEPT ![t].pc = "inside"]
    /\ UNCHANGED locks

\* The task is cancelled while it waits.
GiveUp(t) ==
    /\ task[t].pc = "waiting"
    /\ task' = [task EXCEPT ![t].pc = "leaving"]
    /\ UNCHANGED <<locks, holder>>

\* The operation returns, raises or is cancelled.
LeaveLock(t) ==
    /\ task[t].pc = "inside"
    /\ holder' = [holder EXCEPT ![task[t].obj] = None]
    /\ task' = [task EXCEPT ![t].pc = "leaving"]
    /\ UNCHANGED locks

\* The second critical section: the entry goes with its last user.
ExitFault(t) ==
    /\ task[t].pc = "leaving"
    /\ locks' = [locks EXCEPT ![task[t].id] = NoLock]
    /\ task' = [task EXCEPT ![t] = [pc |-> "out", id |-> "none", obj |-> None]]
    /\ UNCHANGED holder

Exit(t) ==
    /\ task[t].pc = "leaving"
    /\ locks' = [locks EXCEPT ![task[t].id] =
         IF @.obj # task[t].obj THEN @
         ELSE IF @.users = 1 THEN NoLock
         ELSE [@ EXCEPT !.users = @ - 1]]
    /\ task' = [task EXCEPT ![t] = [pc |-> "out", id |-> "none", obj |-> None]]
    /\ UNCHANGED holder

Next ==
    \E t \in Tasks :
        \/ \E i \in Identities : Enter(t, i)
        \/ Take(t) \/ GiveUp(t) \/ LeaveLock(t) \/ Exit(t)

Spec == Init /\ [][Next]_vars

-----------------------------------------------------------------------------
(* Properties                                                              *)

\* At most one operation at a time works on an identity, although the lock of
\* an identity is thrown away and made again while tasks wait, are cancelled
\* and leave.
IdentityExclusive ==
    \A i \in Identities :
        Cardinality({t \in Tasks : task[t].pc = "inside" /\ task[t].id = i}) <= 1
=============================================================================
