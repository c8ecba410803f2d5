----------------------------- MODULE Admission -----------------------------
(***************************************************************************)
(* Admission to the quarantine: QuarantineStore.put (quarantine_store.py)  *)
(* and QuarantineRepository.store (repository.py).  A put reads the row of *)
(* its identity, pays a rate charge, encrypts, and only then stores, in a  *)
(* transaction that looks at the row again.  Reviewers, the sweeper and    *)
(* other puts move the row meanwhile.                                      *)
(*                                                                         *)
(* An input is what put is given: the identity it resolves to, its kind,   *)
(* scope (the writer, or what stands for one), bank and size.  Equal       *)
(* inputs carry the same evidence; its hash also covers the timestamp.     *)
(***************************************************************************)
EXTENDS Integers, FiniteSets, FiniteSetsExt, Functions

CONSTANTS
    Puts,
    Inputs,             \* [id, kind, scope, bank, size]
    Before,             \* sets of inputs the queue may hold at first
    MaxItem,            \* max_item_bytes
    MaxPending,         \* max_pending_items
    MaxWriter,          \* max_pending_items_per_writer, 0 for no limit
    MaxBank,            \* max_pending_items_per_bank, 0 for no limit
    MaxBytes,           \* max_encrypted_bytes
    MaxEvents,          \* SECURITY_EVENT_IDENTITY_LIMIT
    Ttl,                \* item_ttl_days
    WrapSlots,          \* _MAX_CONCURRENT_WRAPS
    RatePool, MainPool, \* sizes of the two connection pools
    MaxTime             \* bound of the model's clock

Ids == {i.id : i \in Inputs}
Kinds == {"request", "memory", "event", "audit"}

ASSUME AdmissionAssumption ==
    /\ \A i \in Inputs : i.kind \in Kinds /\ i.size \in Nat \ {0}
    /\ \A i, j \in Inputs : i.id = j.id => i.kind = j.kind
    /\ RatePool \in Nat \ {0} /\ MainPool \in Nat \ {0} /\ WrapSlots \in Nat \ {0}

VARIABLES
    clock,
    row,        \* id -> its row of quarantine_items, or NoRow
    put         \* put -> its program counter and what it carries

vars == <<clock, row, put>>

NoRow == [status |-> "none"]
Reviewable == {"pending", "postponed"}

\* A row: [status, input, at, expires, count, envelope]; at is the timestamp its
\* envelope was made with, envelope whether it still has one.  A put carries its
\* input and timestamp, the row it read, and the admission classes it paid for.
NoPut == [pc |-> "idle"]

-----------------------------------------------------------------------------
Goto(p, pc) == put' = [put EXCEPT ![p].pc = pc]
Fails(p) == put' = [put EXCEPT ![p] = [pc |-> "failed"]]

\* Connections and slots in use.
WithSlot == {p \in Puts : put[p].pc = "wrapping"}
OnRatePool == {p \in Puts : put[p].pc \in {"connected", "locked", "checked", "storing"}}
OnMainPool == {p \in Puts : put[p].pc = "storing"}

\* _known_identity: an item without a stable identity is always new.
Class(exists) == IF exists THEN "known" ELSE "new"

\* _assert_writable
Writable(i, r) ==
    /\ r.status # "in_review"
    /\ i.kind = "request" => r.status \in Reviewable \cup {"none"}

\* _assert_item_size
FitsItem(i) == i.size <= MaxItem

\* Up to _assert_item_size: the identity's row is read and fingerprinted.
Preflight(p, i) ==
    /\ put[p].pc = "idle"
    /\ Cardinality(OnMainPool) < MainPool
    /\ IF FitsItem(i)
         THEN put' = [put EXCEPT ![p] = [pc |-> "read", input |-> i, at |-> clock,
                                         snap |-> row[i.id], paid |-> {}]]
         ELSE Fails(p)
    /\ UNCHANGED <<clock, row>>

\* The early charge, committed on its own, and _assert_writable.
Charge(p) ==
    /\ put[p].pc = "read"
    /\ Cardinality(OnRatePool) < RatePool
    /\ IF Writable(put[p].input, put[p].snap)
         THEN put' = [put EXCEPT ![p] = [@ EXCEPT !.pc = "charged",
                                                  !.paid = {Class(put[p].snap # NoRow)}]]
         ELSE Fails(p)
    /\ UNCHANGED <<clock, row>>

TakeSlot(p) ==
    /\ put[p].pc = "charged"
    /\ Cardinality(WithSlot) < WrapSlots
    /\ Goto(p, "wrapping")
    /\ UNCHANGED <<clock, row>>

Encrypt(p) ==
    /\ put[p].pc = "wrapping"
    /\ Goto(p, "wrapped")
    /\ UNCHANGED <<clock, row>>

\* with_identity_lock: a transaction of the rate pool, then an advisory lock
\* that lasts as long as the transaction.
Connect(p) ==
    /\ put[p].pc = "wrapped"
    /\ Cardinality(OnRatePool) < RatePool
    /\ Goto(p, "connected")
    /\ UNCHANGED <<clock, row>>

LockIdentity(p) ==
    /\ put[p].pc = "connected"
    /\ \A o \in Puts : put[o].pc \in {"locked", "checked", "storing"}
                          => put[o].input.id # put[p].input.id
    /\ Goto(p, "locked")
    /\ UNCHANGED <<clock, row>>

\* The second read and _assert_writable.
Recheck(p) ==
    /\ put[p].pc = "locked"
    /\ Cardinality(OnMainPool) < MainPool
    /\ IF Writable(put[p].input, row[put[p].input.id]) THEN Goto(p, "checked") ELSE Fails(p)
    /\ UNCHANGED <<clock, row>>

OpenStore(p) ==
    /\ put[p].pc = "checked"
    /\ Cardinality(OnMainPool) < MainPool
    /\ Goto(p, "storing")
    /\ UNCHANGED <<clock, row>>

-----------------------------------------------------------------------------
(* repository.store; the capacity lock makes it one step                   *)

Expired(r, at) == r.status \in Reviewable /\ r.expires <= at
Pending(at) == {q \in Ids : row[q].status \in Reviewable /\ row[q].expires > at}
Counted(at) == {q \in Ids : row[q] # NoRow /\ ~Expired(row[q], at)}
BytesOf(r) == IF r # NoRow /\ r.envelope THEN r.input.size ELSE 0
Bytes(Q) == MapThenSumSet(LAMBDA q : BytesOf(row[q]), Q)
EventIds == {q \in Ids : row[q] # NoRow /\ row[q].input.kind \in {"event", "audit"}}

\* _same_evidence: the same hash, or the row's envelope holds the same evidence
\* under another timestamp.
SameEvidence(i, at, r) == i = r.input /\ (at = r.at \/ r.envelope)

\* The snapshot check: the row is as the put read it, or gone, or holds the
\* same evidence.
FreshFault(p, r) ==
    \/ r = NoRow \/ put[p].snap = NoRow \/ put[p].snap = r
    \/ SameEvidence(put[p].input, put[p].at, r)

Fresh(p, r) ==
    \/ r = NoRow \/ put[p].snap = r
    \/ SameEvidence(put[p].input, put[p].at, r)

\* _assert_capacity: the totals at the put's timestamp, with the existing row
\* taken out, if it was counted, and the item put in.
TotalsAllowFault(i, at) ==
    LET r == row[i.id] IN
    /\ i.kind \in {"event", "audit"} /\ r = NoRow => Cardinality(EventIds) < MaxEvents
    /\ Cardinality(Pending(at) \ {i.id}) + 1 <= MaxPending
    /\ Bytes(Counted(at)) - BytesOf(r) + i.size <= MaxBytes

TotalsAllow(i, at) ==
    LET r == row[i.id] IN
    /\ i.kind \in {"event", "audit"} /\ r = NoRow => Cardinality(EventIds) < MaxEvents
    /\ Cardinality(Pending(at) \ {i.id}) + 1 <= MaxPending
    /\ Bytes(Counted(at)) - (IF Expired(r, at) THEN 0 ELSE BytesOf(r)) + i.size <= MaxBytes

\* _scoped_pending_count, _same_scope and _assert_bank_capacity.  Anonymous
\* authentication failures are exempt.
Scope(i, at) == {q \in Pending(at) : row[q].input.scope = i.scope}
Bank(i, at) == {q \in Pending(at) : row[q].input.bank = i.bank}

ScopeAllowsFault(i, at) ==
    LET own == IF i.id \in Pending(at) THEN 1 ELSE 0 IN
    i.kind # "audit" =>
        /\ MaxBank > 0 /\ i.bank # "none" => Cardinality(Bank(i, at)) - own + 1 <= MaxBank
        /\ MaxWriter > 0 => Cardinality(Scope(i, at)) - own + 1 <= MaxWriter

ScopeAllows(i, at) ==
    i.kind # "audit" =>
        /\ MaxBank > 0 /\ i.bank # "none" => Cardinality(Bank(i, at) \ {i.id}) + 1 <= MaxBank
        /\ MaxWriter > 0 => Cardinality(Scope(i, at) \ {i.id}) + 1 <= MaxWriter

\* insert_item, _reopen_expired, _reopen_reviewed_memory or _refresh, which
\* leaves status and expiry alone.
Inserted(i, at) ==
    [status |-> "pending", input |-> i, at |-> at, expires |-> at + Ttl,
     count |-> 0, envelope |-> TRUE]
Written(i, at, r) ==
    IF r = NoRow THEN Inserted(i, at)
    ELSE IF Expired(r, at) \/ (i.kind = "memory" /\ r.status = "allowed")
      THEN [Inserted(i, at) EXCEPT !.count = r.count + 1]
    ELSE [r EXCEPT !.input = i, !.at = at, !.count = @ + 1, !.envelope = TRUE]

\* charge_current_identity: the put pays for the class that the row, as it is
\* now, puts it in.  The charge is made on the transaction that stores, and needs
\* no further connection.
PaysFault(p, r) == put[p].paid
Pays(p, r) == put[p].paid \cup {Class(r # NoRow)}
CanPayFault(p) == Cardinality(OnRatePool) < RatePool
CanPay(p) == TRUE

Store(p) ==
    LET i == put[p].input
        at == put[p].at
        r == row[i.id]
    IN /\ put[p].pc = "storing"
       /\ IF Writable(i, r) /\ Fresh(p, r) /\ TotalsAllow(i, at) /\ ScopeAllows(i, at)
            THEN /\ CanPay(p)
                 /\ row' = [row EXCEPT ![i.id] = Written(i, at, r)]
                 /\ put' = [put EXCEPT ![p] = [pc |-> "stored", paid |-> Pays(p, r),
                                                 got |-> Class(r # NoRow)]]
            ELSE Fails(p) /\ UNCHANGED row
       /\ UNCHANGED clock

\* A charge is refused, the key service fails, a connection is lost, or the
\* request is cancelled: what it holds is given back, what it paid is not.
Fail(p) ==
    /\ put[p].pc \notin {"idle", "stored", "failed"}
    /\ Fails(p)
    /\ UNCHANGED <<clock, row>>

-----------------------------------------------------------------------------
(* Reviewers and sweeper, as far as admission can tell                     *)

SetRow(q, r) == row' = [row EXCEPT ![q] = r] /\ UNCHANGED <<clock, put>>

Claim(q) ==
    /\ row[q].status \in Reviewable /\ ~Expired(row[q], clock)
    /\ SetRow(q, [row[q] EXCEPT !.status = "in_review"])

Reopen(q) ==
    /\ row[q].status = "in_review"
    /\ SetRow(q, [row[q] EXCEPT !.status = "postponed"])

\* A memory is kept with its decision and without its envelope.
Decide(q, verdict) ==
    /\ row[q].status = "in_review" /\ row[q].input.kind = "memory"
    /\ SetRow(q, [row[q] EXCEPT !.status = verdict, !.envelope = FALSE])

\* Anything else leaves with its decision; a row also leaves when it expires.
Leave(q) ==
    /\ \/ row[q].status = "in_review" /\ row[q].input.kind # "memory"
       \/ row[q] # NoRow /\ Expired(row[q], clock)
    /\ SetRow(q, NoRow)

Tick ==
    /\ clock < MaxTime
    /\ clock' = clock + 1
    /\ UNCHANGED <<row, put>>

-----------------------------------------------------------------------------
\* The queue may hold pending items from before.
Init ==
    /\ clock = 0
    /\ \E S \in Before : row = [q \in Ids |-> IF \E i \in S : i.id = q
                               THEN Inserted(CHOOSE i \in S : i.id = q, 0) ELSE NoRow]
    /\ put = [p \in Puts |-> NoPut]

Step(p) ==
    \/ Charge(p) \/ TakeSlot(p) \/ Encrypt(p) \/ Connect(p) \/ LockIdentity(p)
    \/ Recheck(p) \/ OpenStore(p) \/ Store(p)

Review(q) == Claim(q) \/ Reopen(q) \/ Leave(q) \/ \E v \in {"allowed", "blocked"} : Decide(q, v)

Next ==
    \/ Tick
    \/ \E p \in Puts : Step(p) \/ Fail(p) \/ \E i \in Inputs : Preflight(p, i)
    \/ \E q \in Ids : Review(q)

\* A put that has begun goes on; the pools serve waiters in turn.
Fairness == \A p \in Puts : WF_vars(Step(p))

Spec == Init /\ [][Next]_vars /\ Fairness

-----------------------------------------------------------------------------
(* Properties                                                              *)

\* The stored bytes that count, and the identities of security events, never
\* exceed their limits, whatever puts, expiry, claims and decisions interleave.
StorageBounded ==
    Bytes(Counted(clock)) <= MaxBytes /\ Cardinality(EventIds) <= MaxEvents

Stores(p) == put[p].pc = "storing" /\ put'[p].pc = "stored"

\* A put that is stored leaves no more reviewable items than the limits allow:
\* in all, for its writer and for its bank.  (A claim makes room that its
\* recovery takes back, so the totals themselves may pass the limits later.)
AdmitsWithinLimits ==
    [][\A p \in Puts, at \in 0..MaxTime : Stores(p) /\ put[p].at = at =>
         LET i == put[p].input
         IN /\ Cardinality(Pending(at)') <= MaxPending
            /\ i.kind # "audit" /\ MaxWriter > 0 =>
                 Cardinality({q \in Pending(at)' : row'[q].input.scope = i.scope}) <= MaxWriter
            /\ i.kind # "audit" /\ MaxBank > 0 /\ i.bank # "none" =>
                 Cardinality({q \in Pending(at)' : row'[q].input.bank = i.bank}) <= MaxBank]_vars

\* A put that replaces evidence, or reopens what a reviewer allowed, had read
\* that evidence, or that decision, before it encrypted its own: nothing a
\* concurrent put stored or a reviewer decided meanwhile is overwritten.
OverwritesWhatItRead ==
    [][\A p \in Puts : Stores(p) =>
         LET i == put[p].input
             r == row[i.id]
             evidence == r # NoRow /\ r.input # i
             decision == r.status = "allowed" /\ r.at # put[p].at
         IN evidence \/ decision =>
              put[p].snap # NoRow /\ put[p].snap.input = r.input /\ put[p].snap.status = r.status]_vars

\* A put that was stored has paid for what it got: a place for a new identity
\* or an operation on a known one, even if the row came or went after the
\* early charge.
PaidForWhatItGot == \A p \in Puts : put[p].pc = "stored" => put[p].got \in put[p].paid

\* Every put ends: no put waits for a connection held by one that waits for it.
PutsEnd == \A p \in Puts : put[p].pc # "idle" ~> put[p].pc \in {"stored", "failed"}
=============================================================================
