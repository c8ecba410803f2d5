------------------------------- MODULE Review -------------------------------
(***************************************************************************)
(* The review life cycle of quarantined items: the transactions of         *)
(* memory_router/review_repository.py, the admin requests of               *)
(* memory_router/admin.py that string them together around a call to       *)
(* Hindsight, and the maintenance and admission transactions that touch    *)
(* the same rows.                                                          *)
(*                                                                         *)
(* One `async with db.transaction()` is one step.  Everything a request    *)
(* carries from one transaction to the next is in `req`, so other requests *)
(* interleave at every await.                                              *)
(***************************************************************************)
EXTENDS Integers, FiniteSets

CONSTANTS
    Reviewers,        \* admin requests that may run at the same time
    Items,            \* quarantine ids (derived from the item's identity)
    Kind,             \* column kind, a function of the id
    Shas,             \* plaintext digests: what a reviewer decides about
    Ttl,              \* item TTL; 0 disables expiry
    StaleSeconds,     \* age at which a review_in_progress claim is stale
    MaxPostpones,     \* QUARANTINE_MAX_POSTPONES
    Lag,              \* how far `at = iso_now()` may lie behind the newest clock
    OperatorLatency,  \* least age of a claim when an operator reconciles it
    MaxTime,          \* bound: the clock stops here
    MaxInserts        \* bound: how often one id may be inserted

Kinds == {"retain_request", "recalled_memory", "security_event"}

\* Commits lag behind their `at` by lock waits and by replica clock skew: far
\* less than the minute after which a claim is stale, and less than the time
\* an operator needs to inspect Hindsight before a reconcile request.
ASSUME TimingAssumption ==
    /\ Kind \in [Items -> Kinds]
    /\ Ttl \in Nat /\ StaleSeconds \in Nat /\ MaxPostpones \in Nat
    /\ Lag \in Nat /\ OperatorLatency \in Nat /\ MaxTime \in Nat
    /\ MaxInserts \in Nat
    /\ Lag < StaleSeconds
    /\ Lag < OperatorLatency

VARIABLES
    now,          \* the newest clock of any replica
    row,          \* row[q]: the row of quarantine_items, or Absent
    req,          \* req[p]: where admin request p stands and what it holds
    wire,         \* calls Hindsight has received or may yet receive
    applied,      \* calls Hindsight has carried out
    gen,          \* gen[q]: how often q has been inserted (history)
    misreported   \* misreported[q]: a reconcile verdict on this row was wrong

vars == <<now, row, req, wire, applied, gen, misreported>>
upstream == <<wire, applied>>

Reviewable == {"pending", "postponed"}
InReview == {"review_in_progress", "review_side_effect_started",
             "review_side_effect_completed"}
Final == {"reviewed_allowed", "reviewed_blocked"}
Statuses == Reviewable \cup InReview \cup Final \cup {"absent"}

None == "none"
Never == -1

Row == [status : Statuses, sha : Shas \cup {None}, updated_at : Nat,
        expires_at : Nat \cup {Never}, postpone_count : 0..MaxPostpones,
        payload : BOOLEAN]
Absent == [status |-> "absent", sha |-> None, updated_at |-> 0,
           expires_at |-> Never, postpone_count |-> 0, payload |-> FALSE]

\* What a request holds: the item it names, the snapshot (sha, stamp, prev)
\* it read or, once it has claimed the row, the claim token `at` (stamp) and
\* the status to restore (prev).
Request == [pc : {"idle", "read", "effect", "waiting", "failed", "complete",
                  "finish", "mark", "verdict"},
            q : Items \cup {None},
            op : {"approve", "reject", "reconcile", None},
            sha : Shas \cup {None}, stamp : Nat, prev : Statuses, gen : Nat]
NoRequest == [pc |-> "idle", q |-> None, op |-> None, sha |-> None,
              stamp |-> 0, prev |-> "absent", gen |-> 0]

\* A call to Hindsight (retain or invalidate_memory) made for one claim.
Call == [q : Items, gen : Nat, at : Nat, by : Reviewers, sha : Shas \cup {None}]

Instants == {at \in 0..now : now <= at + Lag}

Expired(r, at) == r.expires_at # Never /\ r.expires_at <= at
\* Fault: an uncertain effect is recovered like an idle claim.
StaleFault(r, at) ==
    /\ r.status \in {"review_in_progress", "review_side_effect_started"}
    /\ at - r.updated_at >= StaleSeconds
Stale(r, at) == r.status = "review_in_progress" /\ at - r.updated_at >= StaleSeconds
ExpiresAt(at) == IF Ttl > 0 THEN at + Ttl ELSE Never

\* Only these two decisions call Hindsight; approving a recalled memory is a
\* decision of the router's own.
Effectful(q, op) == \/ Kind[q] = "retain_request" /\ op = "approve"
                    \/ Kind[q] = "recalled_memory" /\ op = "reject"
Claims(q, op) == Effectful(q, op) \/ (Kind[q] = "recalled_memory" /\ op = "approve")
ClaimStatus(q, op) == IF Effectful(q, op) THEN "review_side_effect_started"
                                          ELSE "review_in_progress"

TheCall(p) == [q |-> req[p].q, gen |-> req[p].gen, at |-> req[p].stamp,
               by |-> p, sha |-> req[p].sha]

\* The request found the effect completed: only the final step is missing.
Resumes(p) == /\ req[p].prev = "review_side_effect_completed"
              /\ Effectful(req[p].q, req[p].op)
Matches(r, p) == r.sha = req[p].sha /\ r.updated_at = req[p].stamp

SetReq(p, r) == req' = [req EXCEPT ![p] = r]
Done(p) == SetReq(p, NoRequest)
Goto(p, label) == SetReq(p, [req[p] EXCEPT !.pc = label])
SetRow(q, r) == row' = [row EXCEPT ![q] = r]

-----------------------------------------------------------------------------
(* Reading: the checks admin.py makes before it opens the transaction.     *)

ReadCandidate(p, q, op) ==
    /\ req[p].pc = "idle"
    /\ Claims(q, op)
    /\ row[q].status \in Reviewable \cup {"review_in_progress",
                                          "review_side_effect_completed"}
    /\ row[q].status \in Reviewable => \E at \in Instants : ~Expired(row[q], at)
    /\ op = "approve" => row[q].payload
    /\ SetReq(p, [pc |-> "read", q |-> q, op |-> op, sha |-> row[q].sha,
                  stamp |-> row[q].updated_at, prev |-> row[q].status, gen |-> 0])
    /\ UNCHANGED <<now, row, upstream, gen, misreported>>

ReadUncertain(p, q) ==
    /\ req[p].pc = "idle"
    /\ row[q].status = "review_side_effect_started"
    /\ SetReq(p, [pc |-> "verdict", q |-> q, op |-> "reconcile", sha |-> row[q].sha,
                  stamp |-> row[q].updated_at, prev |-> row[q].status, gen |-> 0])
    /\ UNCHANGED <<now, row, upstream, gen, misreported>>

-----------------------------------------------------------------------------
(* The transactions of a review request.                                   *)

\* _mutate_review and _recover_stale_for_action: the row the mutation sees.
Recovered(r, at) ==
    IF Stale(r, at) THEN [r EXCEPT !.status = "postponed", !.updated_at = at] ELSE r
Mutable(r, at) == r.status \in Reviewable /\ ~Expired(r, at)

ClaimReview(p) ==
    /\ req[p].pc = "read"
    /\ ~Resumes(p)
    /\ Matches(row[req[p].q], p)
    /\ \E at \in Instants :
         LET q == req[p].q
             r == Recovered(row[q], at)
         IN  /\ Mutable(r, at)
             /\ SetRow(q, [r EXCEPT !.status = ClaimStatus(q, req[p].op),
                                    !.updated_at = at])
             /\ SetReq(p, [req[p] EXCEPT
                  !.pc = IF Effectful(q, req[p].op) THEN "effect" ELSE "mark",
                  !.stamp = at, !.prev = r.status, !.gen = gen[q]])
    /\ UNCHANGED <<now, upstream, gen, misreported>>

\* postpone and reject of anything but a recalled memory (remove) use nothing
\* of what they read before their transaction, and what makes the row mutable
\* makes it a candidate: each is one step.
\* Fault: the postpone limit is not enforced.
PostponeFault(q) ==
    /\ \E at \in Instants :
         LET r == Recovered(row[q], at) IN
         /\ Mutable(r, at)
         /\ SetRow(q, [r EXCEPT !.status = "postponed", !.updated_at = at,
                                !.postpone_count = r.postpone_count + 1])
    /\ UNCHANGED <<now, req, upstream, gen, misreported>>

Postpone(q) ==
    /\ \E at \in Instants :
         LET r == Recovered(row[q], at) IN
         /\ Mutable(r, at)
         /\ r.postpone_count < MaxPostpones
         /\ SetRow(q, [r EXCEPT !.status = "postponed", !.updated_at = at,
                                !.postpone_count = r.postpone_count + 1])
    /\ UNCHANGED <<now, req, upstream, gen, misreported>>

Remove(q) ==
    /\ Kind[q] # "recalled_memory"
    /\ \E at \in Instants : Mutable(Recovered(row[q], at), at)
    /\ SetRow(q, Absent)
    /\ UNCHANGED <<now, req, upstream, gen, misreported>>

\* Any of these requests deletes a stale claim on an expired item (its
\* transaction commits) and then answers 409; a claim keeps its request.
ExpireStaleClaim(q) ==
    /\ \E at \in Instants : Stale(row[q], at) /\ Expired(row[q], at)
    /\ SetRow(q, Absent)
    /\ UNCHANGED <<now, req, upstream, gen, misreported>>

CompleteSideEffect(p) ==
    /\ req[p].pc = "complete"
    /\ row[req[p].q].status = "review_side_effect_started"
    /\ Matches(row[req[p].q], p)
    /\ SetRow(req[p].q,
              [row[req[p].q] EXCEPT !.status = "review_side_effect_completed"])
    /\ Goto(p, "finish")
    /\ UNCHANGED <<now, upstream, gen, misreported>>

Reviewed(r, status) == [r EXCEPT !.status = status, !.payload = FALSE]

\* finish_approve_retain deletes the row, finish_reject_memory keeps the
\* decision.  Also the whole of a request that found the effect completed.
FinishSideEffect(p) ==
    /\ req[p].pc = "finish" \/ (req[p].pc = "read" /\ Resumes(p))
    /\ row[req[p].q].status = "review_side_effect_completed"
    /\ Matches(row[req[p].q], p)
    /\ SetRow(req[p].q, IF Kind[req[p].q] = "retain_request" THEN Absent
                        ELSE Reviewed(row[req[p].q], "reviewed_blocked"))
    /\ Done(p)
    /\ UNCHANGED <<now, upstream, gen, misreported>>

FinishApproveMemory(p) ==
    /\ req[p].pc = "mark"
    /\ row[req[p].q].status = "review_in_progress"
    /\ Matches(row[req[p].q], p)
    /\ SetRow(req[p].q, Reviewed(row[req[p].q], "reviewed_allowed"))
    /\ Done(p)
    /\ UNCHANGED <<now, upstream, gen, misreported>>

\* Fault: a late interrupt does not check that the claim is still its own.
InterruptReviewFault(p) ==
    /\ req[p].pc = "failed"
    /\ row[req[p].q].status \in {"review_in_progress", "review_side_effect_started"}
    /\ row' = [row EXCEPT ![req[p].q].status = req[p].prev]
    /\ Done(p)
    /\ UNCHANGED <<now, upstream, gen, misreported>>

InterruptReview(p) ==
    /\ req[p].pc = "failed"
    /\ LET r == row[req[p].q] IN
       IF /\ r.status \in {"review_in_progress", "review_side_effect_started"}
          /\ r.updated_at = req[p].stamp
       THEN SetRow(req[p].q, [r EXCEPT !.status = req[p].prev])
       ELSE row' = row
    /\ Done(p)
    /\ UNCHANGED <<now, upstream, gen, misreported>>

-----------------------------------------------------------------------------
(* The call to Hindsight and what the request learns of it.                *)

SendEffect(p) ==
    /\ req[p].pc = "effect"
    /\ wire' = wire \cup {TheCall(p)}
    /\ Goto(p, "waiting")
    /\ UNCHANGED <<now, row, applied, gen, misreported>>

\* Hindsight is external: it may carry out a call at any time after it was
\* sent, also when the request has timed out or died, or never.
UpstreamApply(c) ==
    /\ c \in wire
    /\ wire' = wire \ {c} /\ applied' = applied \cup {c}
    /\ UNCHANGED <<now, row, req, gen, misreported>>

UpstreamLose(c) ==
    /\ c \in wire
    /\ wire' = wire \ {c}
    /\ UNCHANGED <<now, row, req, applied, gen, misreported>>

\* Fault: an unreadable answer counts as success.
EffectSucceedsFault(p) ==
    /\ req[p].pc = "waiting"
    /\ Goto(p, "complete")
    /\ UNCHANGED <<now, row, upstream, gen, misreported>>

EffectSucceeds(p) ==
    /\ req[p].pc = "waiting" /\ TheCall(p) \in applied
    /\ Goto(p, "complete")
    /\ UNCHANGED <<now, row, upstream, gen, misreported>>

\* Fault: a timeout counts as a definite failure.
EffectDefinitelyFailsFault(p) ==
    /\ req[p].pc \in {"effect", "waiting"}
    /\ Goto(p, "failed")
    /\ UNCHANGED <<now, row, upstream, gen, misreported>>

\* A definite failure: Hindsight answers 4xx and has not carried out the
\* call, or an error before the request leaves (not a HindsightGatewayError).
EffectDefinitelyFails(p) ==
    /\ \/ req[p].pc = "waiting" /\ TheCall(p) \in wire
       \/ req[p].pc = "effect"
    /\ wire' = wire \ {TheCall(p)}
    /\ Goto(p, "failed")
    /\ UNCHANGED <<now, row, applied, gen, misreported>>

\* finish_approve_memory raises: the handler goes on to interrupt_review.
MarkFails(p) ==
    /\ req[p].pc = "mark"
    /\ Goto(p, "failed")
    /\ UNCHANGED <<now, row, upstream, gen, misreported>>

\* The request ends where it stands: a refused check (409, 404, 429), an
\* ambiguous answer from Hindsight, a failed transaction, a cancellation
\* (not an Exception, so no handler runs) or a crash of the process.
Abandon(p) ==
    /\ req[p].pc # "idle"
    /\ Done(p)
    /\ UNCHANGED <<now, row, upstream, gen, misreported>>

-----------------------------------------------------------------------------
(* Reconciliation of an uncertain effect by an operator.                   *)

Concerns(c, q) == c.q = q /\ c.gen = gen[q]
AboutToCall(p, q) == req[p].pc = "effect" /\ req[p].q = q /\ req[p].gen = gen[q]

\* The effect on this row has happened, or may still happen.
Exposed(q) == \/ \E c \in wire \cup applied : Concerns(c, q)
              \/ \E p \in Reviewers : AboutToCall(p, q)
Landed(q) == \E c \in applied : Concerns(c, q)

\* _require_side_effect_started with the operator's expected sha and instant.
Reconcilable(p, at) ==
    /\ req[p].pc = "verdict"
    /\ row[req[p].q].status = "review_side_effect_started"
    /\ Matches(row[req[p].q], p)
    /\ at >= req[p].stamp + OperatorLatency

ConfirmApplied(p) ==
    /\ \E at \in Instants :
         /\ Reconcilable(p, at)
         /\ SetRow(req[p].q,
                   [row[req[p].q] EXCEPT !.status = "review_side_effect_completed",
                                         !.updated_at = at])
         /\ SetReq(p, [req[p] EXCEPT !.pc = "finish", !.stamp = at])
    /\ misreported' = [misreported EXCEPT ![req[p].q] = @ \/ ~Landed(req[p].q)]
    /\ UNCHANGED <<now, upstream, gen>>

ConfirmNotApplied(p) ==
    /\ \E at \in Instants :
         /\ Reconcilable(p, at)
         /\ SetRow(req[p].q, [row[req[p].q] EXCEPT !.status = "postponed",
                                                   !.updated_at = at])
    /\ Done(p)
    /\ misreported' = [misreported EXCEPT ![req[p].q] = @ \/ Exposed(req[p].q)]
    /\ UNCHANGED <<now, upstream, gen>>

-----------------------------------------------------------------------------
(* Maintenance: the transactions of the sweeper and of admin cleanup.      *)

\* Fault: recovery only deletes expired claims and restores none.
RecoverRowFault(r, at) == IF Stale(r, at) /\ Expired(r, at) THEN Absent ELSE r
RecoverRow(r, at) == IF Stale(r, at) /\ Expired(r, at) THEN Absent ELSE Recovered(r, at)

RecoverInterrupted ==
    /\ \E at \in Instants : row' = [q \in Items |-> RecoverRow(row[q], at)]
    /\ UNCHANGED <<now, req, upstream, gen, misreported>>

\* Faults: expiry ignores the review status; expiry forgets postponed items.
SweepRowFault(r, at) ==
    IF r.status \notin Final \cup {"absent"} /\ Expired(r, at) THEN Absent ELSE r
SweepPendingFault(r, at) == IF r.status = "pending" /\ Expired(r, at) THEN Absent ELSE r
SweepRow(r, at) == IF r.status \in Reviewable /\ Expired(r, at) THEN Absent ELSE r

SweepExpired ==
    /\ \E at \in Instants : row' = [q \in Items |-> SweepRow(row[q], at)]
    /\ UNCHANGED <<now, req, upstream, gen, misreported>>

\* Fault: scope "all" also selects reviewed decisions.
CleanupFault(selected) ==
    /\ \A q \in selected : row[q].status \in Reviewable \cup Final
    /\ row' = [q \in Items |-> IF q \in selected THEN Absent ELSE row[q]]
    /\ UNCHANGED <<now, req, upstream, gen, misreported>>

\* Whatever filter the operator gives, only reviewable rows are selected.
Cleanup(selected) ==
    /\ \A q \in selected : row[q].status \in Reviewable
    /\ row' = [q \in Items |-> IF q \in selected THEN Absent ELSE row[q]]
    /\ UNCHANGED <<now, req, upstream, gen, misreported>>

-----------------------------------------------------------------------------
(* Admission: QuarantineRepository.store.  `at` is the time of the         *)
(* quarantined request, older than the commit by the time spent wrapping.  *)

Fresh(sha, at) == [status |-> "pending", sha |-> sha, updated_at |-> at,
                   expires_at |-> ExpiresAt(at), postpone_count |-> 0, payload |-> TRUE]

Insert(q, sha, at) ==
    /\ row[q].status = "absent"
    /\ gen[q] < MaxInserts
    /\ SetRow(q, Fresh(sha, at))
    /\ gen' = [gen EXCEPT ![q] = @ + 1]
    /\ misreported' = [misreported EXCEPT ![q] = FALSE]
    /\ UNCHANGED <<now, req, upstream>>

\* Fault: admission does not refuse a row in review.
RequarantineFault(q, sha, at) ==
    /\ row[q].status # "absent"
    /\ row' = [row EXCEPT ![q].sha = sha, ![q].updated_at = at, ![q].payload = TRUE]
    /\ UNCHANGED <<now, req, upstream, gen, misreported>>

\* store on an existing row: refused while it is in review; reopened when it
\* has expired or an allowed memory is unsafe again; refreshed otherwise.
Requarantine(q, sha, at) ==
    /\ row[q].status \notin InReview \cup {"absent"}
    /\ row[q].status \in Final => Kind[q] = "recalled_memory"
    /\ SetRow(q, IF \/ row[q].status \in Reviewable /\ Expired(row[q], at)
                    \/ row[q].status = "reviewed_allowed"
                 THEN Fresh(sha, at)
                 ELSE [row[q] EXCEPT !.sha = sha, !.updated_at = at, !.payload = TRUE])
    /\ UNCHANGED <<now, req, upstream, gen, misreported>>

Tick ==
    /\ now < MaxTime
    /\ now' = now + 1
    /\ UNCHANGED <<row, req, upstream, gen, misreported>>

-----------------------------------------------------------------------------
Init ==
    /\ now = 0
    /\ row = [q \in Items |-> Absent]
    /\ req = [p \in Reviewers |-> NoRequest]
    /\ wire = {} /\ applied = {}
    /\ gen = [q \in Items |-> 0]
    /\ misreported = [q \in Items |-> FALSE]

RequestStep(p) ==
    \/ \E q \in Items : ReadUncertain(p, q) \/ \E op \in {"approve", "reject"} :
                                                 ReadCandidate(p, q, op)
    \/ ClaimReview(p) \/ CompleteSideEffect(p) \/ FinishSideEffect(p)
    \/ FinishApproveMemory(p) \/ InterruptReview(p) \/ SendEffect(p)
    \/ EffectSucceeds(p) \/ EffectDefinitelyFails(p) \/ MarkFails(p) \/ Abandon(p)
    \/ ConfirmApplied(p) \/ ConfirmNotApplied(p)

Next ==
    \/ \E p \in Reviewers : RequestStep(p)
    \/ \E q \in Items : Postpone(q) \/ Remove(q) \/ ExpireStaleClaim(q)
    \/ \E c \in wire : UpstreamApply(c) \/ UpstreamLose(c)
    \/ RecoverInterrupted \/ SweepExpired
    \/ \E selected \in SUBSET Items : Cleanup(selected)
    \/ \E q \in Items, sha \in Shas, at \in 0..now :
         Insert(q, sha, at) \/ Requarantine(q, sha, at)
    \/ Tick

Spec == Init /\ [][Next]_vars

-----------------------------------------------------------------------------
(* Properties.                                                             *)

\* Every variable keeps its shape; in particular no sequence of postpones and
\* recoveries takes postpone_count past QUARANTINE_MAX_POSTPONES.
TypeOK ==
    /\ now \in Nat
    /\ row \in [Items -> Row]
    /\ req \in [Reviewers -> Request]
    /\ wire \subseteq Call /\ applied \subseteq Call
    /\ gen \in [Items -> Nat]
    /\ misreported \in [Items -> BOOLEAN]

\* The requests that hold a claim, and those whose claim is still the one in
\* the row: its status, and its instant in updated_at as the token.
Holds(p) == req[p].pc \in {"effect", "waiting", "failed", "complete", "mark"}
Owns(p) == /\ Holds(p)
           /\ row[req[p].q].status = ClaimStatus(req[p].q, req[p].op)
           /\ row[req[p].q].updated_at = req[p].stamp

\* A claim has one owner, and the row keeps the content its owner reviewed:
\* the `updated_at = at` check with its millisecond token is enough, in spite
\* of stale recovery, interrupts, reconciles, re-admission and lagging clocks.
ClaimExclusive ==
    \A p \in Reviewers : Owns(p) =>
        /\ row[req[p].q].sha = req[p].sha
        /\ gen[req[p].q] = req[p].gen
        /\ \A other \in Reviewers : Owns(other) /\ req[other].q = req[p].q => other = p

\* While a retain or an invalidation has happened or may still happen, the
\* row says so (started, completed or blocked) and holds the very content the
\* call was made for: no crash, timeout, retry or recovery hands the item out
\* for a second review.  Only a wrong reconcile verdict can.
EffectAccountedFor ==
    \A q \in Items :
        row[q].status # "absent" /\ ~misreported[q] /\ Exposed(q) =>
            /\ row[q].status \in {"review_side_effect_started",
                                  "review_side_effect_completed", "reviewed_blocked"}
            /\ row[q].status # "reviewed_blocked" =>
                 \A c \in wire \cup applied : Concerns(c, q) => c.sha = row[q].sha

\* Hindsight is called at most once for one admission of an item, however
\* many reviewers and retries there are (ambiguous failures are not replayed).
AtMostOneCall ==
    \A q \in Items :
        row[q].status # "absent" /\ ~misreported[q] =>
            \A c, d \in wire \cup applied : Concerns(c, q) /\ Concerns(d, q) => c = d

\* The completed checkpoint and the blocked decision are never ahead of
\* Hindsight: they are recorded only after the call was carried out.
CheckpointTruthful ==
    \A q \in Items :
        row[q].status \in {"review_side_effect_completed", "reviewed_blocked"} =>
            Landed(q) \/ misreported[q]

\* A row is deleted (rejected, expired, cleaned up, recovered, approved) only
\* when no call for it is outstanding, or when its call was carried out and
\* checkpointed: the record of an uncertain effect is never lost.
DeletionSafe ==
    [][\A q \in Items :
         row[q].status # "absent" /\ row'[q].status = "absent" =>
            \/ ~Exposed(q) \/ misreported[q]
            \/ row[q].status = "review_side_effect_completed" /\ Landed(q)]_vars

\* Review decisions stand: reviewed_blocked is permanent, and an allowed
\* memory is at most handed back for review with a payload to review.
DecisionsStand ==
    [][\A q \in Items :
         /\ row[q].status = "reviewed_blocked" => row'[q].status = "reviewed_blocked"
         /\ row[q].status = "reviewed_allowed" =>
              \/ row'[q].status = "reviewed_allowed"
              \/ row'[q].status = "pending" /\ row'[q].payload]_vars

-----------------------------------------------------------------------------
(* Review implements the contract.                                         *)

PhaseOf == [absent |-> "absent", pending |-> "open", postponed |-> "open",
            review_in_progress |-> "deciding",
            review_side_effect_started |-> "uncertain",
            review_side_effect_completed |-> "landed",
            reviewed_allowed |-> "allowed", reviewed_blocked |-> "blocked"]

Contract == INSTANCE ReviewContract WITH
    phase <- [q \in Items |-> PhaseOf[row[q].status]],
    risk <- [q \in Items |-> row[q].status # "absent" /\ Exposed(q)]

\* Every behaviour of the transactions, requests and calls is one the
\* contract allows.
ImplementsContract == Contract!Spec

-----------------------------------------------------------------------------
(* Liveness.  The sweeper loop runs for as long as the service does and    *)
(* retries after a failed iteration; time passes.                          *)

FairSpec == Spec /\ WF_vars(Tick) /\ WF_vars(RecoverInterrupted) /\ WF_vars(SweepExpired)

\* A claim whose request died does not keep its row: it is recovered or taken
\* over once it is stale (for every claim the bound leaves time to go stale).
ClaimedAt(q, at) == row[q].status = "review_in_progress" /\ row[q].updated_at = at
DeadClaimReleased ==
    \A q \in Items, at \in 0..(MaxTime - StaleSeconds) :
        ClaimedAt(q, at) ~> ~ClaimedAt(q, at)

\* A queued item past its expiry does not stay in the queue.
ExpiredLeaves ==
    \A q \in Items :
        (row[q].status \in Reviewable /\ Expired(row[q], MaxTime))
            ~> ~(row[q].status \in Reviewable /\ Expired(row[q], MaxTime))
=============================================================================
