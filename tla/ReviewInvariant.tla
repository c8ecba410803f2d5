-------------------------- MODULE ReviewInvariant ---------------------------
(***************************************************************************)
(* Proofs about Review for every value of its constants.                   *)
(*                                                                         *)
(* None of the safety properties is inductive by itself.  The argument     *)
(* runs over the claim token: a request that holds a claim either still    *)
(* matches the row, or its instant lies more than Lag in the past, so that *)
(* no later claim can carry the same instant (Tokens).  Hence the only     *)
(* calls an unmisreported row can have are those of its one matching       *)
(* request (Effects).                                                      *)
(***************************************************************************)
EXTENDS Review, TLAPS

Open == {"review_in_progress", "review_side_effect_started"}

\* The claim p holds is, by its instant, the one in the row.
Matched(p) == /\ Holds(p)
              /\ row[req[p].q].status \in Open
              /\ row[req[p].q].updated_at = req[p].stamp

\* What the program counter says about the rest of a request.
RequestOK(p) ==
    /\ req[p].pc # "idle" => req[p].q \in Items
    /\ req[p].pc \in {"effect", "waiting", "complete"} => Effectful(req[p].q, req[p].op)
    /\ req[p].pc = "mark" => ~Effectful(req[p].q, req[p].op)
    /\ Holds(p) => req[p].prev \in Reviewable /\ req[p].gen <= gen[req[p].q]
    /\ req[p].pc = "complete" => TheCall(p) \in applied
Requests == \A p \in Reviewers : RequestOK(p)

\* A call never names an admission that has not happened yet.
CallsKnown == \A c \in wire \cup applied : c.gen <= gen[c.q]

\* What holding a claim means: it matches the row, and then it is the row's
\* only claim and on the content that was reviewed, or it is out of date.
TokenOK(p) ==
    /\ Matched(p) \/ now > req[p].stamp + Lag
    /\ Matched(p) =>
         /\ row[req[p].q].status = ClaimStatus(req[p].q, req[p].op)
         /\ row[req[p].q].sha = req[p].sha
         /\ gen[req[p].q] = req[p].gen
         /\ \A o \in Reviewers : Matched(o) /\ req[o].q = req[p].q => o = p
Tokens == \A p \in Reviewers : Holds(p) => TokenOK(p)

\* The row's word about its effect can be relied on.
Trusted(q) == row[q].status # "absent" /\ ~misreported[q]

\* What a call for the item q says about its row.
CallEffect(c, q) ==
    /\ row[q].status \in {"review_side_effect_started",
                          "review_side_effect_completed", "reviewed_blocked"}
    /\ row[q].status = "review_side_effect_started" => c.at = row[q].updated_at
    /\ row[q].status # "reviewed_blocked" => c.sha = row[q].sha
    /\ \A d \in wire \cup applied : Concerns(d, q) => c = d

\* What a matching request knows of the calls for its item.
OwnerEffect(p, c) ==
    /\ req[p].pc \in {"waiting", "complete"} => c = TheCall(p)
    /\ req[p].pc \notin {"effect", "failed"}
    /\ c \notin wire \/ c \notin applied

Effects ==
    \A q \in Items : Trusted(q) =>
        /\ \A c \in wire \cup applied : Concerns(c, q) =>
             /\ CallEffect(c, q)
             /\ \A p \in Reviewers : Matched(p) /\ req[p].q = q => OwnerEffect(p, c)
        /\ \A p \in Reviewers : AboutToCall(p, q) => Matched(p)

Inv == TypeOK /\ Requests /\ CallsKnown /\ Tokens /\ Effects /\ CheckpointTruthful

-----------------------------------------------------------------------------
(* Helpers.                                                                *)

\* The instants a transaction can take are natural numbers, none in the future.
LEMMA InstantsAreNat ==
    ASSUME now \in Nat, NEW at \in Instants
    PROVE  at \in Nat /\ at <= now /\ now <= at + Lag
BY TimingAssumption DEF Instants

\* Deleting, restoring, re-admitting and updating rows yields rows.
LEMMA RowsStayRows ==
    /\ Absent \in Row
    /\ \A sha \in Shas, at \in Nat : Fresh(sha, at) \in Row
    /\ \A r \in Row, at \in Nat : Recovered(r, at) \in Row
    /\ \A r \in Row, s \in Statuses : [r EXCEPT !.status = s] \in Row
    /\ \A r \in Row, s \in Statuses : Reviewed(r, s) \in Row
    /\ \A r \in Row, s \in Statuses, at \in Nat :
         [r EXCEPT !.status = s, !.updated_at = at] \in Row
    /\ \A r \in Row, sha \in Shas, at \in Nat :
         [r EXCEPT !.sha = sha, !.updated_at = at, !.payload = TRUE] \in Row
    /\ \A r \in Row, s \in Statuses, at \in Nat :
         r.postpone_count < MaxPostpones =>
           [r EXCEPT !.status = s, !.updated_at = at,
                     !.postpone_count = r.postpone_count + 1] \in Row
<1> USE TimingAssumption
<1>1. Absent \in Row
  BY DEF Absent, Row, Statuses, Never
<1>2. ASSUME NEW sha \in Shas, NEW at \in Nat PROVE Fresh(sha, at) \in Row
  BY DEF Fresh, ExpiresAt, Row, Statuses, Reviewable, Never
<1>3. ASSUME NEW r \in Row, NEW at \in Nat PROVE Recovered(r, at) \in Row
  BY Zenon DEF Recovered, Row, Statuses, Reviewable
<1>4. ASSUME NEW r \in Row, NEW s \in Statuses, NEW at \in Nat
      PROVE  /\ [r EXCEPT !.status = s] \in Row
             /\ Reviewed(r, s) \in Row
             /\ [r EXCEPT !.status = s, !.updated_at = at] \in Row
  BY Zenon DEF Row, Reviewed
<1>5. ASSUME NEW r \in Row, NEW sha \in Shas, NEW at \in Nat
      PROVE  [r EXCEPT !.sha = sha, !.updated_at = at, !.payload = TRUE] \in Row
  BY Zenon DEF Row
<1>6. ASSUME NEW r \in Row, NEW s \in Statuses, NEW at \in Nat,
             r.postpone_count < MaxPostpones
      PROVE  [r EXCEPT !.status = s, !.updated_at = at,
                       !.postpone_count = r.postpone_count + 1] \in Row
  <2>1. r.postpone_count + 1 \in 0..MaxPostpones
    BY <1>6 DEF Row
  <2> QED BY Zenon, <2>1 DEF Row
<1>7. ASSUME NEW r \in Row, NEW s \in Statuses
      PROVE  [r EXCEPT !.status = s] \in Row /\ Reviewed(r, s) \in Row
  BY Zenon DEF Row, Reviewed
<1> QED BY Zenon, <1>1, <1>2, <1>3, <1>4, <1>5, <1>6, <1>7

\* So do the updates of what a request holds.
LEMMA RequestsStayRequests ==
    /\ NoRequest \in Request
    /\ \A r \in Request, label \in {"waiting", "failed", "complete", "finish"} :
         [r EXCEPT !.pc = label] \in Request
    /\ \A r \in Request, at \in Nat : [r EXCEPT !.pc = "finish", !.stamp = at] \in Request
    /\ \A r \in Request, label \in {"effect", "mark"}, at, g \in Nat, s \in Statuses :
         [r EXCEPT !.pc = label, !.stamp = at, !.prev = s, !.gen = g] \in Request
<1>1. NoRequest \in Request
  BY DEF NoRequest, Request, Statuses
<1>2. ASSUME NEW r \in Request, NEW label \in {"waiting", "failed", "complete", "finish"},
             NEW at \in Nat
      PROVE  /\ [r EXCEPT !.pc = label] \in Request
             /\ [r EXCEPT !.pc = "finish", !.stamp = at] \in Request
  BY Zenon DEF Request
<1>3. ASSUME NEW r \in Request, NEW label \in {"effect", "mark"},
             NEW at \in Nat, NEW g \in Nat, NEW s \in Statuses
      PROVE  [r EXCEPT !.pc = label, !.stamp = at, !.prev = s, !.gen = g] \in Request
  BY Zenon DEF Request
<1> QED BY Zenon, <1>1, <1>2, <1>3

\* The statuses the transactions write.
LEMMA KnownStatuses ==
    /\ {"pending", "postponed", "review_in_progress", "review_side_effect_started",
        "review_side_effect_completed", "reviewed_allowed", "reviewed_blocked",
        "absent"} = Statuses
    /\ \A q, op : ClaimStatus(q, op) \in {"review_in_progress",
                                          "review_side_effect_started"}
BY DEF Statuses, Reviewable, InReview, Final, ClaimStatus

\* Every step of the review model keeps the variables' shapes.
LEMMA TypeStep == TypeOK /\ Requests /\ [Next]_vars => TypeOK'
<1> SUFFICES ASSUME TypeOK, Requests, [Next]_vars PROVE TypeOK'
  OBVIOUS
<1> USE DEF TypeOK, SetReq, SetRow, Done, Goto, upstream
<1>1. ASSUME NEW p \in Reviewers, RequestStep(p) PROVE TypeOK'
  <2> DEFINE q == req[p].q
  <2>0. req[p].pc # "idle" => q \in Items /\ row[q] \in Row
    BY DEF Requests, RequestOK
  <2>1. CASE \E x \in Items : ReadUncertain(p, x)
    BY <2>1 DEF ReadUncertain, Row, Request, Statuses
  <2>2. CASE \E x \in Items, op \in {"approve", "reject"} : ReadCandidate(p, x, op)
    BY <2>2 DEF ReadCandidate, Row, Request, Statuses
  <2>3. CASE ClaimReview(p)
    <3>1. PICK at \in Instants :
            LET r == Recovered(row[q], at)
            IN  /\ SetRow(q, [r EXCEPT !.status = ClaimStatus(q, req[p].op),
                                       !.updated_at = at])
                /\ SetReq(p, [req[p] EXCEPT
                     !.pc = IF Effectful(q, req[p].op) THEN "effect" ELSE "mark",
                     !.stamp = at, !.prev = r.status, !.gen = gen[q]])
      BY Zenon, <2>3 DEF ClaimReview
    <3>2. at \in Nat /\ q \in Items /\ Recovered(row[q], at) \in Row /\ gen[q] \in Nat
      BY Zenon, <2>0, <2>3, InstantsAreNat, RowsStayRows DEF ClaimReview
    <3>3. Recovered(row[q], at).status \in Statuses
      BY <3>2 DEF Row
    <3>4. row' \in [Items -> Row]
      BY Zenon, <3>1, <3>2, RowsStayRows, KnownStatuses
    <3>5. req' \in [Reviewers -> Request]
      BY Zenon, <3>1, <3>2, <3>3, RequestsStayRequests
    <3> QED BY <2>3, <3>4, <3>5 DEF ClaimReview
  <2>4. CASE CompleteSideEffect(p)
    BY Zenon, <2>0, <2>4, RowsStayRows, RequestsStayRequests, KnownStatuses DEF CompleteSideEffect
  <2>5. CASE FinishSideEffect(p)
    BY Zenon, <2>0, <2>5, RowsStayRows, RequestsStayRequests, KnownStatuses DEF FinishSideEffect
  <2>6. CASE FinishApproveMemory(p)
    BY Zenon, <2>0, <2>6, RowsStayRows, RequestsStayRequests, KnownStatuses DEF FinishApproveMemory
  <2>7. CASE InterruptReview(p)
    <3>1. req[p].prev \in Statuses
      BY DEF Request
    <3> QED BY Zenon, <2>0, <2>7, <3>1, RowsStayRows, RequestsStayRequests DEF InterruptReview
  <2>8. CASE SendEffect(p)
    <3>1. TheCall(p) \in Call
      BY <2>0, <2>8 DEF SendEffect, TheCall, Call, Request
    <3> QED BY Zenon, <2>8, <3>1, RequestsStayRequests DEF SendEffect
  <2>9. CASE EffectSucceeds(p)
    BY Zenon, <2>9, RequestsStayRequests DEF EffectSucceeds
  <2>10. CASE EffectDefinitelyFails(p)
    BY Zenon, <2>10, RequestsStayRequests DEF EffectDefinitelyFails
  <2>11. CASE MarkFails(p)
    BY Zenon, <2>11, RequestsStayRequests DEF MarkFails
  <2>12. CASE Abandon(p)
    BY Zenon, <2>12, RequestsStayRequests DEF Abandon
  <2>13. CASE ConfirmApplied(p)
    <3>1. PICK at \in Instants :
            /\ Reconcilable(p, at)
            /\ SetRow(q, [row[q] EXCEPT !.status = "review_side_effect_completed",
                                        !.updated_at = at])
            /\ SetReq(p, [req[p] EXCEPT !.pc = "finish", !.stamp = at])
      BY Zenon, <2>13 DEF ConfirmApplied
    <3>2. q \in Items /\ row[q] \in Row /\ at \in Nat
      BY <2>0, <3>1, InstantsAreNat DEF Reconcilable
    <3>3. row' \in [Items -> Row] /\ req' \in [Reviewers -> Request]
      BY Zenon, <3>1, <3>2, RowsStayRows, RequestsStayRequests, KnownStatuses
    <3>4. misreported' \in [Items -> BOOLEAN]
      BY <2>13, <3>2 DEF ConfirmApplied
    <3> QED BY <2>13, <3>3, <3>4 DEF ConfirmApplied
  <2>14. CASE ConfirmNotApplied(p)
    <3>1. PICK at \in Instants :
            /\ Reconcilable(p, at)
            /\ SetRow(q, [row[q] EXCEPT !.status = "postponed", !.updated_at = at])
      BY Zenon, <2>14 DEF ConfirmNotApplied
    <3>2. q \in Items /\ row[q] \in Row /\ at \in Nat
      BY <2>0, <3>1, InstantsAreNat DEF Reconcilable
    <3>3. row' \in [Items -> Row]
      BY Zenon, <3>1, <3>2, RowsStayRows, KnownStatuses
    <3>4. misreported' \in [Items -> BOOLEAN] /\ req' \in [Reviewers -> Request]
      BY Zenon, <2>14, <3>2, RequestsStayRequests DEF ConfirmNotApplied
    <3> QED BY <2>14, <3>3, <3>4 DEF ConfirmNotApplied
  <2> QED BY <1>1, <2>1, <2>2, <2>3, <2>4, <2>5, <2>6, <2>7, <2>8, <2>9, <2>10,
             <2>11, <2>12, <2>13, <2>14 DEF RequestStep
<1>2. ASSUME NEW q \in Items, Postpone(q) PROVE TypeOK'
  <2>1. PICK at \in Instants :
          LET r == Recovered(row[q], at) IN
          /\ r.postpone_count < MaxPostpones
          /\ SetRow(q, [r EXCEPT !.status = "postponed", !.updated_at = at,
                                 !.postpone_count = r.postpone_count + 1])
    BY Zenon, <1>2 DEF Postpone
  <2>2. at \in Nat /\ Recovered(row[q], at) \in Row
    BY Zenon, <2>1, InstantsAreNat, RowsStayRows
  <2>3. row' \in [Items -> Row]
    BY Zenon, <2>1, <2>2, RowsStayRows, KnownStatuses
  <2> QED BY <1>2, <2>3 DEF Postpone
<1>3. ASSUME NEW q \in Items, Remove(q) \/ ExpireStaleClaim(q) PROVE TypeOK'
  BY Zenon, <1>3, RowsStayRows DEF Remove, ExpireStaleClaim
<1>4. ASSUME NEW c \in wire, UpstreamApply(c) \/ UpstreamLose(c) PROVE TypeOK'
  BY <1>4 DEF UpstreamApply, UpstreamLose
<1>5. CASE RecoverInterrupted
  <2>1. PICK at \in Instants : row' = [q \in Items |-> RecoverRow(row[q], at)]
    BY <1>5 DEF RecoverInterrupted
  <2>2. \A q \in Items : RecoverRow(row[q], at) \in Row
    BY Zenon, <2>1, InstantsAreNat, RowsStayRows DEF RecoverRow
  <2> QED BY <1>5, <2>1, <2>2 DEF RecoverInterrupted
<1>6. CASE SweepExpired
  BY Zenon, <1>6, RowsStayRows DEF SweepExpired, SweepRow
<1>7. ASSUME NEW selected \in SUBSET Items, Cleanup(selected) PROVE TypeOK'
  BY Zenon, <1>7, RowsStayRows DEF Cleanup
<1>8. ASSUME NEW q \in Items, NEW sha \in Shas, NEW at \in 0..now,
             Insert(q, sha, at) \/ Requarantine(q, sha, at)
      PROVE  TypeOK'
  <2>0. at \in Nat
    OBVIOUS
  <2>1. CASE Insert(q, sha, at)
    <3>1. row' \in [Items -> Row]
      BY Zenon, <2>0, <2>1, RowsStayRows DEF Insert
    <3> QED BY <2>1, <3>1 DEF Insert
  <2>2. CASE Requarantine(q, sha, at)
    <3>1. /\ Fresh(sha, at) \in Row
          /\ [row[q] EXCEPT !.sha = sha, !.updated_at = at, !.payload = TRUE] \in Row
      BY Zenon, <2>0, RowsStayRows
    <3>2. row' \in [Items -> Row]
      BY <2>2, <3>1 DEF Requarantine
    <3> QED BY <2>2, <3>2 DEF Requarantine
  <2> QED BY <1>8, <2>1, <2>2
<1>9. CASE Tick
  BY <1>9 DEF Tick
<1>10. CASE UNCHANGED vars
  BY <1>10 DEF vars
<1> QED BY <1>1, <1>2, <1>3, <1>4, <1>5, <1>6, <1>7, <1>8, <1>9, <1>10 DEF Next

-----------------------------------------------------------------------------
(* The inductive step.                                                     *)

Core == Requests /\ CallsKnown /\ Tokens /\ Effects /\ CheckpointTruthful

\* Nobody can be working on the row with a claim that could be confused with
\* a new one, and no call can be outstanding for it.
Free(r) == \/ r.status \in Reviewable \cup {"reviewed_allowed"}
           \/ r.status = "review_in_progress" /\ now > r.updated_at + Lag

\* A step that only rewrites free rows, and leaves them unclaimed, keeps the
\* invariant: postpone, remove, expiry, recovery, cleanup and re-admission.
LEMMA FreeRowsStep ==
    ASSUME TypeOK, TypeOK', Core,
           UNCHANGED <<now, req, wire, applied, gen, misreported>>,
           \A q \in Items :
             \/ row'[q] = row[q]
             \/ /\ Free(row[q])
                /\ row'[q].status \in Reviewable \cup {"absent"}
             \/ row[q].status = "reviewed_blocked" /\ row'[q].status = "reviewed_blocked"
    PROVE  Core'
<1>1. Requests' /\ CallsKnown'
  BY DEF Core, Requests, RequestOK, CallsKnown, Holds, TheCall, Effectful
<1>2. ASSUME NEW p \in Reviewers, Holds(p)
      PROVE  /\ Holds(p)' /\ req'[p] = req[p] /\ req[p].q \in Items
             /\ \/ row'[req[p].q] = row[req[p].q]
                \/ now > req[p].stamp + Lag /\ ~Matched(p)'
  <2>1. req[p].q \in Items
    BY <1>2 DEF Core, Requests, RequestOK, Holds
  <2>2. ASSUME Free(row[req[p].q]) PROVE now > req[p].stamp + Lag
    BY <1>2, <2>1, <2>2 DEF Core, Tokens, TokenOK, Matched, Free, Open, Reviewable
  <2>3. ASSUME row[req[p].q].status = "reviewed_blocked" PROVE now > req[p].stamp + Lag
    BY <1>2, <2>1, <2>3 DEF Core, Tokens, TokenOK, Matched, Open
  <2>4. row'[req[p].q].status \in Reviewable \cup {"absent", "reviewed_blocked"} => ~Matched(p)'
    BY DEF Matched, Open, Reviewable
  <2>5. Holds(p)'
    BY <1>2 DEF Holds
  <2> QED BY <1>2, <2>1, <2>2, <2>3, <2>4, <2>5
<1>3. \A p \in Reviewers : Matched(p)' => Matched(p) /\ row'[req[p].q] = row[req[p].q]
  BY <1>2 DEF Matched, Holds
<1>4. Tokens'
  BY <1>2, <1>3 DEF Core, Tokens, TokenOK, Matched, Holds, ClaimStatus, Effectful
<1>5. ASSUME NEW q \in Items, Trusted(q)', NEW c \in wire \cup applied, Concerns(c, q)
      PROVE  /\ Trusted(q) /\ CallEffect(c, q)'
             /\ \A p \in Reviewers : Matched(p)' /\ req[p].q = q => OwnerEffect(p, c)'
  <2>1. Trusted(q)
    BY <1>5 DEF Trusted, Free, Reviewable
  <2>2. CallEffect(c, q)
    BY <1>5, <2>1 DEF Core, Effects
  <2>3. row'[q] = row[q] \/ row'[q].status = "reviewed_blocked"
    BY <2>2 DEF CallEffect, Free, Reviewable
  <2>4. CallEffect(c, q)'
    BY <2>2, <2>3 DEF CallEffect, Concerns
  <2>5. \A p \in Reviewers : Matched(p)' /\ req[p].q = q => OwnerEffect(p, c)'
    BY <1>3, <1>5, <2>1 DEF Core, Effects, OwnerEffect, TheCall
  <2> QED BY <2>1, <2>4, <2>5
<1>6. ASSUME NEW q \in Items, Trusted(q)', NEW p \in Reviewers, AboutToCall(p, q)
      PROVE  Matched(p)'
  <2>1. Trusted(q)
    BY <1>6 DEF Trusted, Free, Reviewable
  <2>2. Matched(p) /\ Holds(p) /\ req[p].q = q
    BY <1>6, <2>1 DEF Core, Effects, Matched, AboutToCall
  <2>3. row[q].status = "review_side_effect_started"
    BY <1>6, <2>2 DEF Core, Tokens, TokenOK, Requests, RequestOK, ClaimStatus, AboutToCall
  <2>4. row'[q] = row[q]
    BY <2>3 DEF Free, Reviewable
  <2> QED BY <2>2, <2>4 DEF Matched, Holds
<1>7. Effects'
  BY <1>5, <1>6 DEF Effects, Concerns, AboutToCall
<1>8. CheckpointTruthful'
  BY DEF Core, CheckpointTruthful, Landed, Concerns, Free, Reviewable
<1> QED BY <1>1, <1>4, <1>7, <1>8 DEF Core

\* Staleness outlasts the clock lag, so what a review transaction may mutate
\* is free.
LEMMA MutableIsFree ==
    ASSUME TypeOK, NEW q \in Items, NEW at \in Instants
    PROVE  /\ Stale(row[q], at) => Free(row[q])
           /\ Mutable(Recovered(row[q], at), at) => Free(row[q])
           /\ Recovered(row[q], at) # row[q] =>
                Free(row[q]) /\ Recovered(row[q], at).status = "postponed"
<1>1. /\ at \in Nat /\ at <= now /\ now \in Nat
      /\ row[q] \in Row /\ row[q].updated_at \in Nat
  BY InstantsAreNat DEF TypeOK, Row
<1>2. Stale(row[q], at) => Free(row[q])
  BY <1>1, TimingAssumption DEF Stale, Free
<1>3. Mutable(Recovered(row[q], at), at) => Free(row[q])
  BY <1>2 DEF Mutable, Recovered, Free
<1>4. Recovered(row[q], at) # row[q] =>
        Free(row[q]) /\ Recovered(row[q], at).status = "postponed"
  BY <1>1, <1>2 DEF Recovered, Row
<1> QED BY <1>2, <1>3, <1>4

\* The transactions that rewrite free rows only.
LEMMA FreeSteps ==
    ASSUME TypeOK, TypeOK', Core,
           \/ \E q \in Items : Postpone(q) \/ Remove(q) \/ ExpireStaleClaim(q)
           \/ RecoverInterrupted \/ SweepExpired
           \/ \E selected \in SUBSET Items : Cleanup(selected)
           \/ \E q \in Items, sha \in Shas, at \in 0..now : Requarantine(q, sha, at)
    PROVE  Core'
<1> DEFINE Rewrites(q) ==
      \/ row'[q] = row[q]
      \/ Free(row[q]) /\ row'[q].status \in Reviewable \cup {"absent"}
      \/ row[q].status = "reviewed_blocked" /\ row'[q].status = "reviewed_blocked"
<1>0. row \in [Items -> Row] /\ Absent.status = "absent"
  BY DEF TypeOK, Absent
<1>1. ASSUME NEW q \in Items, Postpone(q) PROVE \A x \in Items : Rewrites(x)
  <2>1. PICK at \in Instants :
          LET r == Recovered(row[q], at) IN
          /\ Mutable(r, at)
          /\ SetRow(q, [r EXCEPT !.status = "postponed", !.updated_at = at,
                                 !.postpone_count = r.postpone_count + 1])
    BY Zenon, <1>1 DEF Postpone
  <2>2. Free(row[q]) /\ Recovered(row[q], at) \in Row
    BY Zenon, <1>0, <2>1, MutableIsFree, InstantsAreNat, RowsStayRows DEF TypeOK
  <2>3. row'[q].status = "postponed" /\ \A x \in Items : x # q => row'[x] = row[x]
    BY <1>0, <2>1, <2>2 DEF SetRow, Row
  <2> QED BY <2>2, <2>3 DEF Reviewable
<1>2. ASSUME NEW q \in Items, Remove(q) \/ ExpireStaleClaim(q)
      PROVE  \A x \in Items : Rewrites(x)
  <2>1. Free(row[q])
    BY <1>2, MutableIsFree DEF Remove, ExpireStaleClaim
  <2>2. row' = [row EXCEPT ![q] = Absent]
    BY <1>2 DEF Remove, ExpireStaleClaim, SetRow
  <2> QED BY <1>0, <2>1, <2>2
<1>3. ASSUME RecoverInterrupted PROVE \A x \in Items : Rewrites(x)
  <2>1. PICK at \in Instants : row' = [q \in Items |-> RecoverRow(row[q], at)]
    BY <1>3 DEF RecoverInterrupted
  <2> QED BY <1>0, <2>1, MutableIsFree DEF RecoverRow, Reviewable
<1>4. ASSUME SweepExpired PROVE \A x \in Items : Rewrites(x)
  BY <1>0, <1>4 DEF SweepExpired, SweepRow, Free
<1>5. ASSUME NEW selected \in SUBSET Items, Cleanup(selected)
      PROVE  \A x \in Items : Rewrites(x)
  BY <1>0, <1>5 DEF Cleanup, Free
<1>6. ASSUME NEW q \in Items, NEW sha \in Shas, NEW at \in 0..now,
             Requarantine(q, sha, at)
      PROVE  \A x \in Items : Rewrites(x)
  <2> DEFINE refreshed == [row[q] EXCEPT !.sha = sha, !.updated_at = at, !.payload = TRUE]
  <2>1. Fresh(sha, at).status = "pending" /\ refreshed.status = row[q].status
    BY <1>0 DEF Fresh, Row
  <2>2. row[q].status \in Reviewable \cup Final
    BY Zenon, <1>0, <1>6 DEF Requarantine, Row, Statuses
  <2>3. /\ row'[q] \in {Fresh(sha, at), refreshed}
        /\ row[q].status = "reviewed_allowed" => row'[q] = Fresh(sha, at)
        /\ row[q].status = "reviewed_blocked" => row'[q] = refreshed
        /\ \A x \in Items : x # q => row'[x] = row[x]
    BY Zenon, <1>0, <1>6 DEF Requarantine, SetRow, Reviewable
  <2>4. Rewrites(q)
    BY Zenon, <2>1, <2>2, <2>3 DEF Free, Reviewable, Final
  <2> QED BY <2>3, <2>4
<1>7. UNCHANGED <<now, req, wire, applied, gen, misreported>>
  BY Zenon DEF Postpone, Remove, ExpireStaleClaim, RecoverInterrupted, SweepExpired, Cleanup,
         Requarantine, upstream
<1>8. \A x \in Items : Rewrites(x)
  BY <1>1, <1>2, <1>3, <1>4, <1>5, <1>6
<1> HIDE DEF Rewrites
<1> QED BY <1>7, <1>8, FreeRowsStep DEF Rewrites
=============================================================================
