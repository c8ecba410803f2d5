---------------------------- MODULE ReviewProofs ----------------------------
(***************************************************************************)
(* The two steps that start something new, a claim and an admission, and   *)
(* with them the invariance theorem and the theorems that follow from it.  *)
(***************************************************************************)
EXTENDS ReviewSteps

\* A new claim carries an instant no other claim on its item can carry.
LEMMA ClaimStep ==
    ASSUME TypeOK, TypeOK', Core, NEW p \in Reviewers, ClaimReview(p)
    PROVE  Core'
<1>0. PICK q \in Items : q = req[p].q
  BY DEF ClaimReview, Core, Requests, RequestOK
<1> DEFINE op == req[p].op
<1>1. PICK at \in Instants :
        LET r == Recovered(row[q], at)
        IN  /\ Mutable(r, at)
            /\ SetRow(q, [r EXCEPT !.status = ClaimStatus(q, op), !.updated_at = at])
            /\ SetReq(p, [req[p] EXCEPT
                 !.pc = IF Effectful(q, op) THEN "effect" ELSE "mark",
                 !.stamp = at, !.prev = r.status, !.gen = gen[q]])
  BY Zenon, <1>0 DEF ClaimReview
<1> DEFINE r == Recovered(row[q], at)
<1>2. /\ UNCHANGED <<now, wire, applied, gen, misreported>>
      /\ q \in Items /\ req[p] \in Request /\ row[q] \in Row /\ r \in Row
      /\ at \in Nat /\ now <= at + Lag /\ now \in Nat /\ row[q].sha = req[p].sha
      /\ ~Holds(p)
  BY Zenon, <1>0, InstantsAreNat, RowsStayRows DEF ClaimReview, Matches, upstream, TypeOK, Core, Requests,
     RequestOK, Holds
<1>3. /\ r.status \in Reviewable /\ r.sha = row[q].sha
      /\ row[q].status \in Reviewable \cup {"review_in_progress"}
  BY <1>1, <1>2 DEF Mutable, Recovered, Stale, Row
<1>4. /\ row'[q].status = ClaimStatus(q, op) /\ row'[q].updated_at = at
      /\ row'[q].sha = req[p].sha
      /\ \A x \in Items : x # q => row'[x] = row[x]
  BY <1>1, <1>2, <1>3 DEF SetRow, TypeOK, Row
<1>5. /\ req'[p].pc = IF Effectful(q, op) THEN "effect" ELSE "mark"
      /\ req'[p].q = q /\ req'[p].op = op /\ req'[p].sha = req[p].sha
      /\ req'[p].stamp = at /\ req'[p].prev \in Reviewable /\ req'[p].gen = gen[q]
      /\ \A o \in Reviewers : o # p => req'[o] = req[o]
  BY <1>0, <1>1, <1>2, <1>3 DEF SetReq, TypeOK, Request
<1>6. Holds(p)' /\ Matched(p)'
  BY <1>4, <1>5 DEF Holds, Matched, ClaimStatus, Open
<1>7. ASSUME NEW o \in Reviewers, o # p, Holds(o)'
      PROVE  /\ Holds(o) /\ req'[o] = req[o] /\ TheCall(o)' = TheCall(o)
             /\ RequestOK(o) /\ TokenOK(o) /\ req[o].q \in Items
             /\ req[o].q = q => ~Matched(o)' /\ now > req[o].stamp + Lag
             /\ req[o].q # q => (Matched(o)' <=> Matched(o))
  <2>1. /\ Holds(o) /\ req'[o] = req[o] /\ TheCall(o)' = TheCall(o)
        /\ RequestOK(o) /\ TokenOK(o) /\ req[o].q \in Items
    BY <1>5, <1>7 DEF Holds, TheCall, Core, Requests, RequestOK, Tokens
  <2>2. ASSUME req[o].q = q PROVE now > req[o].stamp + Lag
    <3>1. Free(row[q])
      BY <1>1, <1>2, MutableIsFree
    <3> QED BY <1>2, <2>1, <2>2, <3>1 DEF TokenOK, Matched, Free, Open, Reviewable
  <2>3. ASSUME req[o].q = q PROVE ~Matched(o)'
    <3>1. req[o].stamp \in Nat
      BY DEF TypeOK, Request
    <3>2. req[o].stamp # at
      BY <1>2, <2>2, <2>3, <3>1, TimingAssumption
    <3> QED BY <1>4, <2>1, <2>3, <3>2 DEF Matched
  <2>4. ASSUME req[o].q # q PROVE Matched(o)' <=> Matched(o)
    BY <1>4, <1>7, <2>1, <2>4 DEF Matched
  <2> QED BY <2>1, <2>2, <2>3, <2>4
<1>8. Requests'
  <2>1. ASSUME NEW o \in Reviewers, o # p PROVE RequestOK(o)'
    BY <1>2, <1>5, <2>1 DEF Core, Requests, RequestOK, Holds, TheCall
  <2>2. RequestOK(p)'
    <3>1. gen[q] \in Nat
      BY <1>2 DEF TypeOK
    <3> QED BY <1>2, <1>5, <3>1 DEF RequestOK
  <2> QED BY <2>1, <2>2 DEF Requests
<1>9. \A o \in Reviewers : Matched(o)' /\ req'[o].q = q => o = p
  BY <1>7 DEF Matched
<1>10. TokenOK(p)'
  BY <1>2, <1>4, <1>5, <1>6, <1>9 DEF TokenOK
<1>11. ASSUME NEW o \in Reviewers, o # p, Holds(o)' PROVE TokenOK(o)'
  <2>1. CASE req[o].q = q
    BY <1>2, <1>7, <1>11, <2>1 DEF TokenOK
  <2>2. CASE req[o].q # q
    <3>1. row'[req[o].q] = row[req[o].q]
      BY <1>4, <1>7, <1>11, <2>2
    <3>2. \A x \in Reviewers : Matched(x)' /\ req'[x].q = req[o].q =>
            Matched(x) /\ req[x].q = req[o].q
      BY <1>5, <1>7, <2>2 DEF Matched
    <3> QED BY <1>2, <1>7, <1>11, <2>2, <3>1, <3>2 DEF TokenOK
  <2> QED BY <2>1, <2>2
<1>12. Tokens'
  BY <1>10, <1>11 DEF Tokens
<1>13. Trusted(q)' => Trusted(q) /\ \A c \in wire \cup applied : ~Concerns(c, q)
  <2>1. Trusted(q)' => Trusted(q)
    BY <1>2, <1>3 DEF Trusted, Reviewable
  <2>2. \A c \in wire \cup applied : ~CallEffect(c, q)
    BY <1>3 DEF CallEffect, Reviewable
  <2> QED BY <1>2, <2>1, <2>2 DEF Core, Effects
<1>14. ASSUME NEW x \in Items, Trusted(x)', NEW c \in wire \cup applied, Concerns(c, x)
       PROVE  /\ x # q /\ Trusted(x) /\ CallEffect(c, x)'
              /\ \A o \in Reviewers : Matched(o)' /\ req'[o].q = x => OwnerEffect(o, c)'
  <2>1. x # q
    BY <1>13, <1>14 DEF Trusted, Concerns
  <2>2. Trusted(x) /\ CallEffect(c, x)'
    BY <1>2, <1>4, <1>14, <2>1 DEF Core, Effects, Trusted, CallEffect, Concerns
  <2>3. ASSUME NEW o \in Reviewers, Matched(o)', req'[o].q = x PROVE OwnerEffect(o, c)'
    <3>1. o # p /\ Holds(o)'
      BY <1>5, <2>1, <2>3 DEF Matched
    <3>2. Matched(o) /\ req[o].q = x
      BY <1>7, <2>1, <2>3, <3>1
    <3>3. OwnerEffect(o, c)
      BY <1>14, <2>2, <3>2 DEF Core, Effects
    <3> QED BY <1>2, <1>7, <3>1, <3>3 DEF OwnerEffect
  <2> QED BY <2>1, <2>2, <2>3
<1>15. ASSUME NEW x \in Items, Trusted(x)', NEW o \in Reviewers, AboutToCall(o, x)'
       PROVE  Matched(o)'
  <2>1. CASE o = p
    BY <1>6, <2>1
  <2>2. CASE o # p
    <3>1. Holds(o)' /\ AboutToCall(o, x) /\ req[o].q = x
      BY <1>2, <1>5, <1>15, <2>2 DEF AboutToCall, Holds
    <3>2. Trusted(x)
      <4>1. CASE x = q
        BY <1>13, <1>15, <4>1 DEF Trusted
      <4>2. CASE x # q
        BY <1>2, <1>4, <1>15, <4>2 DEF Trusted
      <4> QED BY <4>1, <4>2
    <3>3. Matched(o)
      BY <3>1, <3>2 DEF Core, Effects
    <3>4. x # q
      <4>1. row[x].status = "review_side_effect_started"
        BY <1>7, <2>2, <3>1, <3>3 DEF TokenOK, RequestOK, ClaimStatus, AboutToCall
      <4> QED BY <1>3, <4>1 DEF Reviewable
    <3> QED BY <1>7, <2>2, <3>1, <3>3, <3>4
  <2> QED BY <2>1, <2>2
<1>16. Effects'
  BY <1>2, <1>14, <1>15 DEF Effects, Concerns
<1>17. CheckpointTruthful'
  BY <1>2, <1>4 DEF Core, CheckpointTruthful, Landed, Concerns, ClaimStatus
<1> QED BY <1>2, <1>8, <1>12, <1>16, <1>17 DEF Core, CallsKnown

\* No call and no claim can concern the admission that an insert begins.
LEMMA InsertStep ==
    ASSUME TypeOK, TypeOK', Core, NEW q \in Items, NEW sha \in Shas, NEW at \in 0..now,
           Insert(q, sha, at)
    PROVE  Core'
<1>1. /\ UNCHANGED <<now, req, wire, applied>>
      /\ row[q].status = "absent" /\ row'[q].status = "pending"
      /\ gen[q] \in Nat /\ gen'[q] = gen[q] + 1
      /\ \A x \in Items : x # q => /\ row'[x] = row[x] /\ gen'[x] = gen[x]
                                   /\ misreported'[x] = misreported[x]
  BY DEF Insert, SetRow, Fresh, TypeOK, upstream
<1>2. ASSUME NEW o \in Reviewers
      PROVE  /\ req'[o] = req[o] /\ (Holds(o)' <=> Holds(o))
             /\ TheCall(o)' = TheCall(o) /\ RequestOK(o)
             /\ Holds(o) => /\ req[o].q \in Items /\ TokenOK(o)
                            /\ req[o].gen \in Nat /\ req[o].gen <= gen[req[o].q]
  BY <1>1 DEF Holds, TheCall, TypeOK, Request, Core, Requests, RequestOK, Tokens
<1>3. ASSUME NEW o \in Reviewers, Holds(o)
      PROVE  /\ req[o].q = q => ~Matched(o) /\ ~Matched(o)'
             /\ req[o].q # q => (Matched(o)' <=> Matched(o))
  BY <1>1, <1>2, <1>3 DEF Matched, Open
<1>4. Requests'
  <2>1. ASSUME NEW o \in Reviewers, Holds(o) PROVE req[o].gen <= gen'[req[o].q]
    BY <1>1, <1>2, <2>1
  <2> QED BY <1>1, <1>2, <2>1 DEF Requests, RequestOK, Effectful
<1>5. CallsKnown'
  <2>1. ASSUME NEW c \in wire \cup applied PROVE c.gen <= gen'[c.q]
    <3>1. c.q \in Items /\ c.gen \in Nat /\ c.gen <= gen[c.q]
      BY DEF Core, CallsKnown, TypeOK, Call
    <3> QED BY <1>1, <3>1
  <2> QED BY <1>1, <2>1 DEF CallsKnown
<1>6. Tokens'
  <2>1. ASSUME NEW o \in Reviewers, Holds(o) PROVE TokenOK(o)'
    <3>1. CASE req[o].q = q
      BY <1>1, <1>2, <1>3, <2>1, <3>1 DEF TokenOK
    <3>2. CASE req[o].q # q
      <4>1. \A x \in Reviewers : Matched(x)' /\ req'[x].q = req[o].q =>
              Matched(x) /\ req[x].q = req[o].q
        BY <1>2, <1>3, <3>2 DEF Matched
      <4> QED BY <1>1, <1>2, <1>3, <2>1, <3>2, <4>1 DEF TokenOK
    <3> QED BY <3>1, <3>2
  <2> QED BY <1>2, <2>1 DEF Tokens
<1>7. ASSUME NEW c \in wire \cup applied PROVE ~Concerns(c, q)'
  <2>1. c.q = q => c.gen \in Nat /\ c.gen <= gen[q]
    BY DEF Core, CallsKnown, TypeOK, Call
  <2> QED BY <1>1, <2>1 DEF Concerns
<1>8. ASSUME NEW o \in Reviewers PROVE ~AboutToCall(o, q)'
  BY <1>1, <1>2 DEF AboutToCall, Holds
<1>9. ASSUME NEW x \in Items, x # q
      PROVE  /\ Trusted(x)' <=> Trusted(x)
             /\ \A c \in wire \cup applied : Concerns(c, x)' <=> Concerns(c, x)
             /\ \A o \in Reviewers : AboutToCall(o, x)' <=> AboutToCall(o, x)
             /\ \A o \in Reviewers : req[o].q = x => (Matched(o)' <=> Matched(o))
  <2>1. /\ Trusted(x)' <=> Trusted(x)
        /\ \A c \in wire \cup applied : Concerns(c, x)' <=> Concerns(c, x)
        /\ \A o \in Reviewers : AboutToCall(o, x)' <=> AboutToCall(o, x)
    BY <1>1, <1>9 DEF Trusted, Concerns, AboutToCall
  <2>2. ASSUME NEW o \in Reviewers, req[o].q = x PROVE Matched(o)' <=> Matched(o)
    BY <1>2, <1>3, <1>9, <2>2 DEF Matched
  <2> QED BY <2>1, <2>2
<1>10. ASSUME NEW x \in Items, x # q, Trusted(x)', NEW c \in wire \cup applied,
              Concerns(c, x)'
       PROVE  /\ CallEffect(c, x)'
              /\ \A o \in Reviewers : Matched(o)' /\ req'[o].q = x => OwnerEffect(o, c)'
  <2>1. CallEffect(c, x)'
    BY <1>1, <1>9, <1>10 DEF Core, Effects, CallEffect
  <2>2. ASSUME NEW o \in Reviewers, Matched(o), req[o].q = x PROVE OwnerEffect(o, c)'
    <3>1. OwnerEffect(o, c)
      BY <1>9, <1>10, <2>2 DEF Core, Effects
    <3> QED BY <1>1, <1>2, <3>1 DEF OwnerEffect
  <2> QED BY <1>2, <1>9, <1>10, <2>1, <2>2
<1>11. ASSUME NEW x \in Items, x # q, Trusted(x)', NEW o \in Reviewers, AboutToCall(o, x)'
       PROVE  Matched(o)'
  <2>1. Trusted(x) /\ AboutToCall(o, x) /\ req[o].q = x
    BY <1>9, <1>11 DEF AboutToCall
  <2>2. Matched(o)
    BY <2>1 DEF Core, Effects
  <2> QED BY <1>9, <1>11, <2>1, <2>2
<1>12. ASSUME NEW x \in Items, Trusted(x)'
       PROVE  /\ \A c \in (wire \cup applied)' : Concerns(c, x)' =>
                   /\ CallEffect(c, x)'
                   /\ \A o \in Reviewers : Matched(o)' /\ req'[o].q = x => OwnerEffect(o, c)'
              /\ \A o \in Reviewers : AboutToCall(o, x)' => Matched(o)'
  <2>1. CASE x = q
    BY <1>1, <1>7, <1>8, <2>1 DEF Concerns, AboutToCall
  <2>2. CASE x # q
    BY <1>1, <1>10, <1>11, <1>12, <2>2
  <2> QED BY <2>1, <2>2
<1>13. Effects'
  BY <1>12 DEF Effects
<1>14. CheckpointTruthful'
  <2>1. ASSUME NEW x \in Items,
               row'[x].status \in {"review_side_effect_completed", "reviewed_blocked"}
        PROVE  Landed(x)' \/ misreported'[x]
    <3>1. x # q /\ row'[x] = row[x] /\ misreported'[x] = misreported[x]
      BY <1>1, <2>1
    <3>2. Landed(x) \/ misreported[x]
      BY <2>1, <3>1 DEF Core, CheckpointTruthful
    <3>3. Landed(x) => Landed(x)'
      BY <1>1, <3>1 DEF Landed, Concerns
    <3> QED BY <3>1, <3>2, <3>3
  <2> QED BY <2>1 DEF CheckpointTruthful
<1> QED BY <1>4, <1>5, <1>6, <1>13, <1>14 DEF Core

-----------------------------------------------------------------------------
(* The invariant, and the theorems.                                        *)

\* Every step, of whichever actor, keeps the invariant.
LEMMA InvStep == Inv /\ [Next]_vars => Inv'
<1> SUFFICES ASSUME Inv, [Next]_vars PROVE Inv'
  OBVIOUS
<1>1. TypeOK /\ Core /\ Requests
  BY DEF Inv, Core
<1>2. TypeOK'
  BY <1>1, TypeStep
<1> SUFFICES Core'
  BY <1>2 DEF Inv, Core
<1>3. ASSUME NEW p \in Reviewers, RequestStep(p) PROVE Core'
  BY <1>1, <1>2, <1>3, QuietSteps, SendStep, DefiniteFailureStep, OwnerSteps, FinishStep,
     ConfirmAppliedStep, ConfirmNotAppliedStep, ClaimStep DEF RequestStep
<1>4. CASE UNCHANGED vars
  <2>1. /\ UNCHANGED <<now, req, wire, applied, gen, misreported>>
        /\ \A q \in Items : row'[q] = row[q]
    BY <1>4 DEF vars
  <2> QED BY <1>1, <1>2, <2>1, FreeRowsStep
<1>5. CASE Next
  BY <1>1, <1>2, <1>3, <1>5, FreeSteps, EnvironmentSteps, InsertStep DEF Next
<1> QED BY <1>4, <1>5

\* The empty queue satisfies the invariant.
LEMMA InvInit == Init => Inv
<1> SUFFICES ASSUME Init PROVE Inv
  OBVIOUS
<1>1. TypeOK
  BY Zenon, RowsStayRows, RequestsStayRequests DEF Init, TypeOK
<1>2. \A p \in Reviewers : req[p].pc = "idle" /\ ~Holds(p)
  BY DEF Init, NoRequest, Holds
<1>3. \A q \in Items : row[q].status = "absent"
  BY DEF Init, Absent
<1>4. Requests /\ Tokens
  BY <1>2 DEF Requests, RequestOK, Tokens
<1>5. CallsKnown /\ Effects /\ CheckpointTruthful
  BY <1>3 DEF Init, CallsKnown, Effects, Trusted, CheckpointTruthful
<1> QED BY <1>1, <1>4, <1>5 DEF Inv

\* The inductive invariant of the review life cycle: claim tokens separate
\* requests, and calls are those of the one request that matches the row.
THEOREM Invariance == Spec => []Inv
BY InvInit, InvStep, PTL DEF Spec

\* Rows, requests and calls keep their shape; postpone_count never passes
\* QUARANTINE_MAX_POSTPONES, whatever the limits are.
THEOREM TypeCorrect == Spec => []TypeOK
<1>1. Inv => TypeOK
  BY DEF Inv
<1> QED BY <1>1, Invariance, PTL

\* The instant in updated_at is enough of a claim token: a claim has one owner
\* and the row keeps what the owner reviewed.
THEOREM ClaimsAreExclusive == Spec => []ClaimExclusive
<1>1. Inv => ClaimExclusive
  <2> SUFFICES ASSUME Inv PROVE ClaimExclusive
    OBVIOUS
  <2>1. ASSUME NEW p \in Reviewers, Owns(p) PROVE Holds(p) /\ Matched(p) /\ TokenOK(p)
    BY <2>1 DEF Inv, Tokens, Owns, Matched, Open, ClaimStatus
  <2> QED BY <2>1 DEF ClaimExclusive, TokenOK
<1> QED BY <1>1, Invariance, PTL

\* What a call for a trusted row implies.
LEMMA ExposureShown ==
    ASSUME Inv, NEW q \in Items, Trusted(q), Exposed(q)
    PROVE  /\ row[q].status \in {"review_side_effect_started",
                                 "review_side_effect_completed", "reviewed_blocked"}
           /\ \A c \in wire \cup applied : Concerns(c, q) => CallEffect(c, q)
<1>1. \A c \in wire \cup applied : Concerns(c, q) => CallEffect(c, q)
  BY DEF Inv, Effects
<1>2. CASE \E c \in wire \cup applied : Concerns(c, q)
  BY <1>1, <1>2 DEF CallEffect
<1>3. ASSUME NEW p \in Reviewers, AboutToCall(p, q)
      PROVE  row[q].status = "review_side_effect_started"
  <2>1. Matched(p) /\ req[p].q = q
    BY <1>3 DEF Inv, Effects, AboutToCall
  <2>2. RequestOK(p) /\ TokenOK(p)
    BY <2>1 DEF Inv, Requests, Tokens, Matched
  <2> QED BY <1>3, <2>1, <2>2 DEF RequestOK, TokenOK, ClaimStatus, AboutToCall
<1> QED BY <1>1, <1>2, <1>3 DEF Exposed

\* A retain or invalidation that happened or may happen shows in its row.
THEOREM EffectsAccountedFor == Spec => []EffectAccountedFor
<1>1. Inv => EffectAccountedFor
  BY ExposureShown DEF EffectAccountedFor, Trusted, CallEffect
<1> QED BY <1>1, Invariance, PTL

\* Hindsight is called at most once for one admission of an item.
THEOREM OneCallPerAdmission == Spec => []AtMostOneCall
<1>1. Inv => AtMostOneCall
  <2> SUFFICES ASSUME Inv PROVE AtMostOneCall
    OBVIOUS
  <2>1. ASSUME NEW q \in Items, Trusted(q), NEW c \in wire \cup applied, Concerns(c, q)
        PROVE  \A d \in wire \cup applied : Concerns(d, q) => c = d
    BY <2>1 DEF Inv, Effects, CallEffect
  <2> QED BY <2>1 DEF AtMostOneCall, Trusted
<1> QED BY <1>1, Invariance, PTL

\* The completed checkpoint is never ahead of Hindsight.
THEOREM CheckpointsTruthful == Spec => []CheckpointTruthful
<1>1. Inv => CheckpointTruthful
  BY DEF Inv
<1> QED BY <1>1, Invariance, PTL

\* Which rows a step may delete.
LEMMA DeletedRows ==
    ASSUME Inv, [Next]_vars, NEW q \in Items,
           row[q].status # "absent", row'[q].status = "absent"
    PROVE  row[q].status \in Reviewable \cup {"review_in_progress",
                                              "review_side_effect_completed"}
<1> USE DEF SetRow
<1>0. row \in [Items -> Row] /\ row[q] \in Row /\ row'[q] # row[q]
  BY DEF Inv, TypeOK
<1>1. ASSUME NEW p \in Reviewers, RequestStep(p)
      PROVE  row[q].status = "review_side_effect_completed"
  <2>1. CASE FinishSideEffect(p)
    <3>1. req[p].q \in Items
      BY Zenon, <2>1 DEF FinishSideEffect, Inv, Requests, RequestOK
    <3> QED BY <1>0, <2>1, <3>1 DEF FinishSideEffect
  <2>2. CASE CompleteSideEffect(p) \/ FinishApproveMemory(p)
    BY Zenon, <1>0, <2>2 DEF CompleteSideEffect, FinishApproveMemory, Reviewed, Row
  <2>3. CASE InterruptReview(p)
    <3>1. req[p].prev \in Reviewable
      BY <2>3 DEF InterruptReview, Inv, Requests, RequestOK, Holds
    <3> QED BY <1>0, <2>3, <3>1 DEF InterruptReview, Row, Reviewable
  <2>4. CASE ClaimReview(p)
    <3>1. PICK at \in Instants :
            row' = [row EXCEPT ![req[p].q] =
                      [Recovered(row[req[p].q], at) EXCEPT
                         !.status = ClaimStatus(req[p].q, req[p].op), !.updated_at = at]]
      BY Zenon, <2>4 DEF ClaimReview
    <3>2. req[p].q = q /\ Recovered(row[q], at) \in Row
      BY Zenon, <1>0, <3>1, InstantsAreNat, RowsStayRows DEF Inv, TypeOK
    <3> QED BY <1>0, <3>1, <3>2 DEF ClaimStatus, Row
  <2>5. CASE ConfirmApplied(p) \/ ConfirmNotApplied(p)
    <3>1. \E at \in Instants, s \in {"review_side_effect_completed", "postponed"} :
            row' = [row EXCEPT ![req[p].q] = [row[req[p].q] EXCEPT !.status = s,
                                                                   !.updated_at = at]]
      BY Zenon, <2>5 DEF ConfirmApplied, ConfirmNotApplied
    <3> QED BY <1>0, <3>1 DEF Row
  <2>6. CASE row' = row
    BY <1>0, <2>6
  <2> QED BY Zenon, <1>1, <2>1, <2>2, <2>3, <2>4, <2>5, <2>6 DEF RequestStep, ReadUncertain,
             ReadCandidate, SendEffect, EffectSucceeds, EffectDefinitelyFails, MarkFails,
             Abandon
<1>2. ASSUME NEW x \in Items, Postpone(x) \/ Remove(x) \/ ExpireStaleClaim(x)
      PROVE  row[q].status \in Reviewable \cup {"review_in_progress"}
  <2>1. x = q
    BY Zenon, <1>0, <1>2 DEF Postpone, Remove, ExpireStaleClaim
  <2> QED BY Zenon, <1>2, <2>1 DEF Postpone, Remove, ExpireStaleClaim, Mutable, Recovered, Stale
<1>3. CASE RecoverInterrupted \/ SweepExpired \/ \E selected \in SUBSET Items : Cleanup(selected)
  BY Zenon, <1>0, <1>3 DEF RecoverInterrupted, SweepExpired, Cleanup, RecoverRow, Recovered, SweepRow,
     Stale, Row
<1>4. ASSUME NEW x \in Items, NEW sha \in Shas, NEW at \in 0..now,
             Insert(x, sha, at) \/ Requarantine(x, sha, at)
      PROVE  FALSE
  <2>1. CASE Insert(x, sha, at)
    BY <1>0, <2>1 DEF Insert, Fresh
  <2>2. CASE Requarantine(x, sha, at)
    <3>1. \/ row' = [row EXCEPT ![x] = Fresh(sha, at)]
          \/ row' = [row EXCEPT ![x] = [row[x] EXCEPT !.sha = sha, !.updated_at = at,
                                                     !.payload = TRUE]]
      BY Zenon, <2>2 DEF Requarantine
    <3>2. x = q
      BY <1>0, <3>1
    <3>3. /\ Fresh(sha, at).status = "pending"
          /\ [row[q] EXCEPT !.sha = sha, !.updated_at = at, !.payload = TRUE].status
               = row[q].status
      BY <1>0 DEF Row, Fresh
    <3>4. \/ row'[q] = Fresh(sha, at)
          \/ row'[q] = [row[q] EXCEPT !.sha = sha, !.updated_at = at, !.payload = TRUE]
      BY <1>0, <3>1, <3>2
    <3> QED BY Zenon, <3>3, <3>4
  <2> QED BY <1>4, <2>1, <2>2
<1>5. CASE row' = row
  BY <1>0, <1>5
<1> QED BY <1>1, <1>2, <1>3, <1>4, <1>5 DEF Next, vars, UpstreamApply, UpstreamLose, Tick

\* The record of an uncertain effect is never deleted, by whichever of the six
\* ways a row can go.
THEOREM DeletionsSafe == Spec => DeletionSafe
<1>1. Inv /\ [Next]_vars =>
        \A q \in Items : row[q].status # "absent" /\ row'[q].status = "absent" =>
            \/ ~Exposed(q) \/ misreported[q]
            \/ row[q].status = "review_side_effect_completed" /\ Landed(q)
  <2> SUFFICES ASSUME Inv, [Next]_vars, NEW q \in Items, row[q].status # "absent",
                      row'[q].status = "absent", Exposed(q), ~misreported[q]
               PROVE  row[q].status = "review_side_effect_completed" /\ Landed(q)
    OBVIOUS
  <2>1. row[q].status = "review_side_effect_completed"
    BY DeletedRows, ExposureShown DEF Trusted, Reviewable
  <2> QED BY <2>1 DEF Inv, CheckpointTruthful
<1> QED BY <1>1, Invariance, PTL DEF Spec, DeletionSafe
=============================================================================
