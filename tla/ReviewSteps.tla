---------------------------- MODULE ReviewSteps -----------------------------
(***************************************************************************)
(* The steps of a review request that keep or give up its claim preserve   *)
(* the invariant of ReviewInvariant, and so do the steps of Hindsight and  *)
(* of the clock.                                                           *)
(***************************************************************************)
EXTENDS ReviewInvariant

\* The request p keeps its claim and what it knows of it, and changes its
\* program counter only.
Carries(p) ==
    /\ Holds(p) /\ Holds(p)'
    /\ TheCall(p)' = TheCall(p)
    /\ req'[p].q = req[p].q /\ req'[p].op = req[p].op /\ req'[p].sha = req[p].sha
    /\ req'[p].stamp = req[p].stamp /\ req'[p].prev = req[p].prev
    /\ req'[p].gen = req[p].gen

\* Only p moves, and whoever holds a claim after the step held it before.
Frame(p) ==
    /\ \A o \in Reviewers : o # p => req'[o] = req[o] /\ TheCall(o)' = TheCall(o)
    /\ \A o \in Reviewers : Holds(o)' => Carries(o)
    /\ \A o \in Reviewers : Matched(o)' => Matched(o) /\ Carries(o)
    /\ \A o \in Reviewers : Holds(o)' /\ Matched(o) => Matched(o)'

\* The steps of one request that leave the rows alone.
LEMMA RequestFrame ==
    ASSUME TypeOK, TypeOK', NEW p \in Reviewers,
           \/ \E q \in Items : ReadUncertain(p, q)
           \/ \E q \in Items, op \in {"approve", "reject"} : ReadCandidate(p, q, op)
           \/ Abandon(p) \/ EffectSucceeds(p) \/ MarkFails(p)
           \/ SendEffect(p) \/ EffectDefinitelyFails(p)
    PROVE  Frame(p) /\ UNCHANGED <<now, row, gen, misreported>>
<1> USE DEF SetReq, Goto, Done
<1>0. UNCHANGED <<now, row, gen, misreported>>
  BY DEF ReadUncertain, ReadCandidate, Abandon, EffectSucceeds, MarkFails, SendEffect,
         EffectDefinitelyFails
<1>1. \A o \in Reviewers : o # p => req'[o] = req[o] /\ TheCall(o)' = TheCall(o)
  BY DEF ReadUncertain, ReadCandidate, Abandon, EffectSucceeds, MarkFails, SendEffect,
         EffectDefinitelyFails, TypeOK, TheCall
<1>2. ASSUME Holds(p)'
      PROVE  Holds(p) /\ \E label \in {"waiting", "failed", "complete"} :
                           req'[p] = [req[p] EXCEPT !.pc = label]
  BY <1>2 DEF ReadUncertain, ReadCandidate, Abandon, EffectSucceeds, MarkFails, SendEffect,
         EffectDefinitelyFails, TypeOK, Holds, NoRequest
<1>3. ASSUME Holds(p)' PROVE Carries(p)
  <2>1. PICK label : req'[p] = [req[p] EXCEPT !.pc = label]
    BY Zenon, <1>2, <1>3
  <2>2. req[p] \in Request
    BY DEF TypeOK
  <2> QED BY <1>2, <1>3, <2>1, <2>2 DEF Carries, TheCall, Request
<1>4. \A o \in Reviewers : Holds(o)' => Carries(o)
  BY <1>1, <1>3 DEF Carries, Holds
<1> QED BY <1>0, <1>1, <1>4 DEF Frame, Matched, Carries

\* Such a step keeps what the claims mean.
LEMMA FrameTokens ==
    ASSUME Core, NEW p \in Reviewers, Frame(p), UNCHANGED <<now, row, gen, misreported>>
    PROVE  Tokens'
<1> SUFFICES ASSUME NEW o \in Reviewers, Holds(o)' PROVE TokenOK(o)'
  BY DEF Tokens
<1>1. TokenOK(o)
  BY DEF Core, Tokens, Carries, Frame
<1>2. /\ req'[o].q = req[o].q /\ req'[o].op = req[o].op /\ req'[o].sha = req[o].sha
      /\ req'[o].stamp = req[o].stamp /\ req'[o].gen = req[o].gen
  BY DEF Frame, Carries
<1>3. \A x \in Reviewers : Matched(x)' => Matched(x) /\ req'[x].q = req[x].q
  BY DEF Frame, Carries
<1>4. Matched(o)' <=> Matched(o)
  BY DEF Frame
<1> QED BY <1>1, <1>2, <1>3, <1>4 DEF TokenOK

\* A moving request keeps its facts if what it learns is right.
LEMMA FrameRequests ==
    ASSUME Core, NEW p \in Reviewers, Frame(p), UNCHANGED gen, applied \subseteq applied',
           req'[p].pc # "idle" => req'[p].q \in Items,
           Holds(p)' =>
             \/ req[p].pc = "waiting" /\ req'[p].pc = "complete" /\ TheCall(p) \in applied
             \/ req[p].pc = "effect" /\ req'[p].pc = "waiting"
             \/ req'[p].pc = "failed"
    PROVE  Requests'
<1> SUFFICES ASSUME NEW o \in Reviewers PROVE RequestOK(o)'
  BY DEF Requests
<1>1. CASE o # p
  BY <1>1 DEF Frame, Core, Requests, RequestOK, Holds
<1>2. CASE o = p /\ Holds(p)'
  <2>1. RequestOK(p) /\ Carries(p)
    BY <1>2 DEF Core, Requests, Frame
  <2> QED BY <1>2, <2>1 DEF RequestOK, Holds, Carries
<1>3. CASE o = p /\ ~Holds(p)'
  BY <1>3 DEF Holds, RequestOK
<1> QED BY <1>1, <1>2, <1>3

\* Reading, giving up, and learning the outcome of a call or of a decision.
LEMMA QuietSteps ==
    ASSUME TypeOK, TypeOK', Core, NEW p \in Reviewers,
           \/ \E q \in Items : ReadUncertain(p, q)
           \/ \E q \in Items, op \in {"approve", "reject"} : ReadCandidate(p, q, op)
           \/ Abandon(p) \/ EffectSucceeds(p) \/ MarkFails(p)
    PROVE  Core'
<1>1. UNCHANGED <<now, row, wire, applied, gen, misreported>>
  BY Zenon DEF ReadUncertain, ReadCandidate, Abandon, EffectSucceeds, MarkFails, upstream
<1>2. Frame(p)
  BY RequestFrame
<1>3. /\ req'[p].pc # "idle" => req'[p].q \in Items
      /\ Holds(p)' =>
           \/ req[p].pc = "waiting" /\ req'[p].pc = "complete" /\ TheCall(p) \in applied
           \/ req[p].pc = "mark" /\ req'[p].pc = "failed"
  BY DEF Core, Requests, RequestOK, ReadUncertain, ReadCandidate, Abandon, EffectSucceeds,
     MarkFails, SetReq, Goto, Done, NoRequest, Holds, TypeOK, Request
<1>4. Requests' /\ Tokens'
  BY <1>1, <1>2, <1>3, FrameRequests, FrameTokens
<1>5. ASSUME NEW q \in Items, Trusted(q)', NEW c \in wire \cup applied, Concerns(c, q),
             NEW o \in Reviewers, Matched(o)', req'[o].q = q
      PROVE  OwnerEffect(o, c)'
  <2>1. Trusted(q) /\ Matched(o) /\ req[o].q = q /\ Holds(o) /\ TheCall(o)' = TheCall(o)
    BY <1>1, <1>2, <1>5 DEF Trusted, Carries, Frame
  <2>2. OwnerEffect(o, c) /\ CallEffect(c, q)
    BY <1>5, <2>1 DEF Core, Effects
  <2>3. CASE o # p
    BY <1>1, <1>2, <2>2, <2>3 DEF OwnerEffect, Frame
  <2>4. CASE o = p
    <3>1. row[q].status = ClaimStatus(q, req[p].op)
      BY <2>1, <2>4 DEF Core, Tokens, TokenOK
    <3>2. row[q].status # "review_in_progress"
      BY <2>2 DEF CallEffect
    <3>3. req[p].pc # "mark"
      BY <2>1, <2>4, <3>1, <3>2 DEF Core, Requests, RequestOK, ClaimStatus
    <3>4. req[p].pc = "waiting" /\ req'[p].pc = "complete"
      BY <1>3, <1>5, <2>4, <3>3 DEF Matched
    <3> QED BY <1>1, <2>1, <2>2, <2>4, <3>4 DEF OwnerEffect
  <2> QED BY <2>3, <2>4
<1>6. ASSUME NEW q \in Items, Trusted(q)', NEW o \in Reviewers, AboutToCall(o, q)'
      PROVE  Matched(o)'
  <2>1. Holds(o)' /\ o # p
    BY <1>3, <1>6 DEF AboutToCall, Holds
  <2>2. Trusted(q) /\ AboutToCall(o, q)
    BY <1>1, <1>2, <1>6, <2>1 DEF Trusted, AboutToCall, Frame
  <2> QED BY <1>2, <2>1, <2>2 DEF Core, Effects, Frame
<1>7. ASSUME NEW q \in Items, Trusted(q)', NEW c \in wire \cup applied, Concerns(c, q)
      PROVE  CallEffect(c, q)'
  BY <1>1, <1>7 DEF Core, Effects, Trusted, CallEffect, Concerns
<1>8. Effects'
  BY <1>1, <1>5, <1>6, <1>7 DEF Effects, Concerns
<1> QED BY <1>1, <1>4, <1>8 DEF Core, CallsKnown, CheckpointTruthful, Landed, Concerns

\* The call leaves: it is the first one for its row.
LEMMA SendStep ==
    ASSUME TypeOK, TypeOK', Core, NEW p \in Reviewers, SendEffect(p)
    PROVE  Core'
<1> DEFINE K == TheCall(p)
<1>1. Frame(p) /\ UNCHANGED <<now, row, gen, misreported>>
  BY RequestFrame
<1>2. /\ req[p].pc = "effect" /\ wire' = wire \cup {K} /\ applied' = applied
      /\ req'[p].pc = "waiting" /\ req'[p].q = req[p].q /\ Holds(p) /\ Holds(p)'
      /\ TheCall(p)' = K
  <2>1. req[p].pc = "effect" /\ req'[p].pc = "waiting"
    BY DEF SendEffect, Goto, SetReq, TypeOK, Request
  <2> QED BY <1>1, <2>1 DEF SendEffect, Frame, Carries, Holds
<1>3. K.q = req[p].q /\ K.gen = req[p].gen /\ K.at = req[p].stamp /\ K.sha = req[p].sha
      /\ req[p].q \in Items
  BY <1>2 DEF TheCall, Core, Requests, RequestOK
<1>4. Requests' /\ Tokens'
  BY <1>1, <1>2, <1>3, FrameRequests, FrameTokens
<1>5. CallsKnown'
  BY <1>1, <1>2, <1>3 DEF Core, CallsKnown, Requests, RequestOK
<1>6. ASSUME NEW q \in Items, Trusted(q), Concerns(K, q)
      PROVE  /\ Matched(p) /\ req[p].q = q
             /\ \A c \in wire \cup applied : ~Concerns(c, q)
  BY Zenon, <1>2, <1>3, <1>6 DEF Core, Effects, Concerns, AboutToCall, OwnerEffect
<1>7. ASSUME NEW q \in Items, Trusted(q), NEW c \in wire \cup applied \cup {K},
             Concerns(c, q)
      PROVE  CallEffect(c, q)'
  <2>1. CASE Concerns(K, q)
    <3>1. c = K /\ Matched(p) /\ req[p].q = q
      BY <1>6, <1>7, <2>1
    <3>2. row[q].status = "review_side_effect_started" /\ row[q].sha = K.sha
          /\ row[q].updated_at = K.at
      BY <1>2, <1>3, <3>1 DEF Core, Tokens, TokenOK, Requests, RequestOK, ClaimStatus, Matched
    <3> QED BY <1>1, <1>2, <1>6, <1>7, <2>1, <3>1, <3>2 DEF CallEffect, Concerns
  <2>2. CASE ~Concerns(K, q)
    BY <1>1, <1>2, <1>7, <2>2 DEF Core, Effects, CallEffect, Concerns
  <2> QED BY <2>1, <2>2
<1>8. ASSUME NEW q \in Items, Trusted(q), NEW c \in wire \cup applied \cup {K},
             Concerns(c, q), NEW o \in Reviewers, Matched(o)', req'[o].q = q
      PROVE  OwnerEffect(o, c)'
  <2>1. Matched(o) /\ Holds(o) /\ req[o].q = q /\ TheCall(o)' = TheCall(o)
    BY <1>1, <1>8 DEF Frame, Carries
  <2>2. CASE Concerns(K, q)
    <3>1. c = K /\ Matched(p) /\ req[p].q = q /\ c \notin applied
      BY <1>6, <1>8, <2>2
    <3>2. o = p
      BY <1>2, <2>1, <3>1 DEF Core, Tokens, TokenOK
    <3> QED BY <1>2, <3>1, <3>2 DEF OwnerEffect
  <2>3. CASE ~Concerns(K, q)
    <3>1. OwnerEffect(o, c) /\ c # K
      BY <1>8, <2>1, <2>3 DEF Core, Effects
    <3>2. o # p
      BY <1>2, <3>1 DEF OwnerEffect
    <3> QED BY <1>1, <1>2, <3>1, <3>2 DEF OwnerEffect, Frame
  <2> QED BY <2>2, <2>3
<1>9. ASSUME NEW q \in Items, Trusted(q), NEW o \in Reviewers, AboutToCall(o, q)'
      PROVE  Matched(o)'
  <2>1. Holds(o)' /\ o # p
    BY <1>2, <1>9 DEF AboutToCall, Holds
  <2>2. AboutToCall(o, q)
    BY <1>1, <1>9, <2>1 DEF AboutToCall, Frame
  <2> QED BY <1>1, <1>9, <2>1, <2>2 DEF Core, Effects, Frame
<1>10. Effects'
  BY <1>1, <1>2, <1>7, <1>8, <1>9 DEF Effects, Concerns, Trusted
<1> QED BY <1>1, <1>2, <1>4, <1>5, <1>10 DEF Core, CheckpointTruthful, Landed, Concerns

\* A definite failure takes the only call back.
LEMMA DefiniteFailureStep ==
    ASSUME TypeOK, TypeOK', Core, NEW p \in Reviewers, EffectDefinitelyFails(p)
    PROVE  Core'
<1> DEFINE K == TheCall(p)
<1>1. Frame(p) /\ UNCHANGED <<now, row, gen, misreported>>
  BY RequestFrame
<1>2. /\ req[p].pc = "effect" \/ (req[p].pc = "waiting" /\ K \in wire)
      /\ wire' = wire \ {K} /\ applied' = applied
      /\ req'[p].pc = "failed" /\ Holds(p) /\ Holds(p)' /\ req'[p].q = req[p].q
      /\ req[p].q \in Items
  <2>1. (req[p].pc = "effect" \/ (req[p].pc = "waiting" /\ K \in wire))
        /\ req'[p].pc = "failed"
    BY DEF EffectDefinitelyFails, Goto, SetReq, TypeOK, Request
  <2> QED BY <1>1, <2>1 DEF EffectDefinitelyFails, Frame, Carries, Holds, Core, Requests,
          RequestOK
<1>3. Requests' /\ Tokens'
  BY <1>1, <1>2, FrameRequests, FrameTokens
<1>4. ASSUME NEW q \in Items, Trusted(q), NEW c \in wire' \cup applied', Concerns(c, q)
      PROVE  CallEffect(c, q)'
  BY <1>1, <1>2, <1>4 DEF Core, Effects, CallEffect, Concerns
<1>5. ASSUME NEW q \in Items, Trusted(q), NEW c \in wire' \cup applied',
             Concerns(c, q), NEW o \in Reviewers, Matched(o)', req'[o].q = q
      PROVE  OwnerEffect(o, c)'
  <2>1. Matched(o) /\ Holds(o) /\ req[o].q = q /\ TheCall(o)' = TheCall(o)
    BY <1>1, <1>5 DEF Frame, Carries
  <2>2. OwnerEffect(o, c)
    BY <1>2, <1>5, <2>1 DEF Core, Effects
  <2>3. o # p
    BY <1>2, <1>5, <2>2 DEF OwnerEffect
  <2> QED BY <1>1, <1>2, <2>2, <2>3 DEF OwnerEffect, Frame
<1>6. ASSUME NEW q \in Items, Trusted(q), NEW o \in Reviewers, AboutToCall(o, q)'
      PROVE  Matched(o)'
  <2>1. Holds(o)' /\ o # p
    BY <1>2, <1>6 DEF AboutToCall, Holds
  <2>2. AboutToCall(o, q)
    BY <1>1, <1>6, <2>1 DEF AboutToCall, Frame
  <2> QED BY <1>1, <1>6, <2>1, <2>2 DEF Core, Effects, Frame
<1>7. Effects'
  BY <1>1, <1>2, <1>4, <1>5, <1>6 DEF Effects, Concerns, Trusted
<1> QED BY <1>1, <1>2, <1>3, <1>7 DEF Core, CallsKnown, CheckpointTruthful, Landed, Concerns

\* Hindsight carries a call out or loses it, and time passes.
LEMMA EnvironmentSteps ==
    ASSUME TypeOK, TypeOK', Core,
           \/ \E c \in wire : UpstreamApply(c) \/ UpstreamLose(c)
           \/ Tick
    PROVE  Core'
<1>1. /\ UNCHANGED <<row, req, gen, misreported>> /\ now' >= now
      /\ applied \subseteq applied' /\ wire' \subseteq wire
      /\ wire' \cup applied' \subseteq wire \cup applied
      /\ \A c \in wire' : c \in applied' => c \in applied
  BY DEF UpstreamApply, UpstreamLose, Tick, upstream, TypeOK
<1>2. /\ \A p \in Reviewers : Holds(p)' <=> Holds(p)
      /\ \A p \in Reviewers : Matched(p)' <=> Matched(p)
      /\ \A p \in Reviewers : TheCall(p)' = TheCall(p)
  BY <1>1 DEF Holds, Matched, TheCall
<1>3. Requests' /\ CallsKnown'
  BY <1>1, <1>2 DEF Core, Requests, RequestOK, CallsKnown
<1>4. ASSUME NEW p \in Reviewers, Holds(p) PROVE TokenOK(p)'
  <2>1. TokenOK(p) /\ now \in Nat /\ now' \in Nat /\ req[p].stamp \in Nat
    BY <1>4 DEF Core, Tokens, TypeOK, Request
  <2> QED BY <1>1, <1>2, <2>1, TimingAssumption DEF TokenOK
<1>5. Tokens'
  BY <1>2, <1>4 DEF Tokens
<1>6. ASSUME NEW q \in Items, Trusted(q), NEW c \in wire' \cup applied', Concerns(c, q)
      PROVE  /\ CallEffect(c, q)'
             /\ \A p \in Reviewers : Matched(p) /\ req[p].q = q => OwnerEffect(p, c)'
  <2>1. CallEffect(c, q)
    BY <1>1, <1>6 DEF Core, Effects
  <2>2. \A p \in Reviewers : Matched(p) /\ req[p].q = q => OwnerEffect(p, c)
    BY <1>1, <1>6 DEF Core, Effects
  <2> QED BY <1>1, <1>2, <2>1, <2>2 DEF CallEffect, OwnerEffect, Concerns
<1>7. Effects'
  BY <1>1, <1>2, <1>6 DEF Core, Effects, Trusted, Concerns, AboutToCall
<1> QED BY <1>1, <1>3, <1>5, <1>7 DEF Core, CheckpointTruthful, Landed, Concerns

\* Whoever holds a claim on an item that no longer matches is out of date.
LEMMA Outdated ==
    ASSUME Core, NEW o \in Reviewers, Holds(o), ~Matched(o)
    PROVE  now > req[o].stamp + Lag
BY DEF Core, Tokens, TokenOK

\* A step of p that takes the row q out of its claim keeps the invariant if
\* all other claims on q are out of date, calls survive only in a row that
\* says so, and a checkpoint is true.
LEMMA ClosingStep ==
    ASSUME TypeOK, TypeOK', Core, NEW p \in Reviewers, NEW q \in Items,
           UNCHANGED <<now, wire, applied, gen>>,
           \A x \in Items : x # q => row'[x] = row[x] /\ misreported'[x] = misreported[x],
           \A o \in Reviewers : o # p => req'[o] = req[o],
           ~Holds(p)', req'[p].pc # "idle" => req'[p].q \in Items,
           row[q].status # "reviewed_blocked", row'[q].status \notin Open,
           \A o \in Reviewers : o # p /\ Holds(o) /\ req[o].q = q => now > req[o].stamp + Lag,
           Trusted(q)' =>
             /\ Trusted(q)
             /\ \A o \in Reviewers : o # p => ~AboutToCall(o, q)
             /\ \A c \in wire \cup applied : Concerns(c, q) =>
                  \/ row'[q].status = "reviewed_blocked"
                  \/ /\ row'[q].status = "review_side_effect_completed"
                     /\ row'[q].sha = row[q].sha,
           row'[q].status \in {"review_side_effect_completed", "reviewed_blocked"} =>
             Landed(q) \/ misreported'[q]
    PROVE  Core'
<1>1. ASSUME NEW o \in Reviewers, Holds(o)'
      PROVE  /\ o # p /\ req'[o] = req[o] /\ Holds(o) /\ req[o].q \in Items
             /\ TheCall(o)' = TheCall(o) /\ RequestOK(o) /\ TokenOK(o)
  BY Zenon, <1>1 DEF Holds, TheCall, Core, Requests, RequestOK, Tokens
<1>2. ASSUME NEW o \in Reviewers, Matched(o)'
      PROVE  /\ Matched(o) /\ o # p /\ req'[o] = req[o] /\ req[o].q # q
             /\ row'[req[o].q] = row[req[o].q] /\ TheCall(o)' = TheCall(o)
  <2>1. /\ o # p /\ req'[o] = req[o] /\ Holds(o) /\ req[o].q \in Items
        /\ TheCall(o)' = TheCall(o)
    BY <1>1, <1>2 DEF Matched
  <2>2. /\ row'[req[o].q].status \in Open
        /\ row'[req[o].q].updated_at = req[o].stamp
    BY <1>2, <2>1 DEF Matched
  <2>3. req[o].q # q /\ row'[req[o].q] = row[req[o].q]
    BY <2>1, <2>2
  <2> QED BY <2>1, <2>2, <2>3 DEF Matched
<1>3. Requests'
  <2>1. ASSUME NEW o \in Reviewers, o # p PROVE RequestOK(o)'
    BY <2>1 DEF Core, Requests, RequestOK, Holds, TheCall
  <2>2. RequestOK(p)'
    BY DEF RequestOK, Holds
  <2> QED BY Zenon, <2>1, <2>2 DEF Requests
<1>4. ASSUME NEW o \in Reviewers, Holds(o)' PROVE TokenOK(o)'
  <2>1. CASE req[o].q = q
    BY Zenon, <1>1, <1>2, <1>4, <2>1 DEF TokenOK
  <2>2. CASE req[o].q # q
    <3>1. /\ req'[o] = req[o] /\ req[o].q \in Items /\ TokenOK(o)
          /\ row'[req[o].q] = row[req[o].q]
      BY <1>1, <1>4, <2>2
    <3>2. Matched(o)' <=> Matched(o)
      BY <1>1, <1>4, <3>1 DEF Matched
    <3>3. \A x \in Reviewers : Matched(x)' /\ req'[x].q = req[o].q =>
            Matched(x) /\ req[x].q = req[o].q
      BY <1>2
    <3> QED BY Zenon, <3>1, <3>2, <3>3 DEF TokenOK
  <2> QED BY <2>1, <2>2
<1>5. ASSUME NEW x \in Items, Trusted(x)', NEW c \in wire \cup applied, Concerns(c, x)
      PROVE  CallEffect(c, x)'
  <2>1. CASE x # q
    <3>1. Trusted(x) /\ row'[x] = row[x]
      BY <1>5, <2>1 DEF Trusted
    <3>2. CallEffect(c, x)
      BY Zenon, <1>5, <3>1 DEF Core, Effects
    <3> QED BY <3>1, <3>2 DEF CallEffect, Concerns
  <2>2. CASE x = q
    BY <1>5, <2>2 DEF Core, Effects, CallEffect, Concerns
  <2> QED BY <2>1, <2>2
<1>6. ASSUME NEW x \in Items, Trusted(x)', NEW c \in wire \cup applied, Concerns(c, x),
             NEW o \in Reviewers, Matched(o)', req'[o].q = x
      PROVE  OwnerEffect(o, c)'
  <2>1. x # q /\ Matched(o) /\ req'[o] = req[o] /\ TheCall(o)' = TheCall(o)
    BY Zenon, <1>2, <1>6
  <2>2. OwnerEffect(o, c)
    BY Zenon, <1>6, <2>1 DEF Core, Effects, Trusted
  <2> QED BY <2>1, <2>2 DEF OwnerEffect
<1>7. ASSUME NEW x \in Items, Trusted(x)', NEW o \in Reviewers, AboutToCall(o, x)'
      PROVE  Matched(o)'
  <2>1. Holds(o)'
    BY <1>7 DEF AboutToCall, Holds
  <2>2. o # p /\ req'[o] = req[o] /\ AboutToCall(o, x) /\ req[o].q = x
    BY Zenon, <1>1, <1>7, <2>1 DEF AboutToCall
  <2>3. x # q
    BY Zenon, <1>7, <2>2
  <2>4. Matched(o)
    BY Zenon, <1>7, <2>2, <2>3 DEF Core, Effects, Trusted
  <2> QED BY Zenon, <2>1, <2>2, <2>3, <2>4 DEF Matched
<1>8. Effects'
  BY Zenon, <1>5, <1>6, <1>7 DEF Effects, Concerns
<1>9. CheckpointTruthful'
  BY Zenon DEF Core, CheckpointTruthful, Landed, Concerns
<1>10. Tokens'
  BY <1>4 DEF Tokens
<1> QED BY <1>3, <1>8, <1>9, <1>10 DEF Core, CallsKnown

\* When p's claim matches, every other claim on its item is out of date and
\* nobody else is about to call Hindsight for it.
LEMMA SoleOwner ==
    ASSUME Core, NEW p \in Reviewers, Matched(p), NEW o \in Reviewers, o # p
    PROVE  /\ Holds(o) /\ req[o].q = req[p].q => now > req[o].stamp + Lag
           /\ Trusted(req[p].q) => ~AboutToCall(o, req[p].q)
<1>1. Holds(p) /\ req[p].q \in Items
  BY DEF Matched, Core, Requests, RequestOK, Holds
<1>2. ~(Matched(o) /\ req[o].q = req[p].q)
  BY <1>1 DEF Core, Tokens, TokenOK
<1> QED BY <1>1, <1>2, Outdated DEF Core, Effects, AboutToCall

\* complete_side_effect, finish_approve_memory and interrupt_review.
LEMMA OwnerSteps ==
    ASSUME TypeOK, TypeOK', Core, NEW p \in Reviewers,
           CompleteSideEffect(p) \/ FinishApproveMemory(p) \/ InterruptReview(p)
    PROVE  Core'
<1>0. PICK q \in Items : q = req[p].q
  BY DEF CompleteSideEffect, FinishApproveMemory, InterruptReview, Core, Requests, RequestOK
<1>1. /\ UNCHANGED <<now, wire, applied, gen, misreported>>
      /\ q = req[p].q /\ row[q] \in Row /\ Holds(p) /\ RequestOK(p)
      /\ \A o \in Reviewers : o # p => req'[o] = req[o]
      /\ ~Holds(p)' /\ (req'[p].pc # "idle" => req'[p].q = q)
  BY <1>0 DEF CompleteSideEffect, FinishApproveMemory, InterruptReview, upstream, Core,
         Requests, RequestOK, Done, Goto, SetReq, NoRequest, Holds, TypeOK, Request
<1>2. CASE InterruptReview(p) /\ ~Matched(p)
  <2>1. row' = row
    BY <1>1, <1>2 DEF InterruptReview, Matched, Open
  <2>2. Abandon(p)
    BY <1>2, <2>1 DEF InterruptReview, Abandon
  <2> QED BY <2>2, QuietSteps
<1>3. CASE ~(InterruptReview(p) /\ ~Matched(p))
  <2>1. Matched(p)
    BY <1>1, <1>3 DEF CompleteSideEffect, FinishApproveMemory, Matched, Matches, Open
  <2>2. /\ row[q].sha = req[p].sha /\ gen[q] = req[p].gen
        /\ row[q].status = ClaimStatus(q, req[p].op) /\ row[q].status \in Open
    BY <1>1, <2>1 DEF Core, Tokens, TokenOK, Matched
  <2>3. /\ \A x \in Items : x # q => row'[x] = row[x] /\ misreported'[x] = misreported[x]
        /\ misreported'[q] = misreported[q] /\ row[q].status # "reviewed_blocked"
        /\ Trusted(q)' => Trusted(q)
    BY <1>1, <2>2 DEF CompleteSideEffect, FinishApproveMemory, InterruptReview, SetRow,
       TypeOK, Open, Trusted
  <2>7. /\ \A o \in Reviewers : o # p /\ Holds(o) /\ req[o].q = q => now > req[o].stamp + Lag
        /\ Trusted(q) => \A o \in Reviewers : o # p => ~AboutToCall(o, q)
    BY <1>1, <2>1, SoleOwner
  <2>4. CASE CompleteSideEffect(p)
    <3>1. row'[q].status = "review_side_effect_completed" /\ row'[q].sha = row[q].sha
      BY <1>1, <2>4 DEF CompleteSideEffect, SetRow, TypeOK, Row
    <3>2. Landed(q)
      BY <1>1, <2>2, <2>4 DEF CompleteSideEffect, RequestOK, Landed, Concerns, TheCall
    <3> QED BY Zenon, <1>1, <2>3, <2>7, <3>1, <3>2, ClosingStep DEF Open
  <2>5. CASE FinishApproveMemory(p)
    <3>1. /\ row[q].status = "review_in_progress"
          /\ row'[q].status = "reviewed_allowed"
      BY <1>1, <2>5 DEF FinishApproveMemory, Reviewed, SetRow, TypeOK, Row
    <3>2. \A c \in wire \cup applied : Trusted(q) => ~Concerns(c, q)
      BY Zenon, <1>1, <3>1 DEF Core, Effects, CallEffect
    <3> QED BY Zenon, <1>1, <2>3, <2>7, <3>1, <3>2, ClosingStep DEF Open
  <2>6. CASE InterruptReview(p)
    <3>1. row'[q].status \in Reviewable /\ req[p].pc = "failed"
      BY <1>1, <2>1, <2>6 DEF InterruptReview, Matched, Open, SetRow, TypeOK, Row, RequestOK
    <3>2. \A c \in wire \cup applied : Trusted(q) => ~Concerns(c, q)
      BY Zenon, <1>1, <2>1, <3>1 DEF Core, Effects, OwnerEffect
    <3> QED BY <1>1, <2>3, <2>7, <3>1, <3>2, ClosingStep DEF Open, Reviewable
  <2> QED BY <2>4, <2>5, <2>6
<1> QED BY <1>2, <1>3

\* finish_approve_retain and finish_reject_memory act on a checkpointed row,
\* on which no claim matches.
LEMMA FinishStep ==
    ASSUME TypeOK, TypeOK', Core, NEW p \in Reviewers, FinishSideEffect(p)
    PROVE  Core'
<1>0. PICK q \in Items : q = req[p].q
  BY Zenon DEF FinishSideEffect, Core, Requests, RequestOK
<1>1. /\ UNCHANGED <<now, wire, applied, gen, misreported>>
      /\ q = req[p].q /\ row[q] \in Row
      /\ \A o \in Reviewers : o # p => req'[o] = req[o]
      /\ ~Holds(p)' /\ req'[p].pc = "idle"
      /\ row[q].status = "review_side_effect_completed"
      /\ \A x \in Items : x # q => row'[x] = row[x]
  BY <1>0 DEF FinishSideEffect, upstream, Core, Requests, RequestOK, Done, SetReq, SetRow,
         NoRequest, Holds, TypeOK
<1>2. row'[q].status \in {"absent", "reviewed_blocked"}
  BY <1>1 DEF FinishSideEffect, SetRow, Reviewed, Absent, TypeOK, Row
<1>3. \A o \in Reviewers : req[o].q = q => ~Matched(o)
  BY <1>1 DEF Matched, Open
<1>4. \A o \in Reviewers : Trusted(q) => ~AboutToCall(o, q)
  BY <1>1, <1>3 DEF Core, Effects, AboutToCall
<1>5. Landed(q) \/ misreported[q]
  BY <1>1 DEF Core, CheckpointTruthful
<1>6. \A o \in Reviewers : Holds(o) /\ req[o].q = q => now > req[o].stamp + Lag
  BY <1>3, Outdated
<1>7. /\ \A x \in Items : misreported'[x] = misreported[x]
      /\ Trusted(q)' => Trusted(q) /\ row'[q].status = "reviewed_blocked"
  BY <1>1, <1>2 DEF Trusted
<1> QED BY <1>1, <1>2, <1>4, <1>5, <1>6, <1>7, ClosingStep DEF Open

\* An operator's verdict comes so late that the claim it names is out of date.
LEMMA VerdictIsLate ==
    ASSUME TypeOK, Core, NEW p \in Reviewers, NEW at \in Instants, Reconcilable(p, at)
    PROVE  /\ req[p].q \in Items /\ row[req[p].q] \in Row /\ req[p] \in Request
           /\ row[req[p].q].status = "review_side_effect_started"
           /\ \A o \in Reviewers :
                Holds(o) /\ req[o].q = req[p].q => now > req[o].stamp + Lag
<1>1. /\ req[p].q \in Items /\ row[req[p].q] \in Row /\ req[p] \in Request
      /\ row[req[p].q].status = "review_side_effect_started"
      /\ row[req[p].q].updated_at = req[p].stamp
  BY DEF Reconcilable, Matches, TypeOK, Core, Requests, RequestOK
<1>2. ASSUME NEW o \in Reviewers, Holds(o), req[o].q = req[p].q, Matched(o)
      PROVE  now > req[o].stamp + Lag
  <2>1. req[o].stamp = req[p].stamp /\ req[p].stamp \in Nat
    BY Zenon, <1>1, <1>2 DEF Matched, Request
  <2>2. at >= req[p].stamp + OperatorLatency /\ at \in Nat /\ at <= now /\ now \in Nat
    BY InstantsAreNat DEF Reconcilable, TypeOK
  <2> QED BY <2>1, <2>2, TimingAssumption
<1> QED BY <1>1, <1>2, Outdated

\* confirmed_applied keeps the calls of the row on record.
LEMMA ConfirmAppliedStep ==
    ASSUME TypeOK, TypeOK', Core, NEW p \in Reviewers, ConfirmApplied(p)
    PROVE  Core'
<1>0. PICK q \in Items : q = req[p].q
  BY DEF ConfirmApplied, Reconcilable, Core, Requests, RequestOK
<1>1. PICK at \in Instants :
        /\ Reconcilable(p, at)
        /\ SetRow(q, [row[q] EXCEPT !.status = "review_side_effect_completed",
                                    !.updated_at = at])
        /\ SetReq(p, [req[p] EXCEPT !.pc = "finish", !.stamp = at])
  BY Zenon, <1>0 DEF ConfirmApplied
<1>2. /\ q \in Items /\ row[q] \in Row /\ req[p] \in Request
      /\ row[q].status = "review_side_effect_started"
      /\ \A o \in Reviewers : Holds(o) /\ req[o].q = q => now > req[o].stamp + Lag
  BY <1>0, <1>1, VerdictIsLate
<1>3. /\ UNCHANGED <<now, wire, applied, gen>>
      /\ misreported' = [misreported EXCEPT ![q] = misreported[q] \/ ~Landed(q)]
  BY <1>0 DEF ConfirmApplied, upstream
<1>4. /\ \A o \in Reviewers : o # p => req'[o] = req[o]
      /\ ~Holds(p)' /\ req'[p].q = q
  BY <1>0, <1>1, <1>2 DEF SetReq, Holds, TypeOK, Request
<1>5. /\ \A x \in Items : x # q => row'[x] = row[x] /\ misreported'[x] = misreported[x]
      /\ row'[q].status = "review_side_effect_completed" /\ row'[q].sha = row[q].sha
      /\ misreported'[q] <=> misreported[q] \/ ~Landed(q)
  BY Zenon, <1>1, <1>2, <1>3 DEF SetRow, TypeOK, Row
<1>6. ASSUME Trusted(q)'
      PROVE  Trusted(q) /\ \A o \in Reviewers : ~AboutToCall(o, q)
  <2>1. Trusted(q) /\ Landed(q)
    BY <1>2, <1>5, <1>6 DEF Trusted
  <2>2. PICK c \in applied : Concerns(c, q)
    BY <2>1 DEF Landed
  <2>3. \A o \in Reviewers :
          /\ AboutToCall(o, q) => Matched(o)
          /\ Matched(o) /\ req[o].q = q => OwnerEffect(o, c)
    BY <1>2, <2>1, <2>2 DEF Core, Effects
  <2> QED BY <2>1, <2>3 DEF OwnerEffect, AboutToCall
<1> QED BY Zenon, <1>2, <1>3, <1>4, <1>5, <1>6, ClosingStep DEF Open

\* confirmed_not_applied opens the row; the ghost records whether it was right.
LEMMA ConfirmNotAppliedStep ==
    ASSUME TypeOK, TypeOK', Core, NEW p \in Reviewers, ConfirmNotApplied(p)
    PROVE  Core'
<1>0. PICK q \in Items : q = req[p].q
  BY DEF ConfirmNotApplied, Reconcilable, Core, Requests, RequestOK
<1>1. PICK at \in Instants :
        /\ Reconcilable(p, at)
        /\ SetRow(q, [row[q] EXCEPT !.status = "postponed", !.updated_at = at])
  BY Zenon, <1>0 DEF ConfirmNotApplied
<1>2. /\ q \in Items /\ row[q] \in Row /\ req[p] \in Request
      /\ row[q].status = "review_side_effect_started"
      /\ \A o \in Reviewers : Holds(o) /\ req[o].q = q => now > req[o].stamp + Lag
  BY <1>0, <1>1, VerdictIsLate
<1>3. /\ UNCHANGED <<now, wire, applied, gen>>
      /\ misreported' = [misreported EXCEPT ![q] = misreported[q] \/ Exposed(q)]
      /\ Done(p)
  BY <1>0 DEF ConfirmNotApplied, upstream
<1>4. /\ \A o \in Reviewers : o # p => req'[o] = req[o]
      /\ ~Holds(p)' /\ req'[p].pc = "idle"
  BY <1>3 DEF Done, SetReq, NoRequest, Holds, TypeOK
<1>5. /\ \A x \in Items : x # q => row'[x] = row[x] /\ misreported'[x] = misreported[x]
      /\ row'[q].status = "postponed"
      /\ misreported'[q] <=> misreported[q] \/ Exposed(q)
  BY Zenon, <1>1, <1>2, <1>3 DEF SetRow, TypeOK, Row
<1>6. ASSUME Trusted(q)'
      PROVE  /\ Trusted(q)
             /\ \A o \in Reviewers : ~AboutToCall(o, q)
             /\ \A c \in wire \cup applied : ~Concerns(c, q)
  <2>1. Trusted(q) /\ ~Exposed(q)
    BY <1>2, <1>5, <1>6 DEF Trusted
  <2> QED BY <2>1 DEF Exposed
<1> QED BY Zenon, <1>2, <1>3, <1>4, <1>5, <1>6, ClosingStep DEF Open
=============================================================================
