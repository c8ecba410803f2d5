----------------------------- MODULE HumanAuth -----------------------------
(***************************************************************************)
(* Interactive login (human_auth.py, human_auth_store.py, human_oidc.py,   *)
(* cli/human_auth.py).  A login starts with a row of human_auth_logins,    *)
(* the person signs in at the identity provider, and an exchange claims    *)
(* the row, asks the provider who signed in, and issues a session.  Each   *)
(* store operation is one transaction under the capacity lock; between     *)
(* them other replicas, an operator who activates a new policy, and the    *)
(* clock move.  A replica is known by the generation of its policy.        *)
(***************************************************************************)
EXTENDS Integers, FiniteSets, FiniteSetsExt

CONSTANTS
    None,           \* no value
    Generations,    \* policies some replica or operator is configured with
    Subjects,       \* persons the provider knows
    Members,        \* Members[g]: subjects that policy g maps to a principal
    Logins,         \* transaction ids
    Exchanges,      \* exchange requests; also the key ids of their sessions
    LoginTtl, SessionTtl,
    MaxLogins, MaxSessions, MaxPersonal,
    ProviderSlots,  \* concurrent conversations with the provider
    MaxEpoch        \* bound on activations

ASSUME HumanAssumption ==
    /\ Members \in [Generations -> SUBSET Subjects]
    /\ LoginTtl \in Nat \ {0} /\ SessionTtl \in Nat \ {0}
    /\ None \notin Logins \cup Subjects

VARIABLES
    policy,     \* human_auth_policy: [gen, epoch]; gen None before the first start
    up,         \* generations whose replicas passed initialize
    login,      \* human_auth_logins: id -> None or [gen, epoch, left]
    start,      \* where the request that started a login stands: [pc, gen]
    signedIn,   \* id -> the person who signed in with its authorization URL
    exchange,   \* exchange request -> [pc, gen, id, epoch, who]
    session,    \* human_auth_sessions: key -> None or [gen, epoch, who, left, revoked]
    leaving     \* keys whose sign-out is authenticated and not yet revoked

vars == <<policy, up, login, start, signedIn, exchange, session, leaving>>

NoExchange == [pc |-> "new", gen |-> None, id |-> None, epoch |-> 0, who |-> None]

Init ==
    /\ policy = [gen |-> None, epoch |-> 1]
    /\ up = {}
    /\ login = [t \in Logins |-> None]
    /\ start = [t \in Logins |-> [pc |-> "new", gen |-> None]]
    /\ signedIn = [t \in Logins |-> None]
    /\ exchange = [e \in Exchanges |-> NoExchange]
    /\ session = [k \in Exchanges |-> None]
    /\ leaving = {}

-----------------------------------------------------------------------------
(* The store                                                               *)

\* _require_generation: the caller's policy is the active one.
RequireGeneration(g) == g \in up /\ policy.gen = g

Rows(table) == {i \in DOMAIN table : table[i] # None}
Unexpired(table) == {i \in Rows(table) : table[i].left > 0}

\* _prune
Pruned(table) ==
    [i \in DOMAIN table |-> IF i \in Unexpired(table) THEN table[i] ELSE None]

\* _require_session_capacity: revoked sessions count until they expire.
SessionCapacity == Cardinality(Unexpired(session)) < MaxSessions

\* The caps of issue, counted after the prune.
MayIssueFault(who) ==
    LET kept == {k \in Unexpired(session) : ~session[k].revoked}
    IN /\ Cardinality(kept) < MaxSessions
       /\ Cardinality({k \in kept : session[k].who = who}) < MaxPersonal

MayIssue(who) ==
    LET kept == Unexpired(session)
    IN /\ Cardinality(kept) < MaxSessions
       /\ Cardinality({k \in kept : session[k].who = who}) < MaxPersonal

\* authenticate: the session key k admits a request to a replica of policy g
\* and the registry still has its principal.
Authenticates(g, k) ==
    /\ RequireGeneration(g)
    /\ k \in Unexpired(session)
    /\ session[k].gen = g /\ ~session[k].revoked
    /\ session[k].who \in Members[g]

-----------------------------------------------------------------------------
(* Replicas and the operator                                               *)

\* initialize at the start of a replica: the first one sets the policy, and a
\* replica whose policy is not the active one does not come up.
Initialize(g) ==
    /\ policy.gen \in {None, g}
    /\ policy' = [policy EXCEPT !.gen = g]
    /\ up' = up \cup {g}
    /\ UNCHANGED <<login, start, signedIn, exchange, session, leaving>>

\* The command "activate": initialize without the check, then activate.
Activate(g) ==
    /\ policy.epoch < MaxEpoch
    /\ policy' = [gen |-> g, epoch |-> policy.epoch + 1]
    /\ login' = [t \in Logins |-> None]
    /\ session' = [k \in Exchanges |->
         IF k \in Unexpired(session) THEN [session[k] EXCEPT !.revoked = TRUE] ELSE None]
    /\ UNCHANGED <<up, start, signedIn, exchange, leaving>>

\* The command "revoke".
Revoke(k) ==
    /\ k \in Rows(session)
    /\ session' = [session EXCEPT ![k].revoked = TRUE]
    /\ UNCHANGED <<policy, up, login, start, signedIn, exchange, leaving>>

\* The sweeper's session-prune phase.
Prune ==
    /\ \E i \in Rows(login) : i \notin Unexpired(login)
       \/ \E k \in Rows(session) : k \notin Unexpired(session)
    /\ login' = Pruned(login)
    /\ session' = Pruned(session)
    /\ UNCHANGED <<policy, up, start, signedIn, exchange, leaving>>

-----------------------------------------------------------------------------
(* Start                                                                   *)

\* Conversations with the provider hold a place of _bounded.
Talking ==
    Cardinality({t \in Logins : start[t].pc \in {"created", "cancelling"}})
      + Cardinality({e \in Exchanges : exchange[e].pc = "asking"})

\* create_login, the first step inside the place.
CreateLogin(t, g) ==
    /\ start[t].pc = "new"
    /\ Talking < ProviderSlots
    /\ RequireGeneration(g)
    /\ SessionCapacity
    /\ Cardinality(Unexpired(login)) < MaxLogins
    /\ login' = [Pruned(login) EXCEPT ![t] =
                   [gen |-> g, epoch |-> policy.epoch, left |-> LoginTtl]]
    /\ session' = Pruned(session)
    /\ start' = [start EXCEPT ![t] = [pc |-> "created", gen |-> g]]
    /\ UNCHANGED <<policy, up, signedIn, exchange, leaving>>

\* The provider's metadata is accepted: the client gets id and URL.
AuthorizationUrl(t) ==
    /\ start[t].pc = "created"
    /\ start' = [start EXCEPT ![t].pc = "done"]
    /\ UNCHANGED <<policy, up, login, signedIn, exchange, session, leaving>>

\* The metadata is refused or unreachable, or the request is cancelled or
\* times out.
StartFails(t) ==
    /\ start[t].pc = "created"
    /\ start' = [start EXCEPT ![t].pc = "cancelling"]
    /\ UNCHANGED <<policy, up, login, signedIn, exchange, session, leaving>>

\* cancel_login, whose own failure leaves the row to the prune.
CancelLogin(t) ==
    /\ start[t].pc = "cancelling"
    /\ \/ login' = [login EXCEPT ![t] =
            IF t \in Rows(login) /\ login[t].gen = start[t].gen THEN None ELSE login[t]]
       \/ UNCHANGED login
    /\ start' = [start EXCEPT ![t].pc = "failed"]
    /\ UNCHANGED <<policy, up, signedIn, exchange, session, leaving>>

\* The person signs in at the provider.
SignIn(t, s) ==
    /\ start[t].pc = "done" /\ signedIn[t] = None
    /\ signedIn' = [signedIn EXCEPT ![t] = s]
    /\ UNCHANGED <<policy, up, login, start, exchange, session, leaving>>

-----------------------------------------------------------------------------
(* Exchange                                                                *)

\* claim_login with the right state and verifier; the row is spent.
ClaimLoginFault(e, g, t) ==
    /\ exchange[e].pc = "new" /\ start[t].pc = "done"
    /\ RequireGeneration(g) /\ SessionCapacity
    /\ t \in Unexpired(login)
    /\ login[t].gen = g /\ login[t].epoch = policy.epoch
    /\ exchange' = [exchange EXCEPT ![e] =
         [pc |-> "claimed", gen |-> g, id |-> t, epoch |-> policy.epoch, who |-> None]]
    /\ UNCHANGED <<policy, up, login, start, signedIn, session, leaving>>

ClaimLogin(e, g, t) ==
    /\ exchange[e].pc = "new" /\ start[t].pc = "done"
    /\ RequireGeneration(g) /\ SessionCapacity
    /\ t \in Unexpired(login)
    /\ login[t].gen = g /\ login[t].epoch = policy.epoch
    /\ login' = [login EXCEPT ![t] = None]
    /\ exchange' = [exchange EXCEPT ![e] =
         [pc |-> "claimed", gen |-> g, id |-> t, epoch |-> policy.epoch, who |-> None]]
    /\ UNCHANGED <<policy, up, start, signedIn, session, leaving>>

Ask(e) ==
    /\ exchange[e].pc = "claimed"
    /\ Talking < ProviderSlots
    /\ exchange' = [exchange EXCEPT ![e].pc = "asking"]
    /\ UNCHANGED <<policy, up, login, start, signedIn, session, leaving>>

\* The checks of identity on the token's claims: nonce names the login the
\* provider made the token for; ours and timely stand for issuer, audience and
\* authorized party, and for exp, iat and nbf.
Accepts(claims, id) == claims.nonce = id /\ claims.ours /\ claims.timely

\* The provider answers for a code of any login that was signed in to.
Identity(e) ==
    /\ exchange[e].pc = "asking"
    /\ \E t \in Logins : \E claims \in [nonce: {t}, ours: BOOLEAN, timely: BOOLEAN] :
         /\ signedIn[t] # None
         /\ exchange' = [exchange EXCEPT ![e] =
              IF Accepts(claims, @.id) /\ signedIn[t] \in Members[@.gen]
              THEN [@ EXCEPT !.pc = "known", !.who = signedIn[t]]
              ELSE [@ EXCEPT !.pc = "failed"]]
    /\ UNCHANGED <<policy, up, login, start, signedIn, session, leaving>>

\* issue, for the activation the login was claimed under.
IssueFault(e) ==
    LET x == exchange[e]
    IN /\ x.pc = "known"
       /\ RequireGeneration(x.gen) /\ MayIssue(x.who)
       /\ session' = [Pruned(session) EXCEPT ![e] =
            [gen |-> x.gen, epoch |-> x.epoch, who |-> x.who, left |-> SessionTtl, revoked |-> FALSE]]
       /\ login' = Pruned(login)
       /\ exchange' = [exchange EXCEPT ![e].pc = "issued"]
       /\ UNCHANGED <<policy, up, start, signedIn, leaving>>

Issue(e) ==
    LET x == exchange[e]
    IN /\ x.pc = "known"
       /\ RequireGeneration(x.gen) /\ policy.epoch = x.epoch /\ MayIssue(x.who)
       /\ session' = [Pruned(session) EXCEPT ![e] =
            [gen |-> x.gen, epoch |-> x.epoch, who |-> x.who, left |-> SessionTtl, revoked |-> FALSE]]
       /\ login' = Pruned(login)
       /\ exchange' = [exchange EXCEPT ![e].pc = "issued"]
       /\ UNCHANGED <<policy, up, start, signedIn, leaving>>

\* A place, the provider or a check of the store refuses, or the request is
\* cancelled: the login stays spent.
ExchangeFails(e) ==
    /\ exchange[e].pc \in {"claimed", "asking", "known"}
    /\ exchange' = [exchange EXCEPT ![e].pc = "failed"]
    /\ UNCHANGED <<policy, up, login, start, signedIn, session, leaving>>

-----------------------------------------------------------------------------
(* Sign-out and the clock                                                  *)

\* dispatch, sign-out: the session authenticates, ...
SignOut(g, k) ==
    /\ k \notin leaving /\ Authenticates(g, k)
    /\ leaving' = leaving \cup {k}
    /\ UNCHANGED <<policy, up, login, start, signedIn, exchange, session>>

\* ... and is revoked in a transaction of its own.
SignedOut(k) ==
    /\ k \in leaving
    /\ leaving' = leaving \ {k}
    /\ session' = [session EXCEPT ![k] = IF @ = None THEN @ ELSE [@ EXCEPT !.revoked = TRUE]]
    /\ UNCHANGED <<policy, up, login, start, signedIn, exchange>>

Older(table) ==
    [i \in DOMAIN table |->
       IF i \in Unexpired(table) THEN [table[i] EXCEPT !.left = @ - 1] ELSE table[i]]

Tick ==
    /\ login' = Older(login)
    /\ session' = Older(session)
    /\ UNCHANGED <<policy, up, start, signedIn, exchange, leaving>>

Next ==
    \/ \E g \in Generations : Initialize(g) \/ Activate(g)
    \/ Prune \/ Tick
    \/ \E t \in Logins :
         \/ \E g \in Generations : CreateLogin(t, g)
         \/ AuthorizationUrl(t) \/ StartFails(t) \/ CancelLogin(t)
         \/ \E s \in Subjects : SignIn(t, s)
    \/ \E e \in Exchanges :
         \/ \E g \in Generations, t \in Logins : ClaimLogin(e, g, t)
         \/ Ask(e) \/ Identity(e) \/ Issue(e) \/ ExchangeFails(e)
         \/ \E g \in Generations : SignOut(g, e)
         \/ SignedOut(e) \/ Revoke(e)

Spec == Init /\ [][Next]_vars

-----------------------------------------------------------------------------
(* Properties                                                              *)

\* A login is good for one session: of all exchanges that present it, on any
\* replica and at any time, at most one gets past claim_login.
LoginUsedOnce ==
    \A e, f \in Exchanges :
        (exchange[e].id # None /\ exchange[e].id = exchange[f].id) => e = f

\* A session that admits anyone was issued under the present activation of the
\* policy, to the person who signed in with the login it was exchanged for.
\* The session row carries no epoch: that a login claimed before an activation
\* cannot become a session after it, even when the same policy is activated
\* again, rests on the check in issue, and that codes cannot be swapped between
\* logins on the nonce.
SessionsCurrent ==
    \A g \in Generations, k \in Exchanges :
        Authenticates(g, k) =>
            /\ session[k].epoch = policy.epoch
            /\ session[k].who = signedIn[exchange[k].id]

\* The tables stay within their caps, and revoking or activating frees no
\* place: a person holds at most MaxPersonal sessions that have not expired,
\* revoked ones included.
CapsRespected ==
    /\ Cardinality(Rows(login)) <= MaxLogins
    /\ Cardinality(Unexpired(session)) <= MaxSessions
    /\ \A s \in Subjects :
         Cardinality({k \in Unexpired(session) : session[k].who = s}) <= MaxPersonal
=============================================================================
