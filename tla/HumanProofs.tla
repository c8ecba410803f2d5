---------------------------- MODULE HumanProofs ----------------------------
(* HumanAuth: logins are used once and sessions are current, for any number *)
(* of logins, exchanges, policies and persons and any limits.               *)
EXTENDS HumanAuth, TLAPS

LoginRow == [gen: Generations, epoch: Nat, left: Nat]
SessionRow == [gen: Generations \cup {None}, epoch: Nat, who: Subjects, left: Nat,
               revoked: BOOLEAN]
Exchanging == [pc: {"new", "claimed", "asking", "known", "issued", "failed"},
               gen: Generations \cup {None}, id: Logins \cup {None}, epoch: Nat,
               who: Subjects \cup {None}]
Starting == [pc: {"new", "created", "cancelling", "done", "failed"},
             gen: Generations \cup {None}]

Types ==
    /\ policy \in [gen: Generations \cup {None}, epoch: Nat]
    /\ login \in [Logins -> LoginRow \cup {None}]
    /\ start \in [Logins -> Starting]
    /\ signedIn \in [Logins -> Subjects \cup {None}]
    /\ exchange \in [Exchanges -> Exchanging]
    /\ session \in [Exchanges -> SessionRow \cup {None}]

\* A login that was claimed is gone from the table and is not started again.
Spent ==
    \A e \in Exchanges : exchange[e].id # None =>
        login[exchange[e].id] = None /\ start[exchange[e].id].pc = "done"

\* An exchange past the provider has a login and the person who signed in.
PersonKnown ==
    \A e \in Exchanges : exchange[e].pc \in {"known", "issued"} =>
        /\ exchange[e].id \in Logins /\ exchange[e].who \in Subjects
        /\ signedIn[exchange[e].id] = exchange[e].who

\* A session belongs to its exchange, and while it is not revoked to the
\* present activation.
SessionRowsCurrent ==
    \A k \in Exchanges : session[k] # None =>
        /\ exchange[k].pc = "issued" /\ session[k].who = exchange[k].who
        /\ session[k].revoked \/ session[k].epoch = policy.epoch

HumanInv == Types /\ Spent /\ LoginUsedOnce /\ PersonKnown /\ SessionRowsCurrent

-----------------------------------------------------------------------------
\* What prune and clock make of the two tables.
LEMMA TablesKept ==
    ASSUME Types
    PROVE  /\ Pruned(login) \in [Logins -> LoginRow \cup {None}]
           /\ Pruned(session) \in [Exchanges -> SessionRow \cup {None}]
           /\ \A t \in Logins : Pruned(login)[t] \in {login[t], None}
           /\ \A k \in Exchanges : Pruned(session)[k] \in {session[k], None}
  BY DEF Types, Pruned, Rows, Unexpired

LEMMA TablesOlder ==
    ASSUME Types
    PROVE  /\ Older(login) \in [Logins -> LoginRow \cup {None}]
           /\ Older(session) \in [Exchanges -> SessionRow \cup {None}]
           /\ \A t \in Logins : login[t] = None => Older(login)[t] = None
           /\ \A k \in Exchanges : session[k] = None => Older(session)[k] = None
           /\ \A k \in Exchanges : session[k] # None =>
                /\ Older(session)[k].who = session[k].who
                /\ Older(session)[k].epoch = session[k].epoch
                /\ Older(session)[k].revoked = session[k].revoked
<1>1. ASSUME NEW r \in LoginRow, r.left > 0
      PROVE  [r EXCEPT !.left = r.left - 1] \in LoginRow
  <2>1. r.left - 1 \in Nat
    BY <1>1 DEF LoginRow
  <2> QED
    BY <2>1, Zenon DEF LoginRow
<1>2. ASSUME NEW r \in SessionRow, r.left > 0
      PROVE  /\ [r EXCEPT !.left = r.left - 1] \in SessionRow
             /\ [r EXCEPT !.left = r.left - 1].who = r.who
             /\ [r EXCEPT !.left = r.left - 1].epoch = r.epoch
             /\ [r EXCEPT !.left = r.left - 1].revoked = r.revoked
  <2>1. r.left - 1 \in Nat
    BY <1>2 DEF SessionRow
  <2> QED
    BY <2>1, Zenon DEF SessionRow
<1>3. DOMAIN login = Logins /\ DOMAIN session = Exchanges
  BY DEF Types
<1>4. ASSUME NEW t \in Logins
      PROVE  /\ Older(login)[t] \in LoginRow \cup {None}
             /\ login[t] = None => Older(login)[t] = None
  BY <1>1, <1>3 DEF Types, Older, Rows, Unexpired
<1>5. ASSUME NEW k \in Exchanges
      PROVE  /\ Older(session)[k] \in SessionRow \cup {None}
             /\ session[k] = None => Older(session)[k] = None
             /\ session[k] # None =>
                  /\ Older(session)[k].who = session[k].who
                  /\ Older(session)[k].epoch = session[k].epoch
                  /\ Older(session)[k].revoked = session[k].revoked
  <2>1. CASE k \in Unexpired(session)
    <3>1. PICK r \in SessionRow : r = session[k] /\ r.left > 0
      BY <2>1 DEF Types, Rows, Unexpired
    <3>2. Older(session)[k] = [r EXCEPT !.left = r.left - 1]
      BY <1>3, <2>1, <3>1 DEF Older
    <3> QED
      BY <1>2, <2>1, <3>1, <3>2 DEF Rows, Unexpired
  <2>2. CASE k \notin Unexpired(session)
    BY <1>3, <2>2 DEF Types, Older
  <2> QED
    BY <2>1, <2>2
<1> QED
  BY <1>3, <1>4, <1>5 DEF Older

-----------------------------------------------------------------------------
\* The steps by what they touch.
PolicySteps == \E g \in Generations : Initialize(g) \/ Activate(g)
StartSteps ==
    \E t \in Logins :
        \/ \E g \in Generations : CreateLogin(t, g)
        \/ AuthorizationUrl(t) \/ StartFails(t) \/ CancelLogin(t)
        \/ \E s \in Subjects : SignIn(t, s)
ExchangeSteps ==
    \E e \in Exchanges :
        \/ \E g \in Generations, t \in Logins : ClaimLogin(e, g, t)
        \/ Ask(e) \/ Identity(e) \/ Issue(e) \/ ExchangeFails(e)
RevokeSteps ==
    \E k \in Exchanges :
        (\E g \in Generations : SignOut(g, k)) \/ SignedOut(k) \/ Revoke(k)

\* Logins, signings and exchanges stand as before, and of the sessions none is
\* new: the invariant is kept.
Quieter ==
    /\ UNCHANGED <<start, signedIn, exchange>>
    /\ policy' \in [gen: Generations \cup {None}, epoch: Nat]
    /\ login' \in [Logins -> LoginRow \cup {None}]
    /\ session' \in [Exchanges -> SessionRow \cup {None}]
    /\ \A t \in Logins : login[t] = None => login'[t] = None
    /\ \A k \in Exchanges : session'[k] # None =>
         /\ session[k] # None /\ session'[k].who = session[k].who
         /\ session'[k].revoked \/ session'[k].epoch = policy'.epoch

LEMMA QuieterKeeps == HumanInv /\ Quieter => HumanInv'
<1> SUFFICES ASSUME HumanInv, Quieter PROVE HumanInv'
  OBVIOUS
<1>1. Types'
  BY DEF HumanInv, Quieter, Types
<1>2. \A e \in Exchanges : exchange[e].id \in Logins \cup {None}
  BY DEF HumanInv, Types, Exchanging
<1>3. Spent'
  BY <1>2 DEF HumanInv, Quieter, Spent
<1>4. LoginUsedOnce' /\ PersonKnown'
  BY DEF HumanInv, Quieter, LoginUsedOnce, PersonKnown
<1>5. SessionRowsCurrent'
  BY DEF HumanInv, Quieter, SessionRowsCurrent
<1> QED
  BY <1>1, <1>3, <1>4, <1>5 DEF HumanInv

\* Revoking sets a mark on a session.
LEMMA RevokedRow ==
    ASSUME NEW r \in SessionRow
    PROVE  /\ [r EXCEPT !.revoked = TRUE] \in SessionRow
           /\ [r EXCEPT !.revoked = TRUE].who = r.who
           /\ [r EXCEPT !.revoked = TRUE].revoked
  BY Zenon DEF SessionRow

\* The policy changes: an activation revokes every session it leaves.
LEMMA PolicyStep == HumanInv /\ PolicySteps => HumanInv'
<1> SUFFICES ASSUME HumanInv, PolicySteps PROVE Quieter
  BY QuieterKeeps
<1>0. Types /\ SessionRowsCurrent
  BY DEF HumanInv
<1>1. PICK g \in Generations : Initialize(g) \/ Activate(g)
  BY DEF PolicySteps
<1>2. CASE Initialize(g)
  <2>1. policy' \in [gen: Generations \cup {None}, epoch: Nat] /\ policy'.epoch = policy.epoch
    BY <1>0, <1>2 DEF Initialize, Types
  <2> QED
    BY <1>0, <1>2, <2>1 DEF Initialize, Quieter, Types, SessionRowsCurrent
<1>3. CASE Activate(g)
  <2>1. policy' \in [gen: Generations \cup {None}, epoch: Nat]
    BY <1>0, <1>3 DEF Activate, Types
  <2>2. login' \in [Logins -> LoginRow \cup {None}] /\ \A t \in Logins : login'[t] = None
    BY <1>3 DEF Activate
  <2>3. ASSUME NEW k \in Exchanges
        PROVE  /\ session'[k] \in SessionRow \cup {None}
               /\ session'[k] # None =>
                    session[k] # None /\ session'[k].who = session[k].who /\ session'[k].revoked
    <3>1. CASE k \in Unexpired(session)
      <4>1. PICK r \in SessionRow : r = session[k] /\ r # None
        BY <1>0, <3>1 DEF Types, Rows, Unexpired
      <4>2. session'[k] = [r EXCEPT !.revoked = TRUE]
        BY <1>3, <3>1, <4>1 DEF Activate
      <4> QED
        BY <4>1, <4>2, RevokedRow
    <3>2. CASE k \notin Unexpired(session)
      BY <1>3, <3>2 DEF Activate
    <3> QED
      BY <3>1, <3>2
  <2>4. session' \in [Exchanges -> SessionRow \cup {None}]
    BY <1>3, <2>3 DEF Activate
  <2> QED
    BY <1>3, <2>1, <2>2, <2>3, <2>4 DEF Activate, Quieter
<1> QED
  BY <1>1, <1>2, <1>3

\* A session is revoked by its owner or by the operator.
LEMMA RevokeStep == HumanInv /\ RevokeSteps => HumanInv'
<1> SUFFICES ASSUME HumanInv, RevokeSteps PROVE Quieter
  BY QuieterKeeps
<1>0. Types /\ SessionRowsCurrent
  BY DEF HumanInv
<1>1. PICK k \in Exchanges : (\E g \in Generations : SignOut(g, k)) \/ SignedOut(k) \/ Revoke(k)
  BY DEF RevokeSteps
<1>2. UNCHANGED <<policy, login, start, signedIn, exchange>>
  BY <1>1 DEF SignOut, SignedOut, Revoke
<1>3. \/ UNCHANGED session
      \/ session[k] # None /\ session' = [session EXCEPT ![k] = [session[k] EXCEPT !.revoked = TRUE]]
  BY <1>0, <1>1 DEF SignOut, SignedOut, Revoke, Rows, Types
<1>4. CASE UNCHANGED session
  BY <1>0, <1>2, <1>4 DEF Quieter, Types, SessionRowsCurrent
<1>5. CASE session[k] # None /\ session' = [session EXCEPT ![k] = [session[k] EXCEPT !.revoked = TRUE]]
  <2>1. PICK r \in SessionRow : r = session[k]
    BY <1>0, <1>5 DEF Types
  <2>2. session' = [session EXCEPT ![k] = [r EXCEPT !.revoked = TRUE]]
    BY <1>5, <2>1
  <2>3. session' \in [Exchanges -> SessionRow \cup {None}]
    BY <1>0, <2>2, RevokedRow DEF Types
  <2>4. \A j \in Exchanges : session'[j] # None =>
          /\ session[j] # None /\ session'[j].who = session[j].who
          /\ session'[j].revoked \/ session'[j].epoch = policy'.epoch
    <3> TAKE j \in Exchanges
    <3>1. CASE j = k
      BY <1>0, <1>5, <2>1, <2>2, <3>1, RevokedRow DEF Types
    <3>2. CASE j # k
      BY <1>0, <1>2, <2>2, <3>2 DEF Types, SessionRowsCurrent
    <3> QED
      BY <3>1, <3>2
  <2> QED
    BY <1>0, <1>2, <2>3, <2>4 DEF Quieter, Types
<1> QED
  BY <1>3, <1>4, <1>5

\* Time passes, and the sweeper prunes.
LEMMA TimeStep == HumanInv /\ (Prune \/ Tick) => HumanInv'
<1> SUFFICES ASSUME HumanInv, Prune \/ Tick PROVE Quieter
  BY QuieterKeeps
<1>0. Types /\ SessionRowsCurrent
  BY DEF HumanInv
<1>1. CASE Prune
  BY <1>0, <1>1, TablesKept DEF Prune, Quieter, Types, SessionRowsCurrent
<1>2. CASE Tick
  BY <1>0, <1>2, TablesOlder DEF Tick, Quieter, Types, SessionRowsCurrent
<1> QED
  BY <1>1, <1>2

\* A login is started, fails or is signed in to: one that was claimed is not.
LEMMA StartStep == HumanInv /\ StartSteps => HumanInv'
<1> SUFFICES ASSUME HumanInv, StartSteps PROVE HumanInv'
  OBVIOUS
<1>0. Types /\ Spent /\ LoginUsedOnce /\ PersonKnown /\ SessionRowsCurrent
  BY DEF HumanInv
<1>1. PICK t \in Logins : \/ \E g \in Generations : CreateLogin(t, g)
                          \/ AuthorizationUrl(t) \/ StartFails(t) \/ CancelLogin(t)
                          \/ \E s \in Subjects : SignIn(t, s)
  BY DEF StartSteps
<1>2. policy' = policy /\ exchange' = exchange
  BY <1>1 DEF CreateLogin, AuthorizationUrl, StartFails, CancelLogin, SignIn
<1>3. \A e \in Exchanges : exchange[e].id \in Logins \cup {None}
  BY <1>0 DEF Types, Exchanging
<1>4. LoginUsedOnce'
  BY <1>0, <1>2 DEF LoginUsedOnce
<1>5. ASSUME NEW g \in Generations, CreateLogin(t, g) PROVE HumanInv'
  <2>1. Types'
    <3>1. [gen |-> g, epoch |-> policy.epoch, left |-> LoginTtl] \in LoginRow
      BY <1>0, HumanAssumption DEF Types, LoginRow
    <3>2. login' \in [Logins -> LoginRow \cup {None}]
      BY <1>0, <1>5, <3>1, TablesKept DEF CreateLogin
    <3>3. start' \in [Logins -> Starting]
      BY <1>0, <1>5 DEF CreateLogin, Types, Starting
    <3> QED
      BY <1>0, <1>5, <3>2, <3>3, TablesKept DEF CreateLogin, Types
  <2>2. Spent'
    <3> SUFFICES ASSUME NEW e \in Exchanges, exchange[e].id # None
                 PROVE  login'[exchange[e].id] = None /\ start'[exchange[e].id].pc = "done"
      BY <1>2 DEF Spent
    <3>1. exchange[e].id # t /\ exchange[e].id \in Logins
      BY <1>0, <1>3, <1>5 DEF Spent, CreateLogin
    <3> QED
      BY <1>0, <1>5, <3>1, TablesKept DEF CreateLogin, Types, Spent
  <2>3. PersonKnown'
    BY <1>0, <1>2, <1>5 DEF CreateLogin, PersonKnown
  <2>4. SessionRowsCurrent'
    BY <1>0, <1>2, <1>5, TablesKept DEF CreateLogin, SessionRowsCurrent
  <2> QED
    BY <1>4, <2>1, <2>2, <2>3, <2>4 DEF HumanInv
<1>6. CASE AuthorizationUrl(t) \/ StartFails(t)
  <2>1. Types'
    BY <1>0, <1>6 DEF AuthorizationUrl, StartFails, Types, Starting
  <2>2. Spent'
    BY <1>0, <1>3, <1>6 DEF AuthorizationUrl, StartFails, Types, Starting, Spent
  <2>3. PersonKnown' /\ SessionRowsCurrent'
    BY <1>0, <1>6 DEF AuthorizationUrl, StartFails, PersonKnown, SessionRowsCurrent
  <2> QED
    BY <1>4, <2>1, <2>2, <2>3 DEF HumanInv
<1>7. CASE CancelLogin(t)
  <2>1. login' \in [Logins -> LoginRow \cup {None}] /\ \A i \in Logins : login'[i] \in {login[i], None}
    BY <1>0, <1>7 DEF CancelLogin, Types
  <2>2. Types'
    BY <1>0, <1>7, <2>1 DEF CancelLogin, Types, Starting
  <2>3. Spent'
    BY <1>0, <1>3, <1>7, <2>1 DEF CancelLogin, Types, Starting, Spent
  <2>4. PersonKnown' /\ SessionRowsCurrent'
    BY <1>0, <1>7 DEF CancelLogin, PersonKnown, SessionRowsCurrent
  <2> QED
    BY <1>4, <2>2, <2>3, <2>4 DEF HumanInv
<1>8. ASSUME NEW s \in Subjects, SignIn(t, s) PROVE HumanInv'
  <2>1. Types'
    BY <1>0, <1>8 DEF SignIn, Types
  <2>2. Spent' /\ SessionRowsCurrent'
    BY <1>0, <1>8 DEF SignIn, Spent, SessionRowsCurrent
  <2>3. PersonKnown'
    BY <1>0, <1>8, HumanAssumption DEF SignIn, Types, PersonKnown
  <2> QED
    BY <1>4, <2>1, <2>2, <2>3 DEF HumanInv
<1> QED
  BY <1>1, <1>5, <1>6, <1>7, <1>8

\* An exchange goes on: it claims a login nobody has claimed, learns from the
\* provider who signed in with that login, and issues its session under the
\* activation it claimed the login in.
LEMMA ExchangeStep == HumanInv /\ ExchangeSteps => HumanInv'
<1> SUFFICES ASSUME HumanInv, ExchangeSteps PROVE HumanInv'
  OBVIOUS
<1>0. Types /\ Spent /\ LoginUsedOnce /\ PersonKnown /\ SessionRowsCurrent
  BY DEF HumanInv
<1>1. PICK e \in Exchanges : \/ \E g \in Generations, t \in Logins : ClaimLogin(e, g, t)
                             \/ Ask(e) \/ Identity(e) \/ Issue(e) \/ ExchangeFails(e)
  BY DEF ExchangeSteps
<1>2. PICK x \in Exchanging : x = exchange[e]
  BY <1>0 DEF Types
<1>3. ASSUME NEW g \in Generations, NEW t \in Logins, ClaimLogin(e, g, t) PROVE HumanInv'
  <2> DEFINE n == [pc |-> "claimed", gen |-> g, id |-> t, epoch |-> policy.epoch, who |-> None]
  <2>1. n \in Exchanging
    BY <1>0 DEF Types, Exchanging
  <2>2. /\ exchange' = [exchange EXCEPT ![e] = n] /\ login' = [login EXCEPT ![t] = None]
        /\ UNCHANGED <<policy, start, signedIn, session>>
        /\ login[t] # None /\ start[t].pc = "done" /\ exchange[e].pc = "new"
    BY <1>3 DEF ClaimLogin, Unexpired, Rows
  <2>3. Types'
    BY <1>0, <2>1, <2>2 DEF Types
  <2>4. n.id = t /\ n.pc = "claimed"
    OBVIOUS
  <2> HIDE DEF n
  <2>5. \A f \in Exchanges : exchange'[f] = (IF f = e THEN n ELSE exchange[f])
    BY <1>0, <2>2 DEF Types
  <2>6. \A f \in Exchanges : exchange[f].id # t /\ exchange[f].id \in Logins \cup {None}
    BY <1>0, <2>2, HumanAssumption DEF Spent, Types, Exchanging
  <2>7. Spent'
    BY <1>0, <2>2, <2>4, <2>5, <2>6 DEF Spent, Types
  <2>8. LoginUsedOnce'
    BY <1>0, <2>4, <2>5, <2>6 DEF LoginUsedOnce
  <2>9. PersonKnown' /\ SessionRowsCurrent'
    BY <1>0, <2>2, <2>4, <2>5 DEF PersonKnown, SessionRowsCurrent
  <2> QED
    BY <2>3, <2>7, <2>8, <2>9 DEF HumanInv
<1>4. CASE Ask(e) \/ Identity(e) \/ ExchangeFails(e)
  <2>1. UNCHANGED <<policy, login, start, signedIn, session>>
    BY <1>4 DEF Ask, Identity, ExchangeFails
  <2>2. x.pc \in {"claimed", "asking", "known"}
    BY <1>2, <1>4 DEF Ask, Identity, ExchangeFails
  <2>3. PICK n \in Exchanging : /\ exchange' = [exchange EXCEPT ![e] = n]
                                /\ n.id = x.id /\ n.pc # "issued"
                                /\ n.pc = "known" =>
                                     /\ n.id \in Logins /\ n.who \in Subjects
                                     /\ signedIn[n.id] = n.who
    <3>1. CASE Ask(e)
      <4> DEFINE m == [x EXCEPT !.pc = "asking"]
      <4>1. m \in Exchanging /\ m.id = x.id /\ m.pc = "asking"
        BY DEF Exchanging
      <4> QED
        BY <1>2, <3>1, <4>1 DEF Ask
    <3>2. CASE ExchangeFails(e)
      <4> DEFINE m == [x EXCEPT !.pc = "failed"]
      <4>1. m \in Exchanging /\ m.id = x.id /\ m.pc = "failed"
        BY DEF Exchanging
      <4> QED
        BY <1>2, <3>2, <4>1 DEF ExchangeFails
    <3>3. CASE Identity(e)
      <4>1. PICK t \in Logins : \E claims \in [nonce: {t}, ours: BOOLEAN, timely: BOOLEAN] :
              /\ signedIn[t] # None
              /\ exchange' = [exchange EXCEPT ![e] =
                   IF Accepts(claims, @.id) /\ signedIn[t] \in Members[@.gen]
                   THEN [@ EXCEPT !.pc = "known", !.who = signedIn[t]]
                   ELSE [@ EXCEPT !.pc = "failed"]]
        BY <3>3 DEF Identity
      <4> DEFINE m == [x EXCEPT !.pc = "known", !.who = signedIn[t]]
                 l == [x EXCEPT !.pc = "failed"]
      <4>2. signedIn[t] \in Subjects
        BY <1>0, <4>1 DEF Types
      <4>3. m \in Exchanging /\ m.id = x.id /\ m.pc = "known" /\ m.who = signedIn[t]
        BY <4>2, Zenon DEF Exchanging
      <4>4. l \in Exchanging /\ l.id = x.id /\ l.pc = "failed"
        BY DEF Exchanging
      <4>5. \/ exchange' = [exchange EXCEPT ![e] = m] /\ x.id = t
            \/ exchange' = [exchange EXCEPT ![e] = l]
        BY <1>2, <4>1 DEF Accepts
      <4> HIDE DEF m, l
      <4> QED
        BY <4>2, <4>3, <4>4, <4>5
    <3> QED
      BY <1>4, <3>1, <3>2, <3>3
  <2>4. \A f \in Exchanges : exchange'[f] = (IF f = e THEN n ELSE exchange[f])
    BY <1>0, <2>3 DEF Types
  <2>5. Types'
    BY <1>0, <2>1, <2>3 DEF Types
  <2>6. Spent' /\ LoginUsedOnce'
    BY <1>0, <1>2, <2>1, <2>3, <2>4 DEF Spent, LoginUsedOnce
  <2>7. PersonKnown'
    BY <1>0, <2>1, <2>3, <2>4 DEF PersonKnown
  <2>8. SessionRowsCurrent'
    BY <1>0, <1>2, <2>1, <2>2, <2>4 DEF SessionRowsCurrent
  <2> QED
    BY <2>5, <2>6, <2>7, <2>8 DEF HumanInv
<1>5. CASE Issue(e)
  <2> DEFINE n == [x EXCEPT !.pc = "issued"]
             r == [gen |-> x.gen, epoch |-> x.epoch, who |-> x.who, left |-> SessionTtl,
                   revoked |-> FALSE]
  <2>1. /\ x.pc = "known" /\ policy.epoch = x.epoch
        /\ exchange' = [exchange EXCEPT ![e] = n]
        /\ session' = [Pruned(session) EXCEPT ![e] = r] /\ login' = Pruned(login)
        /\ UNCHANGED <<policy, start, signedIn>>
    BY <1>2, <1>5 DEF Issue
  <2>2. x.who \in Subjects
    BY <1>0, <1>2, <2>1 DEF PersonKnown
  <2>3. n \in Exchanging /\ n.id = x.id /\ n.who = x.who /\ n.pc = "issued"
    BY Zenon DEF Exchanging
  <2>4. r.who = x.who /\ r.epoch = x.epoch
    OBVIOUS
  <2>5. r \in SessionRow
    BY <2>2, HumanAssumption DEF Exchanging, SessionRow
  <2> HIDE DEF n, r
  <2>6. \A f \in Exchanges : exchange'[f] = (IF f = e THEN n ELSE exchange[f])
    BY <1>0, <2>1 DEF Types
  <2>7. Types'
    BY <1>0, <2>1, <2>3, <2>5, TablesKept DEF Types
  <2>8. Spent' /\ LoginUsedOnce'
    BY <1>0, <1>2, <2>1, <2>3, <2>6, TablesKept DEF Types, Exchanging, Spent, LoginUsedOnce
  <2>9. PersonKnown'
    BY <1>0, <1>2, <2>1, <2>3, <2>6 DEF PersonKnown
  <2>10. SessionRowsCurrent'
    BY <1>0, <1>2, <2>1, <2>3, <2>4, <2>6, TablesKept DEF SessionRowsCurrent
  <2> QED
    BY <2>7, <2>8, <2>9, <2>10 DEF HumanInv
<1> QED
  BY <1>1, <1>3, <1>4, <1>5

-----------------------------------------------------------------------------
\* Every step keeps the invariant.
LEMMA HumanStep == HumanInv /\ [Next]_vars => HumanInv'
<1> SUFFICES ASSUME HumanInv, [Next]_vars PROVE HumanInv'
  OBVIOUS
<1>1. CASE UNCHANGED vars
  BY <1>1 DEF vars, HumanInv, Types, Spent, LoginUsedOnce, PersonKnown, SessionRowsCurrent
<1>2. CASE Next
  <2>1. PolicySteps \/ StartSteps \/ ExchangeSteps \/ RevokeSteps \/ Prune \/ Tick
    BY <1>2, Zenon DEF Next, PolicySteps, StartSteps, ExchangeSteps, RevokeSteps
  <2> QED
    BY <2>1, PolicyStep, StartStep, ExchangeStep, RevokeStep, TimeStep
<1> QED
  BY <1>1, <1>2

\* The invariant holds of empty tables.
LEMMA HumanInit == Init => HumanInv
<1> SUFFICES ASSUME Init PROVE HumanInv
  OBVIOUS
<1>1. Types
  BY DEF Init, Types, NoExchange, Exchanging, Starting
<1> QED
  BY <1>1, HumanAssumption DEF Init, HumanInv, Spent, LoginUsedOnce, PersonKnown,
     SessionRowsCurrent, NoExchange

\* claim_login lets one exchange through for a login, whatever the number of
\* exchanges that present it and of replicas that serve them.
THEOREM LoginsUsedOnce == Spec => []LoginUsedOnce
<1>1. HumanInv => LoginUsedOnce
  BY DEF HumanInv
<1> QED
  BY <1>1, HumanInit, HumanStep, PTL DEF Spec

\* A session that authenticate admits was issued under the present activation
\* of the policy and belongs to the person who signed in, after any number of
\* activations, also when a former policy is activated again.
THEOREM SessionsStayCurrent == Spec => []SessionsCurrent
<1>1. HumanInv => SessionsCurrent
  <2> SUFFICES ASSUME HumanInv, NEW g \in Generations, NEW k \in Exchanges, Authenticates(g, k)
               PROVE  /\ session[k].epoch = policy.epoch
                      /\ session[k].who = signedIn[exchange[k].id]
    BY DEF SessionsCurrent
  <2>1. session[k] # None /\ ~session[k].revoked
    BY DEF Authenticates, Unexpired, Rows
  <2> QED
    BY <2>1 DEF HumanInv, SessionRowsCurrent, PersonKnown
<1> QED
  BY <1>1, HumanInit, HumanStep, PTL DEF Spec
=============================================================================
