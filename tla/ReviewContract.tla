--------------------------- MODULE ReviewContract ---------------------------
(***************************************************************************)
(* What the review workflow promises about the effect an item's review has *)
(* on Hindsight, with requests, clocks and claim tokens left out.          *)
(*                                                                         *)
(* An item is open, is being decided inside the router, or is uncertain: a *)
(* call to Hindsight has been authorised for it.  An uncertain item opens  *)
(* again only when no effect can have happened, and its review ends only   *)
(* when the effect did happen - unless the operator's reconcile verdict,   *)
(* the one fact the router cannot check, was wrong.                        *)
(***************************************************************************)
CONSTANT Items

VARIABLES
    phase,       \* where the review of the item stands
    risk,        \* an effect on the item has happened or may still happen
    misreported  \* the operator gave a wrong verdict on the item

vars == <<phase, risk, misreported>>

Phases == {"absent", "open", "deciding", "uncertain", "landed", "allowed", "blocked"}

Init ==
    /\ phase = [q \in Items |-> "absent"]
    /\ risk = [q \in Items |-> FALSE]
    /\ misreported = [q \in Items |-> FALSE]

\* The item moves from phase `from` to phase `to`.
Moves(q, from, to) == phase[q] = from /\ phase'[q] = to

\* After a wrong verdict the risk is whatever stray calls make of it.
RiskKept(q) == misreported[q] \/ risk'[q] = risk[q]
Safe(q) == misreported[q] \/ ~risk[q]
WordKept(q) == misreported'[q] = misreported[q]
Verdict(q) == misreported[q] => misreported'[q]

Admit(q) == Moves(q, "absent", "open") /\ ~risk'[q] /\ ~misreported'[q]

\* An item leaves the queue only when no call for it can take effect.
Discard(q) ==
    /\ Moves(q, "open", "absent") \/ Moves(q, "deciding", "absent")
    /\ Safe(q) /\ WordKept(q)

\* The router's own decisions never touch Hindsight.
Decide(q) ==
    /\ \/ Moves(q, "open", "deciding") \/ Moves(q, "deciding", "open")
       \/ Moves(q, "deciding", "allowed") \/ Moves(q, "allowed", "open")
    /\ RiskKept(q) /\ WordKept(q)

\* A call is authorised only for an item no earlier call is outstanding for;
\* it may take over from a decision that was given up.
Authorise(q) ==
    /\ Moves(q, "open", "uncertain") \/ Moves(q, "deciding", "uncertain")
    /\ Safe(q) /\ risk'[q] /\ WordKept(q)

\* Nothing moves; an authorised call may turn out never to take effect.
Settle(q) ==
    /\ phase'[q] = phase[q]
    /\ RiskKept(q) \/ (phase[q] = "uncertain" /\ ~risk'[q])
    /\ WordKept(q)

\* A definite failure, or the verdict that nothing was applied.
Release(q) ==
    /\ Moves(q, "uncertain", "open")
    /\ ~risk[q] \/ misreported'[q]
    /\ RiskKept(q) \/ misreported'[q]
    /\ Verdict(q)

\* A successful answer, or the verdict that the call was applied.
Land(q) ==
    /\ Moves(q, "uncertain", "landed")
    /\ risk[q] \/ misreported'[q]
    /\ RiskKept(q) \/ misreported'[q]
    /\ Verdict(q)

Conclude(q) ==
    \/ Moves(q, "landed", "absent") /\ WordKept(q)
    \/ Moves(q, "landed", "blocked") /\ RiskKept(q) /\ WordKept(q)

\* One transaction of the router may move several items (recovery, cleanup).
Next ==
    \A q \in Items :
        \/ Admit(q) \/ Discard(q) \/ Decide(q) \/ Authorise(q)
        \/ Settle(q) \/ Release(q) \/ Land(q) \/ Conclude(q)

Spec == Init /\ [][Next]_vars

-----------------------------------------------------------------------------
\* The point of the promise: an item that can be reviewed again, or that was
\* allowed, has no effect outstanding, and a review that ended with an effect
\* ended with one that happened - as long as no verdict was wrong.
NoReplay ==
    \A q \in Items :
        ~misreported[q] =>
            /\ risk[q] => phase[q] \in {"uncertain", "landed", "blocked"}
            /\ phase[q] \in {"landed", "blocked"} => risk[q]
=============================================================================
