----------------------------- MODULE WritePath -----------------------------
(* A request that writes to Hindsight: retain (policy.py) and the writing   *)
(* routes of the facade (openclaw.py).  The write cannot be taken back, and *)
(* the answer is scanned after it.                                          *)
EXTENDS Integers

CONSTANT Writers

VARIABLES
    write,  \* write[w]: where the request stands, and what became of it
    told    \* told[w]: what its client was told

writeVars == <<write, told>>

WriteInit ==
    /\ write \in [Writers -> [pc : {"new"}, kind : {"retain", "facade"},
                              by : {"stranger", "writer", "principal"}, queued : {FALSE},
                              sent : {FALSE}, written : {0}]]
    /\ told = [w \in Writers |-> "nothing"]

\* The request goes on to pc, or ends with an answer.
Goes(w, pc) == write' = [write EXCEPT ![w].pc = pc] /\ UNCHANGED told
Tell(w, answer) ==
    /\ write' = [write EXCEPT ![w].pc = "done"]
    /\ told' = [told EXCEPT ![w] = answer]

\* A writer without an entry in the registry: its retain is queued without a
\* scan, its facade request audited and refused.
UnknownWriter(w) ==
    /\ write[w].pc = "new" /\ write[w].by = "stranger"
    /\ IF write[w].kind = "retain" THEN Goes(w, "keep") ELSE Tell(w, "refused")

\* _quarantine_retain keeps the whole request for a reviewer, or fails, perhaps
\* after the store committed.
QuarantineRetain(w) ==
    /\ write[w].pc = "keep"
    /\ \/ write' = [write EXCEPT ![w].pc = "kept", ![w].queued = TRUE] /\ UNCHANGED told
       \/ Tell(w, "refused")
Queued(w) == write[w].pc = "kept" /\ (Tell(w, "queued") \/ Tell(w, "refused"))

\* The bounds of the body and the budgets of the writer and of all writers.
Consume(w) ==
    /\ write[w].pc = "new" /\ write[w].by # "stranger"
    /\ Goes(w, "scan") \/ Tell(w, "refused")

\* scan_request.  Unsafe content of a facade request is audited by its digest
\* and refused; an unavailable scanner refuses both.
ScanRequest(w) ==
    /\ write[w].pc = "scan"
    /\ \/ Tell(w, "refused")
       \/ write[w].kind = "retain" /\ Goes(w, "keep")
       \/ /\ write' = [write EXCEPT ![w].pc = "sent", ![w].sent = TRUE]
          /\ UNCHANGED told

\* Hindsight carries the write out, perhaps after the router gave up.
HindsightWrites(w) ==
    /\ write[w].sent /\ write[w].written = 0
    /\ write' = [write EXCEPT ![w].written = 1]
    /\ UNCHANGED told

\* _request: a 4xx answer means that nothing was written.  For anything else that
\* is no valid answer in time, the client of a retain hears that the write may
\* have completed; the facade does not say so.
HindsightFails(w) ==
    /\ write[w].pc = "sent"
    /\ \/ /\ write[w].written = 0
          /\ write' = [write EXCEPT ![w].pc = "done", ![w].sent = FALSE]
          /\ told' = [told EXCEPT ![w] = "rejected"]
       \/ Tell(w, IF write[w].kind = "retain" THEN "verify" ELSE "failed")

HindsightAnswers(w) ==
    /\ write[w].pc = "sent" /\ write[w].written = 1
    /\ Goes(w, "answered")

ScanAnswerFault(w) ==
    /\ write[w].pc = "answered"
    /\ \/ Tell(w, "stored")
       \/ write[w].kind = "retain" /\ Goes(w, "keep")
       \/ write[w].kind = "facade" /\ Tell(w, "failed")

\* scan_facade_response and the contract of the answer.  Nothing is queued and no
\* retry is advised any more; an answer that could not be scanned is reported as
\* an uncertain write.
ScanAnswer(w) ==
    /\ write[w].pc = "answered"
    /\ \/ Tell(w, "stored")
       \/ Tell(w, "verify")
       \/ write[w].kind = "facade" /\ Tell(w, "failed")

\* The concurrency lease of a principal is lost: the operation is cancelled
\* wherever it is, and the client told to come back.
LoseLease(w) ==
    /\ write[w].by = "principal" /\ write[w].pc # "done"
    /\ Tell(w, "unavailable")

WriteNext ==
    \E w \in Writers :
        \/ UnknownWriter(w) \/ QuarantineRetain(w) \/ Queued(w)
        \/ Consume(w) \/ ScanRequest(w) \/ HindsightWrites(w)
        \/ HindsightFails(w) \/ HindsightAnswers(w) \/ ScanAnswer(w) \/ LoseLease(w)

\* A write is queued for review or sent to Hindsight, never both, so that an
\* approval cannot repeat it.  A client that hears "queued", "refused" or
\* "rejected" may send it again: it was not and will not be written.  One that
\* hears "stored" has it written, and one whose retain may have been written is
\* told to verify, unless its lease was lost.
WritesToldTruthfully ==
    \A w \in Writers :
        /\ ~(write[w].queued /\ write[w].sent)
        /\ told[w] \in {"queued", "refused", "rejected"} =>
              ~write[w].sent /\ write[w].written = 0
        /\ told[w] = "stored" => write[w].written = 1
        /\ write[w].kind = "retain" /\ write[w].sent =>
              told[w] \in {"nothing", "stored", "verify", "unavailable"}
=============================================================================
