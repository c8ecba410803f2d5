---------------------------- MODULE RecallPolicy ----------------------------
(***************************************************************************)
(* RouterPolicy (policy.py).  A recall asks the banks, reads the review    *)
(* states of all recalled memories once, and then judges result by result: *)
(* each is scanned, and what is not allowed is quarantined and withheld.   *)
(* Reviewers and other requests move the states meanwhile; so does the     *)
(* request itself when one memory occurs twice in what it recalled.        *)
(*                                                                         *)
(* A content stands for a whole recalled result; its digest covers only id *)
(* and text, so two contents may share one.                                *)
(***************************************************************************)
EXTENDS Integers, FiniteSets, Sequences, SequencesExt

CONSTANTS
    Requests,
    Banks,          \* the read banks of the writer, in order
    Replies,        \* Replies[b]: sequences of <<memory, content>> bank b may answer
    Memories,       \* recalled memories, their bank included
    Contents,
    Digest,         \* Digest[c]: recalled_content_digest
    Unsafe,         \* contents the scan rejects
    Exposed         \* contents it rejects outside id and text

ASSUME RecallAssumption == Exposed \subseteq Unsafe /\ Unsafe \subseteq Contents

NoItem == [status |-> "none"]
Digests == {Digest[c] : c \in Contents}
\* Pending and postponed items are alike here, and so are those in review.
Reviewable == {"pending"}
Statuses == Reviewable \cup {"in_review", "allowed", "blocked"}
Items == {NoItem} \cup [status: Statuses, digest: Digests]

VARIABLES
    item,       \* memory -> its quarantine item
    recall,     \* recall request -> [pc, todo, states, dirty, results, exempt, failed]
    may         \* history: request -> memory -> contents some review state justified
                \* since the request read the states

vars == <<item, recall, may>>

NoRecall == [pc |-> "idle", todo |-> <<>>, states |-> <<>>, dirty |-> {},
             results |-> <<>>, exempt |-> {}, failed |-> 0]

Init ==
    /\ item \in [Memories -> Items]
    /\ recall = [r \in Requests |-> NoRecall]
    /\ may = [r \in Requests |-> <<>>]

-----------------------------------------------------------------------------
(* Recall                                                                  *)

Approved(s, c) == s.status = "allowed" /\ s.digest = Digest[c]

\* The contents that a review state justifies returning.
Justified(s) ==
    {c \in Contents : \/ s.status = "none" /\ c \notin Unsafe
                      \/ Approved(s, c) /\ c \notin Exposed}

\* The history of a request that another step shows an item s of m.
Shown(r, m, s) ==
    IF m \in DOMAIN may[r] THEN [may[r] EXCEPT ![m] = @ \cup Justified(s)] ELSE may[r]

\* The end of a request: of what it carried the answer is left.
Ends(r, pc, results) ==
    /\ recall' = [recall EXCEPT ![r] =
         [NoRecall EXCEPT !.pc = pc, !.results = results, !.failed = recall[r].failed]]
    /\ may' = [may EXCEPT ![r] = <<>>]

\* recall for an unknown writer, or a query the scan rejects: it is quarantined,
\* or that fails and is logged, and the answer is empty.
RefuseQuery(r) ==
    /\ recall[r].pc = "idle"
    /\ Ends(r, "answered", <<>>)
    /\ UNCHANGED item

\* _recall_from_banks: a bank that cannot be reached is counted and skipped.
\* The results are judged in the order of the banks.
AskBanks(r) ==
    /\ recall[r].pc = "idle"
    /\ \E up \in SUBSET DOMAIN Banks :
         \E reply \in [DOMAIN Banks -> UNION {Replies[Banks[i]] : i \in DOMAIN Banks}] :
           /\ \A i \in DOMAIN Banks :
                IF i \in up THEN reply[i] \in Replies[Banks[i]] ELSE reply[i] = <<>>
           /\ recall' = [recall EXCEPT ![r] =
                [NoRecall EXCEPT !.pc = "asked", !.todo = FlattenSeq(reply),
                                 !.failed = Len(Banks) - Cardinality(up)]]
    /\ UNCHANGED <<item, may>>

\* find_memory_review_states, for all results in one read.
Snapshot(r) ==
    LET recalled == {x[1] : x \in ToSet(recall[r].todo)}
    IN /\ recall[r].pc = "asked"
       /\ recall' = [recall EXCEPT ![r].pc = "next", ![r].states = Restrict(item, recalled)]
       /\ may' = [may EXCEPT ![r] = [m \in recalled |-> Justified(item[m])]]
       /\ UNCHANGED item

\* _refresh_dirty_review_state
Refresh(r) ==
    /\ recall[r].pc = "next" /\ recall[r].todo # <<>>
    /\ LET m == Head(recall[r].todo)[1]
       IN /\ m \in recall[r].dirty
          /\ recall' = [recall EXCEPT ![r].states[m] = item[m],
                                      ![r].dirty = @ \ {m}]
    /\ UNCHANGED <<item, may>>

\* _allow_recalled and _allow_reviewed_recalled: what is done with content c of
\* a memory in state s.
Verdict(s, c) ==
    CASE s.status \in {"blocked", "in_review"} -> "withhold"
      [] s.status = "allowed" ->
           IF s.digest = Digest[c] /\ c \notin Exposed THEN "allow" ELSE "quarantine"
      [] s.status \in Reviewable ->
           IF s.digest = Digest[c] THEN "withhold" ELSE "quarantine"
      [] s.status = "none" ->
           IF c \notin Unsafe THEN "allow" ELSE "quarantine"

\* The position a result takes when it is reviewed.
PositionFault(x) == Len(x.results)
Position(x) == Len(x.results) + 1

\* What the judgement of the next result makes of a request: _quarantine_recalled
\* marks the memory before it stores.
AfterFault(x, m, c) ==
    CASE Verdict(x.states[m], c) = "allow" ->
           [x EXCEPT !.todo = Tail(@), !.results = Append(@, <<m, c>>),
                     !.exempt = IF Approved(x.states[m], c) THEN @ \cup {Position(x)} ELSE @]
      [] Verdict(x.states[m], c) = "withhold" -> [x EXCEPT !.todo = Tail(@)]
      [] Verdict(x.states[m], c) = "quarantine" -> [x EXCEPT !.pc = "put"]

After(x, m, c) ==
    CASE Verdict(x.states[m], c) = "allow" ->
           [x EXCEPT !.todo = Tail(@), !.results = Append(@, <<m, c>>),
                     !.exempt = IF Approved(x.states[m], c) THEN @ \cup {Position(x)} ELSE @]
      [] Verdict(x.states[m], c) = "withhold" -> [x EXCEPT !.todo = Tail(@)]
      [] Verdict(x.states[m], c) = "quarantine" ->
           [x EXCEPT !.pc = "put", !.dirty = @ \cup {m}]

Judge(r) ==
    /\ recall[r].pc = "next" /\ recall[r].todo # <<>>
    /\ LET m == Head(recall[r].todo)[1]
           c == Head(recall[r].todo)[2]
       IN /\ m \notin recall[r].dirty
          /\ recall' = [recall EXCEPT ![r] = After(recall[r], m, c)]
    /\ UNCHANGED <<item, may>>

\* What a put of digest d makes of an item (Admission has the whole of it): an
\* item in review refuses.
Requarantined(s, d) ==
    IF s.status \in {"none", "allowed"} THEN [status |-> "pending", digest |-> d]
    ELSE [s EXCEPT !.digest = d]

\* A change of an item is seen by every request that has read the items.
SetItem(m, s) ==
    /\ item' = [item EXCEPT ![m] = s]
    /\ may' = [r \in Requests |-> Shown(r, m, s)]

\* The put of the request itself.  From here on the request has to go by the
\* item as it is now or later.
Put(r) ==
    /\ recall[r].pc = "put"
    /\ LET m == Head(recall[r].todo)[1]
           d == Digest[Head(recall[r].todo)[2]]
       IN /\ item[m].status # "in_review"
          /\ item' = [item EXCEPT ![m] = Requarantined(@, d)]
          /\ may' = [q \in Requests |->
               IF q = r THEN [may[q] EXCEPT ![m] = Justified(item'[m])]
               ELSE Shown(q, m, item'[m])]
    /\ recall' = [recall EXCEPT ![r].pc = "next", ![r].todo = Tail(@)]

\* The put is refused for a reason _quarantine_unavailable knows: capacity, rate,
\* conflict.  That is logged, and the result withheld all the same.
PutUnavailable(r) ==
    /\ recall[r].pc \in {"put", "placeholder"}
    /\ recall' = [recall EXCEPT ![r].pc = "next", ![r].todo = Tail(@)]
    /\ LET m == Head(recall[r].todo)[1] IN may' = [may EXCEPT ![r][m] = Justified(item[m])]
    /\ UNCHANGED item

\* The item is too large or cannot be encoded: a security event takes its place.
PutTooLarge(r) ==
    /\ recall[r].pc = "put"
    /\ recall' = [recall EXCEPT ![r].pc = "placeholder"]
    /\ UNCHANGED <<item, may>>

PutPlaceholder(r) ==
    /\ recall[r].pc = "placeholder"
    /\ recall' = [recall EXCEPT ![r].pc = "next", ![r].todo = Tail(@)]
    /\ LET m == Head(recall[r].todo)[1] IN may' = [may EXCEPT ![r][m] = Justified(item[m])]
    /\ UNCHANGED item

\* All results are judged; the other fields of the responses are scanned entry
\* by entry and merged.
Merge(r) ==
    /\ recall[r].pc = "next" /\ recall[r].todo = <<>>
    /\ recall' = [recall EXCEPT ![r] = [@ EXCEPT !.pc = "merged", !.states = <<>>, !.dirty = {}]]
    /\ may' = [may EXCEPT ![r] = <<>>]
    /\ UNCHANGED item

\* _allow_recall_aggregate: the whole answer is scanned, the texts of reviewed
\* positions excepted.  A rejected answer goes out empty.
AggregatePasses(x) ==
    \A i \in DOMAIN x.results : x.results[i][2] \in Unsafe => i \in x.exempt

Aggregate(r) ==
    /\ recall[r].pc = "merged"
    /\ \E pass \in BOOLEAN :
         /\ pass => AggregatePasses(recall[r])
         /\ Ends(r, "answered", IF pass THEN recall[r].results ELSE <<>>)
    /\ UNCHANGED item

\* A scan is unavailable, a bank or the database raises, the client leaves.
RecallFails(r) ==
    /\ recall[r].pc \in {"asked", "next", "put", "placeholder", "merged"}
    /\ Ends(r, "failed", <<>>)
    /\ UNCHANGED item

-----------------------------------------------------------------------------
(* Reviewers, the sweeper and other requests                               *)

ReviewItem(m) ==
    /\ \/ item[m].status \in Reviewable /\ SetItem(m, [item[m] EXCEPT !.status = "in_review"])
       \/ item[m].status = "in_review"
            /\ \E s \in Statuses \ {"in_review"} :
                 SetItem(m, [item[m] EXCEPT !.status = s])
       \/ item[m].status \in Reviewable /\ SetItem(m, NoItem)
       \/ item[m].status # "in_review"
            /\ \E d \in Digests : SetItem(m, Requarantined(item[m], d))
    /\ UNCHANGED recall

RecallStep(r) ==
    \/ RefuseQuery(r) \/ AskBanks(r) \/ Snapshot(r) \/ Refresh(r) \/ Judge(r)
    \/ Put(r) \/ PutUnavailable(r) \/ PutTooLarge(r) \/ PutPlaceholder(r)
    \/ Merge(r) \/ Aggregate(r) \/ RecallFails(r)

Next ==
    \/ \E r \in Requests : RecallStep(r)
    \/ \E m \in Memories : ReviewItem(m)

Spec == Init /\ [][Next]_vars

-----------------------------------------------------------------------------
(* Properties                                                              *)

\* A result is returned only on a review state the memory had after the request
\* took its snapshot and after the request's own last attempt to quarantine the
\* memory: the memory was unknown and the content scans safe, or exactly this
\* text was approved and the rest scans safe.  So a memory that occurs twice is
\* not returned from the state before its first occurrence was quarantined.
RecallFollowsReview ==
    [][\A r \in Requests :
         LET old == recall[r].results
             new == recall'[r].results
         IN Len(new) > Len(old) =>
              Last(new)[2] \in may[r][Last(new)[1]]]_vars

\* The positions that the last scan skips are those of approved texts: no
\* other result is let through with them, and no approved one makes the scan
\* reject the answer.
ExemptionsEarned ==
    \A r \in Requests :
        /\ recall[r].exempt \subseteq DOMAIN recall[r].results
        /\ recall[r].pc = "merged" => AggregatePasses(recall[r])
=============================================================================
