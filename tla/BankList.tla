------------------------------ MODULE BankList ------------------------------
(* How hindsight.py collects the banks a principal may list from the pages  *)
(* of Hindsight's list.                                                     *)
EXTENDS Integers, Sequences, SequencesExt, FiniteSetsExt

CONSTANTS
    Banks,      \* the banks that may exist
    PageLimit,  \* BANK_LIST_PAGE_LIMIT
    MaxPages    \* MAX_BANK_LIST_PAGES

VARIABLES
    upstream,   \* Hindsight's list
    allowed,    \* the banks the principal may list
    offset,     \* upstream_offset
    visible,    \* what was collected
    pages,      \* pages read
    listing,    \* "busy", "answered" or "failed"
    steady      \* history: the list did not change meanwhile

listVars == <<upstream, allowed, offset, visible, pages, listing, steady>>

ListInit ==
    /\ upstream \in UNION {{s \in [1 .. n -> Banks] : IsInjective(s)} : n \in 0 .. 4}
    /\ allowed \in SUBSET Banks \ {{}}
    /\ offset = 0 /\ visible = <<>> /\ pages = 0
    /\ listing = "busy" /\ steady = TRUE

\* Hindsight answers with the next banks, perhaps fewer than it was asked for.
Page(count) == SubSeq(upstream, offset + 1, offset + count)
PageSizes ==
    LET left == Len(upstream) - offset
    IN  IF left <= 0 THEN {0} ELSE 1 .. Min({PageLimit, left})

EndsFault(count, seen) == count < PageLimit \/ seen >= Len(upstream)

\* No bank came, none is left, or all that may be seen were.
Ends(count, seen) ==
    \/ count = 0
    \/ seen >= Len(upstream)
    \/ Len(visible') = Cardinality(allowed)

ReadPage ==
    /\ listing = "busy" /\ pages < MaxPages
    /\ \E count \in PageSizes :
        /\ visible' = visible \o SelectSeq(Page(count), LAMBDA b : b \in allowed)
        /\ offset' = offset + count
        /\ pages' = pages + 1
        /\ listing' = IF Ends(count, offset') THEN "answered" ELSE "busy"
    /\ UNCHANGED <<upstream, allowed, steady>>

\* An invalid page, an error or the timeout around the whole list; or more
\* pages than the limit.
ListFails ==
    /\ listing = "busy"
    /\ listing' = "failed"
    /\ UNCHANGED <<upstream, allowed, offset, visible, pages, steady>>

\* A bank is created or deleted between two pages.
BanksChange ==
    /\ listing = "busy" /\ steady
    /\ \/ \E b \in Banks \ Range(upstream) : upstream' = <<b>> \o upstream
       \/ \E i \in DOMAIN upstream : upstream' = RemoveAt(upstream, i)
    /\ steady' = FALSE
    /\ UNCHANGED <<allowed, offset, visible, pages, listing>>

ListNext == ReadPage \/ ListFails \/ BanksChange

\* The answer holds only banks the principal may list, whatever happens between
\* pages; and all of them, once each and in Hindsight's order, if the list stood
\* still, however Hindsight cut it into pages.
BankListExact ==
    listing = "answered" =>
        /\ Range(visible) \subseteq allowed
        /\ steady => visible = SelectSeq(upstream, LAMBDA b : b \in allowed)
=============================================================================
