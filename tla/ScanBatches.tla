----------------------------- MODULE ScanBatches -----------------------------
(* Which fields of a JSON document the safety scan reads, and which of them *)
(* it reads together: security.py with scan_windows.py.                     *)
(*                                                                          *)
(* A document is the sequence of its fields in the order of _walk_strings:  *)
(* keys, values and numbers.  What a field says is left out, only that at   *)
(* most one of them is beyond a size limit.  A window is the set of fields  *)
(* that are joined and scanned as one text.                                 *)
EXTENDS Integers, Sequences, SequencesExt, FiniteSets, FiniteSetsExt

CONSTANTS
    Documents,      \* the sequences of field kinds to be scanned
    BatchFields,    \* FACADE_SCAN_BATCH_FIELDS
    MaxSkips,       \* MAX_SPLIT_BASE64_SKIPS, and max_skips of the windows
    MaxFields,      \* MAX_FACADE_SCAN_FIELDS, MAX_RETAIN_SCAN_FIELDS
    MaxScanFields,  \* MAX_SCAN_FIELDS
    MaxQueryFields  \* MAX_QUERY_SCAN_FIELDS, in pairs of a key and a value

\* A batch is never cut short by the field budget, and the budget of one call
\* has room for a batch and what is carried into it: 8192 = 256 * 32 and
\* 3 * 4 + 32 <= 128.
ASSUME ScanAssumption ==
    /\ BatchFields \in Nat \ {0} /\ MaxSkips \in Nat
    /\ MaxFields % BatchFields = 0
    /\ 3 * (MaxSkips + 2) + BatchFields <= MaxScanFields

VARIABLES
    mode,      \* which entry point: batched, direct or query
    fields,    \* the kinds of the fields
    flawed,    \* the field beyond a size limit, or 0
    next,      \* fields taken from the iterator
    carry,     \* fields repeated in the next batch
    split,     \* split_fields: what the base64 reassembly is to read
    seen,      \* fields scanned on their own
    windows,   \* fields scanned together
    findings,  \* the limits that were reported
    scanning

scanVars ==
    <<mode, fields, flawed, next, carry, split, seen, windows, findings, scanning>>

\* _walk_strings, as far as the order and kind of what it yields matters; a
\* query is a sequence of pairs.
ScanInit ==
    /\ mode \in {"batched", "direct", "query"}
    /\ fields \in Documents
    /\ flawed \in 0 .. Len(fields)
    /\ mode = "query" =>
        /\ Len(fields) % 2 = 0
        /\ \A i \in DOMAIN fields : fields[i] = IF i % 2 = 1 THEN "key" ELSE "value"
    /\ next = 0 /\ carry = <<>> /\ split = <<>>
    /\ seen = {} /\ windows = {} /\ findings = {}
    /\ scanning = TRUE

-----------------------------------------------------------------------------

Numbered(a, b) == [i \in 1 .. b - a + 1 |-> a + i - 1]

\* Numbers are scanned on their own and take no part in reassembly.
Text(s) == SelectSeq(s, LAMBDA i : fields[i] # "number")
Values(s) == SelectSeq(s, LAMBDA i : fields[i] = "value")
Keys(s) == SelectSeq(s, LAMBDA i : fields[i] = "key")

\* The direct scan ends at the first field beyond a limit.
Admitted(s) ==
    LET refused == {i \in DOMAIN s : i > MaxScanFields \/ s[i] = flawed}
    IN  IF refused = {} THEN s ELSE SubSeq(s, 1, Min(refused) - 1)

\* A rolling window may be cut to its last 512 bytes, but always holds the
\* junction of two neighbours.
RollingWindows(g) == {{g[i], g[i + 1]} : i \in 1 .. Len(g) - 1}

\* bounded_skip_fragments: two endpoints and what is left between them.
SkipWindows(g) ==
    UNION {UNION {{{g[i] : i \in (start .. end) \ omitted} :
                        omitted \in {o \in SUBSET (start + 1 .. end - 1) :
                                        Cardinality(o) \in 1 .. MaxSkips}} :
                    end \in start + 2 .. Min({Len(g), start + MaxSkips + 2})} :
            start \in 1 .. Len(g)}

WindowsOf(s) ==
    UNION {RollingWindows(g) \cup SkipWindows(g) : g \in {Values(s), Keys(s), Text(s)}}

\* The number of windows is limited, too; then the rest of them is skipped and
\* the limit reported.
ScanFields(s) ==
    LET read == Admitted(s) IN
    /\ seen' = seen \cup Range(read)
    /\ \/ /\ windows' = windows \cup WindowsOf(Text(read))
          /\ findings' = findings \cup IF read = s THEN {} ELSE {"size_limit"}
       \/ /\ UNCHANGED windows
          /\ findings' = findings \cup {"window_limit"}

CarryFault == MaxSkips + 1
Carry == MaxSkips + 2

\* The last fields of each group, in their order.
ReassemblyCarry(s) ==
    LET LastOf(g) == {g[i] : i \in {j \in DOMAIN g : j > Len(g) - Carry}}
        kept == LastOf(s) \cup LastOf(Values(s)) \cup LastOf(Keys(s))
    IN  SelectSeq(s, LAMBDA i : i \in kept)

\* One turn of the loop of _scan_batched_fields.  When the budget ends inside a
\* batch, what the batch holds is not scanned.
ScanBatch ==
    LET room == MaxFields - next
        left == Len(fields) - next
        count == Min({BatchFields, left})
        batch == Numbered(next + 1, next + count)
        canonical == Text(Admitted(carry \o batch))
    IN  /\ mode = "batched" /\ scanning
        /\ count > 0 /\ ~(room < BatchFields /\ left >= room)
        /\ ScanFields(carry \o batch)
        /\ next' = next + count
        /\ split' = split \o SubSeq(canonical, Len(carry) + 1, Len(canonical))
        /\ carry' = ReassemblyCarry(canonical)
        /\ UNCHANGED <<mode, fields, flawed, scanning>>

\* finish(): no field is left, or the budget is used up.
Finish ==
    LET room == MaxFields - next
        left == Len(fields) - next
    IN  /\ mode = "batched" /\ scanning
        /\ left = 0 \/ (room < BatchFields /\ left >= room)
        /\ findings' = findings \cup IF left > room THEN {"field_limit"} ELSE {}
        /\ scanning' = FALSE
        /\ UNCHANGED <<mode, fields, flawed, next, carry, split, seen, windows>>

\* _scan_fields on a whole document, as for recalled memories.
ScanDirect ==
    LET all == Numbered(1, Len(fields)) IN
    /\ mode = "direct" /\ scanning
    /\ ScanFields(all)
    /\ split' = Text(Admitted(all))
    /\ scanning' = FALSE
    /\ UNCHANGED <<mode, fields, flawed, next, carry>>

\* scan_query_values takes pairs, has limits of its own, and reads windows of
\* at least two fields.
ScanQuery ==
    LET pairs == Len(fields) \div 2
        refused == {k \in 1 .. pairs : k > MaxQueryFields \/ flawed \in {2 * k - 1, 2 * k}}
        read == IF refused = {} THEN pairs ELSE Min(refused) - 1
        s == Numbered(1, 2 * read)
    IN  /\ mode = "query" /\ scanning
        /\ seen' = 1 .. 2 * read
        /\ split' = s
        /\ \/ /\ windows' = WindowsOf(s)
              /\ findings' = IF refused = {} THEN {} ELSE {"size_limit"}
           \/ /\ findings' = {"window_limit"}
              /\ UNCHANGED windows
        /\ scanning' = FALSE
        /\ UNCHANGED <<mode, fields, flawed, next, carry>>

\* The deadline passes in the loop, within a scan or before the reassembly:
\* wherever it is noticed, the limit is reported and the scan ends.
TimeUp ==
    /\ scanning
    /\ findings' = findings \cup {"time_limit"}
    /\ scanning' = FALSE
    /\ UNCHANGED <<mode, fields, flawed, next, carry, split, seen, windows>>

ScanNext == ScanBatch \/ Finish \/ ScanDirect \/ ScanQuery \/ TimeUp

-----------------------------------------------------------------------------

\* Fields of a group that are neighbours, or that an omission of up to MaxSkips
\* fields makes neighbours within a stretch of MaxSkips + 3.
Near(g) ==
    {{g[i] : i \in near} : near \in {n \in SUBSET DOMAIN g :
        /\ Cardinality(n) >= 2
        /\ Max(n) - Min(n) <= MaxSkips + 2
        /\ LET omitted == Max(n) - Min(n) + 1 - Cardinality(n)
           IN  omitted \in 1 .. MaxSkips \/ (omitted = 0 /\ Cardinality(n) = 2)}}

\* When scan_facade_result, scan_retain_body, scan_recall_response or
\* scan_query_values reports no limit, every field was scanned on its own, every
\* text reached the base64 reassembly once and in order, and neighbouring values,
\* keys and texts were scanned together wherever the batches were cut.  And a
\* document within the limits is not refused for its number of fields, whatever
\* is carried from batch to batch.
FieldsScanned ==
    LET all == Numbered(1, Len(fields)) IN
    /\ ~scanning /\ findings = {} =>
        /\ seen = Range(all)
        /\ split = Text(all)
        /\ \A g \in {Values(all), Keys(all), Text(all)} : Near(g) \subseteq windows
    /\ mode = "batched" /\ flawed = 0 /\ Len(fields) <= MaxFields =>
        findings \cap {"size_limit", "field_limit"} = {}
=============================================================================
