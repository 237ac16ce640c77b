---------------------------- MODULE AuditPaging -----------------------------
(***************************************************************************)
(* GET /v1/audit (internal/api): a client reads the audit log page by      *)
(* page, by sequence number, and later comes back for what was appended    *)
(* since, while the service appends, stops and starts.                     *)
(*                                                                         *)
(* A page that does not reach the client changes nothing: the client asks  *)
(* again with the cursor it has.                                           *)
(***************************************************************************)
EXTENDS AuditLog

CONSTANTS
    Limits,   \* the page sizes a client asks for, after the cap
    Asked     \* the hashes of the records of the event the client asks for

ASSUME PagingAssumption == Limits \subseteq Nat \ {0} /\ Asked \subseteq Nat

VARIABLE
    page      \* the client: is it turning pages, its cursor, the records it was
              \* shown, those that were trusted when it began

NoPage == [at |-> "done", since |-> 0, got |-> << >>, due |-> {}]

Page == [at: {"turning", "done"}, since: Nat, got: Seq(Record), due: SUBSET Nat]

Seen == {page.got[i].RecordHash : i \in DOMAIN page.got}

\* The client begins with the cursor after the last record it has.
PageBegin ==
    /\ page.at = "done"
    /\ page' = [page EXCEPT !.at = "turning",
                            !.since = HeadSeq(page.got),
                            !.due = trusted \cap Asked]
    /\ UNCHANGED vars

\* Fault: Log.Records does not take the log's mutex.
ReadableUnlocked == log.open

\* The service runs and no Append is at work: Log.Records takes l.mu.
Unlocked == log.open /\ pc = "ready"

\* Fault: the cursor is the first record that did not fit.
NextSinceSkips(rows, limit) == IF Len(rows) > limit THEN rows[limit + 1].Seq ELSE 0

\* The cursor of the next page: the last record of this one, where more remain.
NextSince(rows, limit) == IF Len(rows) > limit THEN rows[limit].Seq ELSE 0

\* The records after the cursor, of the event, in the order of the log.
Matching(records, since) ==
    {n \in DOMAIN records : records[n].Seq > since /\ records[n].RecordHash \in Asked}

Rows(records, since) ==
    LET M == Matching(records, since)
    IN  [k \in 1..Cardinality(M) |-> records[Nth(M, k)]]

\* One request: as many of them as fit.  A client that is given no cursor has
\* them all.  A log that cannot be read is an error and shows nothing.
PageTurn(limit) ==
    LET rows == Rows(Records(file), page.since)
        next == NextSince(rows, limit)
    IN  /\ page.at = "turning"
        /\ Unlocked /\ Readable(file)
        /\ page' = [page EXCEPT !.at = IF next = 0 THEN "done" ELSE "turning",
                                !.since = next,
                                !.got = @ \o SubSeq(rows, 1, IF next = 0 THEN Len(rows) ELSE limit)]
        /\ UNCHANGED vars

Paging == PageBegin \/ \E limit \in Limits : PageTurn(limit)

---------------------------------------------------------------------------
\* As long as no file was damaged, a client that was given no further cursor has,
\* in order and once each, every record of its event that was trusted when it
\* began, whatever was appended and whatever restarts came between the pages
\* (api.go: since, limit and next_since).
PagesAreComplete ==
    ~marred =>
        /\ page.at = "done" => page.due \subseteq Seen
        /\ \A i, j \in DOMAIN page.got :
              i < j => page.got[i].RecordHash < page.got[j].RecordHash

\* What a client was shown stays: no record appears on a page that a later crash
\* or power loss can take back (log.go: Records waits for the Append at work,
\* and Open refuses a log with a record past its anchor).
SeenStays == ~marred => Seen \subseteq Hashes(file)
=============================================================================
