------------------------------ MODULE AuditLog ------------------------------
(***************************************************************************)
(* The audit log on disk (internal/audit): a file of hash-chained records  *)
(* and, beside it, an anchor that names the head of the chain.  Append     *)
(* writes the line, syncs it, and then replaces the anchor; Open reads the *)
(* file, verifies the chain, and refuses the log unless its head is the    *)
(* one the anchor names.  Between any two of these steps the process or    *)
(* the whole machine may stop, any of them may fail, and the end of the    *)
(* file may be lost.                                                       *)
(*                                                                         *)
(* Append holds l.mu throughout, so there is one writer.  A record is its  *)
(* links and its hash; the hash is the number of the Append that wrote it: *)
(* SHA-256 is taken as injective and no two records as equal.  A write     *)
(* leaves a whole line, a torn one, or all of it but the newline.          *)
(***************************************************************************)
EXTENDS Naturals, Sequences, FiniteSets

CONSTANTS
    Faults,       \* what may go wrong, a subset of Fault
    MaxAppends,   \* bound: calls of Append
    MaxStops      \* bound: crashes, power losses and damage

Fault == {"open",     \* the file cannot be opened: nothing is written
          "write",    \* a short write
          "sync",     \* fsync of the log fails
          "anchor",   \* the anchor fails before its rename
          "dir",      \* the directory cannot be opened after the rename
          "dirsync",  \* fsync of the directory fails
          "crash",    \* the process dies
          "power",    \* the machine loses power
          "lose",     \* the file loses its last line
          "corrupt"}  \* the anchor file is damaged

ASSUME AuditAssumption ==
    Faults \subseteq Fault /\ MaxAppends \in Nat /\ MaxStops \in Nat

GenesisPrevHash == 0
Record == [Seq: Nat, PrevRecordHash: Nat, RecordHash: Nat]
Form == {"whole", "torn", "unended"}
Line == [rec: Record, form: Form]

\* The anchor file: absent, or the head it expects, or something readAnchor cannot
\* read.  An anchor of no log has sequence number 0.
Anchor == [state: {"absent", "sound", "corrupt"}, Seq: Nat, RecordHash: Nat]
NoAnchor == [state |-> "absent", Seq |-> 0, RecordHash |-> GenesisPrevHash]
CorruptAnchor == [NoAnchor EXCEPT !.state = "corrupt"]

AnchorOf(seq, hash) == [state |-> "sound", Seq |-> seq, RecordHash |-> hash]

---------------------------------------------------------------------------
(* Reading.                                                                *)

\* How many of a set of places are no later than i, and the n-th of them.
Rank(S, i) == Cardinality({j \in S : j <= i})
Nth(S, n) == CHOOSE i \in S : Rank(S, i) = n

\* The writes a line of the file begins with: what follows a write without a
\* newline is on the same line.
LineStarts(f) == {i \in DOMAIN f : i = 1 \/ f[i - 1].form = "whole"}

\* The number of the line the write i is on, and the write line n begins with.
LineOf(f, i) == Rank(LineStarts(f), i)
StartOf(f, n) == Nth(LineStarts(f), n)

\* readAll fails on a line that begins with a torn record.  Of any other line
\* it decodes the first record and does not look further.
Readable(f) == \A i \in LineStarts(f) : f[i].form # "torn"

Records(f) == [n \in 1..Cardinality(LineStarts(f)) |-> f[StartOf(f, n)].rec]

\* The hashes of the records a reader finds.
Hashes(f) == {Records(f)[n].RecordHash : n \in DOMAIN Records(f)}

\* chain.go: each record links to the one before and is numbered after it.
Linked(records, i) ==
    /\ records[i].PrevRecordHash =
          IF i = 1 THEN GenesisPrevHash ELSE records[i - 1].RecordHash
    /\ i > 1 => records[i].Seq = records[i - 1].Seq + 1

Verify(records) == \A i \in DOMAIN records : Linked(records, i)

HeadSeq(records) == IF records = << >> THEN 0 ELSE records[Len(records)].Seq
HeadHash(records) ==
    IF records = << >> THEN GenesisPrevHash ELSE records[Len(records)].RecordHash

\* Fault: a head behind its anchor taken for one whose anchor is late.
CheckAnchorLenient(a, records) ==
    CASE a.state = "corrupt" -> "corrupt"
      [] a.state = "absent" -> IF HeadSeq(records) = 0 THEN "ok" ELSE "missing"
      [] a.state = "sound" /\ HeadSeq(records) # a.Seq -> "ok"
      [] OTHER -> IF HeadHash(records) = a.RecordHash THEN "ok" ELSE "tampered"

\* anchor.go, checkAnchor: its cases by name.
CheckAnchor(a, records) ==
    LET seq == HeadSeq(records)
    IN  CASE a.state = "corrupt" -> "corrupt"
          [] a.state = "absent" -> IF seq = 0 THEN "ok" ELSE "missing"
          [] a.state = "sound" /\ seq < a.Seq -> "truncated"
          [] a.state = "sound" /\ seq > a.Seq -> "ahead"
          [] a.state = "sound" /\ seq = a.Seq ->
                IF seq = 0 \/ HeadHash(records) = a.RecordHash THEN "ok" ELSE "tampered"

\* What Open says of a log and its anchor.
Judge(f, a) ==
    IF ~Readable(f) THEN "malformed"
    ELSE IF ~Verify(Records(f)) THEN "broken"
    ELSE CheckAnchor(a, Records(f))

---------------------------------------------------------------------------
VARIABLES
    file,      \* the writes to the log, in order, as a reader sees them
    durable,   \* how many of them a power loss leaves
    anchor,    \* the anchor file as a reader sees it
    anchors,   \* those a power loss may leave
    log,       \* Log: is it open, its seq, its prev
    pc,        \* where Append is: "ready", "sync" or "anchor"
    appends,   \* calls of Append so far
    trusted,   \* the hashes of the records Append returned, or an operator
               \* adopted, with the anchor on storage
    orphans,   \* those of an Append that failed before its anchor was written,
               \* and nobody has adopted
    marred,    \* has a failed Append left bytes, a file been damaged, or an operator
               \* stepped in?
    stops      \* crashes, power losses and damage

disk == <<file, durable, anchor, anchors>>
ghosts == <<trusted, orphans, marred>>
vars == <<disk, log, pc, appends, ghosts, stops>>

Closed == [open |-> FALSE, seq |-> 0, prev |-> GenesisPrevHash]

TypeOK ==
    /\ file \in Seq(Line) /\ durable \in 0..Len(file)
    /\ anchor \in Anchor /\ anchors \subseteq Anchor /\ anchor \in anchors
    /\ log \in [open: BOOLEAN, seq: Nat, prev: Nat]
    /\ pc \in {"ready", "sync", "anchor"}
    /\ appends \in Nat /\ stops \in Nat
    /\ trusted \subseteq Nat /\ orphans \subseteq Nat /\ marred \in BOOLEAN

Init ==
    /\ file = << >> /\ durable = 0
    /\ anchor = NoAnchor /\ anchors = {NoAnchor}
    /\ log = Closed /\ pc = "ready" /\ appends = 0
    /\ trusted = {} /\ orphans = {} /\ marred = FALSE /\ stops = 0

---------------------------------------------------------------------------
(* Open.                                                                   *)

Open ==
    /\ ~log.open
    /\ Judge(file, anchor) = "ok"
    /\ log' = [open |-> TRUE, seq |-> HeadSeq(Records(file)),
               prev |-> HeadHash(Records(file))]
    /\ UNCHANGED <<disk, pc, appends, ghosts, stops>>

---------------------------------------------------------------------------
(* Append.                                                                 *)

\* The record this Append chains onto the head.
NewRecord == [Seq |-> log.seq + 1, PrevRecordHash |-> log.prev, RecordHash |-> appends + 1]

\* The log file cannot be opened: an error, and the counter is rolled back.
AppendNothing ==
    /\ "open" \in Faults
    /\ log.open /\ pc = "ready" /\ appends < MaxAppends
    /\ appends' = appends + 1
    /\ UNCHANGED <<disk, log, pc, ghosts, stops>>

\* appendLine writes the line, or part of it and returns an error, with the
\* counter rolled back.
AppendWrite ==
    /\ log.open /\ pc = "ready" /\ appends < MaxAppends
    /\ appends' = appends + 1
    /\ \E form \in IF "write" \in Faults THEN Form ELSE {"whole"} :
          /\ file' = Append(file, [rec |-> NewRecord, form |-> form])
          /\ pc' = IF form = "whole" THEN "sync" ELSE "ready"
          /\ marred' = (marred \/ form # "whole")
    /\ UNCHANGED <<durable, anchor, anchors, log, trusted, orphans, stops>>

\* Fault: the line is not synced before its anchor is written.
AppendUnsynced ==
    /\ pc = "sync"
    /\ log' = [log EXCEPT !.seq = @ + 1, !.prev = appends]
    /\ pc' = "anchor"
    /\ UNCHANGED <<disk, appends, ghosts, stops>>

\* It syncs the file: the record is the head.
AppendSync ==
    /\ pc = "sync"
    /\ durable' = Len(file)
    /\ log' = [log EXCEPT !.seq = @ + 1, !.prev = appends]
    /\ pc' = "anchor"
    /\ UNCHANGED <<file, anchor, anchors, appends, ghosts, stops>>

\* Fault: the counter rolled back that was never advanced.
AppendSyncFailsTwice ==
    /\ "sync" \in Faults
    /\ pc = "sync"
    /\ log' = [log EXCEPT !.seq = @ - 1]
    /\ pc' = "ready" /\ marred' = TRUE
    /\ UNCHANGED <<disk, appends, trusted, orphans, stops>>

\* The sync fails: an error, the counter rolled back and the line left there.
AppendSyncFails ==
    /\ "sync" \in Faults
    /\ pc = "sync"
    /\ pc' = "ready" /\ marred' = TRUE
    /\ UNCHANGED <<disk, log, appends, trusted, orphans, stops>>

\* Fault: the anchor names the record before.
AnchorBehind ==
    /\ pc = "anchor"
    /\ anchor' = AnchorOf(log.seq - 1, log.prev)
    /\ anchors' = {anchor'}
    /\ trusted' = trusted \cup {log.prev}
    /\ pc' = "ready"
    /\ UNCHANGED <<file, durable, log, appends, orphans, marred, stops>>

\* Does the fsync of the directory succeed?  writeAnchor drops its error: when it
\* fails a power loss may bring back the anchor of before.
DirSync == IF "dirsync" \in Faults THEN BOOLEAN ELSE {TRUE}

\* writeAnchor replaces the anchor and Append returns the record.
AnchorWrite ==
    /\ pc = "anchor"
    /\ anchor' = AnchorOf(log.seq, log.prev)
    /\ \E synced \in DirSync :
          /\ anchors' = {anchor'} \cup (IF synced THEN {} ELSE anchors)
          /\ trusted' = trusted \cup (IF synced THEN {log.prev} ELSE {})
    /\ pc' = "ready"
    /\ UNCHANGED <<file, durable, log, appends, orphans, marred, stops>>

\* Fault: the counter rolled back although the record was written.
AnchorFailsRollsBack ==
    /\ "anchor" \in Faults
    /\ pc = "anchor"
    /\ log' = [log EXCEPT !.seq = @ - 1]
    /\ orphans' = orphans \cup {log.prev}
    /\ pc' = "ready"
    /\ UNCHANGED <<disk, appends, trusted, marred, stops>>

\* writeAnchor fails before its rename, or after it on opening the directory:
\* an error, but the record stays the head.
AnchorFails ==
    /\ pc = "anchor"
    /\ \/ "anchor" \in Faults /\ UNCHANGED <<anchor, anchors>>
       \/ /\ "dir" \in Faults
          /\ anchor' = AnchorOf(log.seq, log.prev)
          /\ anchors' = anchors \cup {anchor'}
    /\ orphans' = IF anchor' = anchor THEN orphans \cup {log.prev} ELSE orphans
    /\ pc' = "ready"
    /\ UNCHANGED <<file, durable, log, appends, trusted, marred, stops>>

---------------------------------------------------------------------------
(* The operator.                                                           *)

\* With the service stopped the operator removes the anchor, for a reason or none
\* (AuditVerify has the one SECURITY.md gives); nothing is promised until the next.
RemoveAnchor ==
    /\ ~log.open /\ anchor.state # "absent"
    /\ anchor' = NoAnchor /\ anchors' = anchors \cup {NoAnchor}
    /\ trusted' = {} /\ marred' = TRUE
    /\ UNCHANGED <<file, durable, log, pc, appends, orphans, stops>>

\* InitAnchor refuses where an anchor exists, and a log that does not verify.
Adoptable == anchor.state = "absent" /\ Readable(file) /\ Verify(Records(file))

\* InitAnchor: where there is no anchor, the head of a log that verifies
\* becomes the anchor, and what the log holds is trusted from then on.
InitAnchor ==
    /\ ~log.open /\ Adoptable
    /\ anchor' = AnchorOf(HeadSeq(Records(file)), HeadHash(Records(file)))
    /\ \E synced \in DirSync :
          /\ anchors' = {anchor'} \cup (IF synced THEN {} ELSE anchors)
          /\ trusted' = IF synced THEN Hashes(file) ELSE {}
    /\ marred' = TRUE /\ orphans' = {}
    /\ UNCHANGED <<file, durable, log, pc, appends, stops>>

---------------------------------------------------------------------------
(* The environment.                                                        *)

Stop == log' = Closed /\ pc' = "ready" /\ stops < MaxStops /\ stops' = stops + 1

\* The process dies; the files are as they were.
Crash ==
    /\ "crash" \in Faults
    /\ log.open
    /\ Stop
    /\ UNCHANGED <<disk, appends, ghosts>>

\* The machine stops: of the writes that were not synced a part is left, the
\* last of them perhaps in part.
PowerLoss ==
    /\ "power" \in Faults
    /\ Stop
    /\ \E n \in durable..Len(file), form \in Form :
          /\ n = durable => form = "whole"
          /\ file' = IF n = durable \/ file[n].form # "whole" THEN SubSeq(file, 1, n)
                     ELSE [SubSeq(file, 1, n) EXCEPT ![n].form = form]
    /\ durable' = Len(file')
    /\ anchor' \in anchors /\ anchors' = {anchor'}
    /\ UNCHANGED <<appends, ghosts>>

\* The end of the log is lost, by whatever means.
LoseTail ==
    /\ "lose" \in Faults
    /\ file # << >>
    /\ pc = "ready"
    /\ stops < MaxStops /\ stops' = stops + 1
    /\ file' = SubSeq(file, 1, Len(file) - 1)
    /\ durable' = IF durable > Len(file') THEN Len(file') ELSE durable
    /\ marred' = TRUE
    /\ UNCHANGED <<anchor, anchors, log, pc, appends, trusted, orphans>>

\* The anchor file is damaged.
DamageAnchor ==
    /\ "corrupt" \in Faults
    /\ anchor.state = "sound"
    /\ stops < MaxStops /\ stops' = stops + 1
    /\ anchor' = CorruptAnchor /\ anchors' = anchors \cup {anchor'}
    /\ marred' = TRUE
    /\ UNCHANGED <<file, durable, log, pc, appends, trusted, orphans>>

---------------------------------------------------------------------------
Service ==
    \/ Open
    \/ AppendNothing \/ AppendWrite \/ AppendSync \/ AppendSyncFails
    \/ AnchorWrite \/ AnchorFails

Operator == RemoveAnchor \/ InitAnchor

Environment == Crash \/ PowerLoss \/ LoseTail \/ DamageAnchor

Next == Service \/ Operator \/ Environment

Spec == Init /\ [][Next]_vars

---------------------------------------------------------------------------
(* Properties.                                                             *)

Opens == ~log.open /\ log'.open

\* A log that Open accepts holds every record whose Append returned success, or
\* that was adopted, once the directory's fsync did its work, whatever crashes,
\* power losses, failed anchors and lost tails came before (anchor.go: what the
\* anchor is for; log.go: a record is synced before it is anchored).
NothingTrustedIsMissing == [][Opens => trusted \subseteq Hashes(file)]_vars

\* As long as appends leave nothing behind when they fail and nobody touches the
\* files, the log is never taken for truncated, tampered or broken: what
\* crashes, power losses and failed anchors leave is a log ahead of its anchor
\* or without one, or a torn last line (SECURITY.md: the exit codes send the
\* operator different ways).
NoFalseAlarm ==
    ~marred => Judge(file, anchor) \in {"ok", "ahead", "missing", "malformed"}

\* A log is ahead of its anchor only by records whose Append failed or never
\* returned, or whose anchor never reached storage: no other acknowledged record
\* waits for an operator to adopt it (anchor.go, the eighth case).
AheadIsUnacknowledged ==
    ~marred /\ Judge(file, anchor) = "ahead" =>
        \A n \in DOMAIN Records(file) :
            Records(file)[n].Seq > anchor.Seq => Records(file)[n].RecordHash \notin trusted

\* The writer never forks the chain: between calls the head it will link to is
\* the last record in the file, after failed calls and restarts too (log.go:
\* seq and prev are rolled back, or kept, as the record was written).
WriterIsAtTheHead ==
    ~marred /\ log.open /\ pc = "ready" =>
        /\ Readable(file)
        /\ log.seq = HeadSeq(Records(file)) /\ log.prev = HeadHash(Records(file))

---------------------------------------------------------------------------
(* What the comments of the code say of it and the code does not do.       *)

\* log.go, of an Append whose anchor failed: "A future Open of this path will
\* see the log's head ahead of the anchor and refuse to trust it until the
\* anchor is explicitly re-established."
UnanchoredIsRefused == [][Opens => orphans = {}]_vars

\* docs/mutation-loop.md: "Each record carries prev_record_hash (linking to the prior
\* record)": when an Append returns its record, that record ends a file that reads
\* and verifies, also when an earlier Append of the process failed half way.
AcknowledgedOnAChain ==
    [][AnchorWrite => Readable(file) /\ Verify(Records(file))]_vars
=============================================================================
