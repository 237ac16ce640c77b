------------------------- MODULE AuditServiceProofs -------------------------
(***************************************************************************)
(* Of those who read the audit log beside its writer, for every value of   *)
(* the constants: what `audit verify` reports is true although it takes no *)
(* lock, and a client that turns pages misses nothing it is owed.          *)
(***************************************************************************)
EXTENDS AuditServiceInv, AuditLogProofs

---------------------------------------------------------------------------
(* The service runs the log.                                               *)

LEMMA ServiceStepIsOfTheLog ==
    ASSUME [ServiceNext]_serviceVars
    PROVE  [Next]_vars
<1>1. CASE LogStep
  BY <1>1 DEF LogStep, Next, Environment
<1>2. CASE MachineStops
  BY <1>2 DEF MachineStops, Next, Environment
<1>3. CASE ClientStep
  BY <1>3 DEF ClientStep, Paging, PageBegin, PageTurn
<1>4. CASE VerifyStep
  BY <1>4 DEF VerifyStep, Verifying, VerifyLog, VerifySnapshot, VerifyVerdict
<1>5. CASE RunbookStep
  BY <1>5 DEF RunbookStep, RunbookRemove, RunbookAdopt, RunbookNone, Next, Operator
<1>6. CASE UNCHANGED serviceVars
  BY <1>6 DEF serviceVars
<1> QED BY <1>1, <1>2, <1>3, <1>4, <1>5, <1>6 DEF ServiceNext

\* Readers and operator leave the log what it is: all that is proved of the log
\* alone holds of the log in service.
THEOREM ServiceRunsTheLog == ServiceSpec => Spec
<1>1. ServiceInit => Init
  BY DEF ServiceInit
<1> QED BY <1>1, ServiceStepIsOfTheLog, PTL DEF ServiceSpec, Spec

\* So it is an append-only trail beside its readers and through the runbook too.
THEOREM ServiceImplementsTrail == ServiceSpec => ImplementsTrail
BY ServiceRunsTheLog, LogImplementsTrail, PTL

---------------------------------------------------------------------------
(* Pages and reports.                                                      *)

LEMMA RowsType ==
    ASSUME NEW records \in Seq(Record), NEW since
    PROVE  LET M == Matching(records, since)
               rows == Rows(records, since)
           IN  /\ M \in SUBSET DOMAIN records /\ IsFiniteSet(M) /\ M \in SUBSET (Nat \ {0})
               /\ rows \in Seq(Record) /\ Len(rows) = Cardinality(M)
               /\ \A k \in DOMAIN rows : Nth(M, k) \in M /\ rows[k] = records[Nth(M, k)]
<1> DEFINE M == Matching(records, since)
           rows == Rows(records, since)
<1>1. M \in SUBSET DOMAIN records
  BY DEF Matching
<1>2. M \in SUBSET (1..Len(records)) /\ M \in SUBSET (Nat \ {0})
  BY <1>1
<1>3. IsFiniteSet(M)
  BY <1>2, FS_Interval, FS_Subset
<1>4. PICK k \in Nat : k = Cardinality(M)
  BY <1>3, FS_CardinalityType
<1>5. rows = [n \in 1..k |-> records[Nth(M, n)]]
  BY <1>4 DEF Rows
<1> HIDE DEF M, rows
<1>6. \A n \in 1..k : Nth(M, n) \in M
  BY <1>2, <1>3, <1>4, NthRank
<1>7. \A n \in 1..k : records[Nth(M, n)] \in Record
  BY <1>1, <1>6
<1>8. rows \in [1..k -> Record] /\ DOMAIN rows = 1..k
  BY <1>5, <1>7
<1>9. rows \in Seq(Record) /\ Len(rows) = k
  BY <1>8, SeqDef
<1> QED BY <1>1, <1>2, <1>3, <1>4, <1>5, <1>6, <1>8, <1>9 DEF M, rows

LEMMA HeadSeqType ==
    ASSUME NEW records \in Seq(Record)
    PROVE  HeadSeq(records) \in Nat
<1>1. records # << >> => records[Len(records)] \in Record
  OBVIOUS
<1> QED BY <1>1 DEF HeadSeq, Record

LEMMA VerificationType ==
    /\ NoVerification \in Verification
    /\ \A v \in Verification : \A verdict : Exit(v, verdict) \in Verification
<1>1. \A verdict : AuditExitCode(verdict) \in 0..5
  BY DEF AuditExitCode
<1>2. NoVerification \in Verification
  BY DEF NoVerification, Verification
<1>3. ASSUME NEW v \in Verification, NEW verdict PROVE Exit(v, verdict) \in Verification
  BY <1>1 DEF Exit, Verification
<1> QED BY <1>2, <1>3

\* The variables of the readers keep their types.
THEOREM ServiceTypeCorrect == ServiceSpec => []ServiceTypeOK
<1>1. ServiceInit => ServiceTypeOK
  <2>1. << >> \in Seq(Record)
    OBVIOUS
  <2>2. NoPage \in Page
    BY <2>1 DEF NoPage, Page
  <2> QED BY <2>2, VerificationType DEF ServiceInit, ServiceTypeOK
<1>2. TypeOK /\ ServiceTypeOK /\ [ServiceNext]_serviceVars => ServiceTypeOK'
  <2> SUFFICES ASSUME TypeOK, ServiceTypeOK, [ServiceNext]_serviceVars PROVE ServiceTypeOK'
    OBVIOUS
  <2>1. /\ page \in Page /\ ver \in Verification /\ due \subseteq Nat /\ raced \in BOOLEAN
        /\ trusted \subseteq Nat /\ Records(file) \in Seq(Record)
    BY RecordsType DEF TypeOK, ServiceTypeOK
  <2>2. CASE LogStep
    BY <2>1, <2>2 DEF LogStep, ServiceTypeOK
  <2>3. CASE MachineStops
    BY <2>1, <2>3, VerificationType DEF MachineStops, ServiceTypeOK
  <2>4. CASE PageBegin /\ UNCHANGED verVars
    <3>1. page.got \in Seq(Record)
      BY <2>1 DEF Page
    <3>2. HeadSeq(page.got) \in Nat
      BY <3>1, HeadSeqType
    <3>3. page' \in Page
      BY <2>1, <2>4, <3>2 DEF PageBegin, Page
    <3> QED BY <2>1, <2>4, <3>3 DEF ServiceTypeOK, verVars
  <2>5. CASE (\E limit \in Limits : PageTurn(limit)) /\ UNCHANGED verVars
    <3>1. PICK limit \in Limits : PageTurn(limit)
      BY <2>5
    <3> DEFINE rows == Rows(Records(file), page.since)
               next == NextSince(rows, limit)
               fit == SubSeq(rows, 1, IF next = 0 THEN Len(rows) ELSE limit)
    <3>2. page' = [page EXCEPT !.at = IF next = 0 THEN "done" ELSE "turning",
                               !.since = next, !.got = page.got \o fit]
      BY <3>1 DEF PageTurn
    <3>3. rows \in Seq(Record) /\ limit \in Nat /\ limit >= 1
      BY <2>1, RowsType, PagingAssumption
    <3> HIDE DEF rows
    <3>4. Len(rows) > limit => rows[limit] \in Record
      BY <3>3
    <3>5. next \in Nat /\ (next # 0 => Len(rows) > limit)
      BY <3>3, <3>4 DEF NextSince, Record
    <3>6. fit \in Seq(Record)
      BY <3>3, <3>5
    <3> HIDE DEF next, fit
    <3>7. page' \in Page
      <4>1. page.got \o fit \in Seq(Record)
        BY <2>1, <3>6 DEF Page
      <4> QED BY <2>1, <3>2, <3>5, <4>1 DEF Page
    <3> QED BY <2>1, <2>5, <3>7 DEF ServiceTypeOK, verVars
  <2>6. CASE VerifyStep
    <3>1. UNCHANGED page
      BY <2>6 DEF VerifyStep
    <3>2. CASE VerifyLog
      <4>1. [NoVerification EXCEPT !.at = "snapshot", !.records = Records(file)] \in Verification
        BY <2>1, VerificationType DEF Verification
      <4> QED BY <2>1, <3>1, <3>2, <4>1, VerificationType DEF VerifyLog, ServiceTypeOK
    <3>3. CASE VerifySnapshot
      <4> DEFINE excess == IF anchor.state = "sound" /\ HeadSeq(ver.records) > anchor.Seq
                           THEN HeadSeq(ver.records) - anchor.Seq ELSE 0
      <4>1. ver.records \in Seq(Record) /\ anchor.Seq \in Nat
        BY <2>1 DEF Verification, TypeOK, Anchor
      <4>2. excess \in Nat
        BY <4>1, HeadSeqType
      <4> DEFINE prior == (excess = 1 /\ PriorHash(ver.records) = anchor.RecordHash)
      <4>3. ver' = IF anchor.state = "corrupt" THEN Exit(ver, "corrupt")
                   ELSE [ver EXCEPT !.at = "verdict", !.ExcessRecords = excess,
                                    !.PriorMatchesAnchor = prior]
        BY <3>3 DEF VerifySnapshot
      <4>4. prior \in BOOLEAN
        OBVIOUS
      <4> HIDE DEF excess, prior
      <4>5. ver' \in Verification
        BY <2>1, <4>2, <4>3, <4>4, VerificationType DEF Verification
      <4> QED BY <2>1, <3>1, <3>3, <4>5 DEF VerifySnapshot, ServiceTypeOK
    <3>4. CASE VerifyVerdict
      BY <2>1, <3>1, <3>4, VerificationType DEF VerifyVerdict, ServiceTypeOK
    <3> QED BY <2>6, <3>2, <3>3, <3>4 DEF VerifyStep, Verifying
  <2>7. CASE RunbookStep
    BY <2>1, <2>7, VerificationType
       DEF RunbookStep, RunbookRemove, RunbookAdopt, RunbookNone, NextVerification, ServiceTypeOK
  <2>8. CASE UNCHANGED serviceVars
    BY <2>1, <2>8 DEF serviceVars, verVars, ServiceTypeOK
  <2> QED BY <2>2, <2>3, <2>4, <2>5, <2>6, <2>7, <2>8 DEF ServiceNext, ClientStep, Paging
<1> QED BY <1>1, <1>2, ServiceRunsTheLog, TypeCorrect, PTL DEF ServiceSpec

---------------------------------------------------------------------------
(* The report of the operator's command.                                   *)

\* Records that agree with an anchor have their head where it says.
LEMMA AgreesAtTheHead ==
    ASSUME NEW a \in Anchor, NEW n, KnownHash(a, n), NEW records \in Seq(Record),
           \A m \in DOMAIN records : records[m].Seq >= 1, CheckAnchor(a, records) = "ok"
    PROVE  a.state # "corrupt" /\ HeadHash(records) = a.RecordHash
<1>1. a.state \in {"absent", "sound", "corrupt"} /\ a.Seq \in Nat /\ HeadSeq(records) \in Nat
  BY HeadSeqType DEF Anchor
<1>2. HeadSeq(records) = 0 => records = << >>
  <2>1. records # << >> => Len(records) \in DOMAIN records
    OBVIOUS
  <2> QED BY <2>1 DEF HeadSeq
<1>3. CASE a.state = "corrupt"
  BY <1>3 DEF CheckAnchor
<1>4. CASE a.state = "absent"
  BY <1>2, <1>4 DEF CheckAnchor, HeadHash, KnownHash
<1>5. CASE a.state = "sound"
  <2>1. /\ HeadSeq(records) = a.Seq
        /\ HeadSeq(records) = 0 \/ HeadHash(records) = a.RecordHash
    BY <1>1, <1>5 DEF CheckAnchor
  <2> QED BY <1>2, <1>5, <2>1 DEF HeadHash, KnownHash
<1> QED BY <1>1, <1>3, <1>4, <1>5

\* A chain whose head covers what is trusted has it.
LEMMA CoveredByTheHead ==
    ASSUME NEW records \in Seq(Record), Verify(records), NEW t,
           Covers(records, t, HeadHash(records))
    PROVE  t \subseteq {records[n].RecordHash : n \in DOMAIN records}
<1>1. CASE records = << >>
  BY <1>1 DEF Covers, HeadHash
<1>2. CASE records # << >>
  <2>1. /\ Len(records) \in DOMAIN records /\ records[Len(records)].RecordHash = HeadHash(records)
        /\ DOMAIN records = 1..Len(records)
    BY <1>2 DEF HeadHash
  <2>2. t \subseteq HashesTo(records, Len(records))
    BY <2>1 DEF Covers, Chained, Verify
  <2> QED BY <2>1, <2>2 DEF HashesTo
<1> QED BY <1>1, <1>2

LEMMA ExitCodes ==
    /\ \A verdict : AuditExitCode(verdict) = 0 <=> verdict = "ok"
    /\ \A verdict : AuditExitCode(verdict) = 2 <=> verdict \in {"truncated", "tampered"}
    /\ \A verdict : AuditExitCode(verdict) = 3 <=> verdict = "ahead"
BY DEF AuditExitCode

LEMMA ExitAnswers ==
    ASSUME NEW v \in Verification, NEW verdict
    PROVE  /\ Exit(v, verdict).at = "done" /\ Exit(v, verdict).code = AuditExitCode(verdict)
           /\ Exit(v, verdict).records = v.records
           /\ Exit(v, verdict).ExcessRecords = v.ExcessRecords
           /\ Exit(v, verdict).PriorMatchesAnchor = v.PriorMatchesAnchor
BY DEF Exit, Verification

LEMMA SnapshotStart == ServiceInit => SnapshotInv
BY DEF ServiceInit, SnapshotInv, Reading, NoVerification, CleanReportIsTrue, Reported

LEMMA SnapshotStep ==
    ASSUME TypeOK, ServiceTypeOK, LogIInv, SnapshotInv, [ServiceNext]_serviceVars
    PROVE  SnapshotInv'
<1> DEFINE r == ver.records
<1>1. /\ FileInv /\ TrustInv /\ file \in Seq(Line) /\ appends \in Nat
      /\ anchor \in anchors /\ anchor \in Anchor /\ pc \in {"ready", "sync", "anchor"}
      /\ log \in [open: BOOLEAN, seq: Nat, prev: Nat]
      /\ ver \in Verification /\ r \in Seq(Record)
  BY DEF TypeOK, ServiceTypeOK, LogIInv, Verification
<1>2. Reading =>
          /\ Verify(r)
          /\ \A n \in DOMAIN r : r[n].Seq >= 1 /\ r[n].RecordHash \in 1..appends
          /\ \A a \in anchors : a.state # "corrupt" => Covers(r, due, a.RecordHash)
          /\ log.open => Covers(r, due, log.prev)
          /\ pc = "sync" => \A n \in DOMAIN r : r[n].RecordHash = appends
                                => r[n].PrevRecordHash = log.prev
  BY DEF SnapshotInv
<1>3. CleanReportIsTrue
  BY DEF SnapshotInv
<1>4. CASE LogStep
  <2>1. UNCHANGED <<ver, due>> /\ CleanReportIsTrue' /\ (Reading' <=> Reading)
    BY <1>3, <1>4 DEF LogStep, CleanReportIsTrue, Reported, Reading
  <2>2. CASE ~Reading
    BY <2>1, <2>2 DEF SnapshotInv
  <2>3. CASE Reading
    <3> SUFFICES /\ \A n \in DOMAIN r : r[n].RecordHash \in 1..appends'
                 /\ \A a \in anchors' : a.state # "corrupt" => Covers(r, due, a.RecordHash)
                 /\ log'.open => Covers(r, due, log'.prev)
                 /\ pc' = "sync" => \A n \in DOMAIN r : r[n].RecordHash = appends'
                                        => r[n].PrevRecordHash = log'.prev
      BY <1>2, <2>1, <2>3 DEF SnapshotInv
    <3>1. CASE Open
      <4>1. log'.prev = anchor.RecordHash /\ anchor.state # "corrupt" /\ pc = "ready"
        BY <1>1, <3>1, OpensAtItsAnchor DEF Open, FileInv
      <4> QED BY <1>1, <1>2, <2>3, <3>1, <4>1 DEF Open, disk
    <3>2. CASE AppendNothing
      BY <1>1, <1>2, <2>3, <3>2 DEF AppendNothing, disk
    <3>3. CASE AppendWrite
      <4>1. UNCHANGED <<anchors, log>> /\ appends' = appends + 1
        BY <3>3 DEF AppendWrite
      <4>2. \A n \in DOMAIN r : r[n].RecordHash # appends + 1 /\ r[n].RecordHash \in 1..(appends + 1)
        BY <1>1, <1>2, <2>3
      <4> QED BY <1>2, <2>3, <4>1, <4>2
    <3>4. CASE AppendSync
      <4>1. UNCHANGED <<anchors, appends>> /\ log'.prev = appends /\ pc' = "anchor" /\ pc = "sync"
        BY <1>1, <3>4 DEF AppendSync
      <4>2. log.open /\ appends # GenesisPrevHash
        BY <1>1, <4>1 DEF FileInv, GenesisPrevHash
      <4>3. /\ Covers(r, due, log.prev)
            /\ \A n \in DOMAIN r : r[n].RecordHash = appends => r[n].PrevRecordHash = log.prev
        BY <1>2, <2>3, <4>1, <4>2
      <4>4. Covers(r, due, appends)
        BY <1>1, <4>2, <4>3, CoversNext
      <4> QED BY <1>2, <2>3, <4>1, <4>4
    <3>5. CASE AppendSyncFails
      BY <1>2, <2>3, <3>5 DEF AppendSyncFails, disk
    <3>6. CASE AnchorWrite \/ AnchorFails
      <4>1. UNCHANGED <<log, appends>> /\ pc = "anchor" /\ pc' = "ready"
        BY <3>6 DEF AnchorWrite, AnchorFails
      <4>2. log.open
        BY <1>1, <4>1 DEF FileInv
      <4>3. \A a \in anchors' : a \in anchors \/ a = AnchorOf(log.seq, log.prev)
        <5>1. AnchorWrite => \A a \in anchors' : a \in anchors \/ a = AnchorOf(log.seq, log.prev)
          BY DEF AnchorWrite, DirSync
        <5>2. AnchorFails => \A a \in anchors' : a \in anchors \/ a = AnchorOf(log.seq, log.prev)
          BY DEF AnchorFails
        <5> QED BY <3>6, <5>1, <5>2
      <4>4. AnchorOf(log.seq, log.prev).RecordHash = log.prev
        BY <1>1, AnchorsNamed
      <4> QED BY <1>2, <2>3, <4>1, <4>2, <4>3, <4>4
    <3>7. CASE Crash
      BY <1>2, <2>3, <3>7 DEF Crash, Stop, Closed, disk
    <3>8. CASE LoseTail
      BY <1>2, <2>3, <3>8 DEF LoseTail
    <3>9. CASE DamageAnchor
      BY <1>2, <2>3, <3>9, AnchorsNamed DEF DamageAnchor
    <3> QED BY <1>4, <3>1, <3>2, <3>3, <3>4, <3>5, <3>6, <3>7, <3>8, <3>9 DEF LogStep, Service
  <2> QED BY <2>2, <2>3
<1>5. CASE MachineStops \/ RunbookStep
  <2>1. ver' = NoVerification
    BY <1>5 DEF MachineStops, RunbookStep, RunbookRemove, RunbookAdopt, RunbookNone,
                NextVerification
  <2> QED BY <2>1 DEF SnapshotInv, Reading, NoVerification, CleanReportIsTrue, Reported
<1>6. CASE ClientStep \/ UNCHANGED serviceVars
  <2>1. UNCHANGED <<ver, due, anchors, log, pc, appends>>
    BY <1>6 DEF ClientStep, Paging, PageBegin, PageTurn, serviceVars, vars, disk, verVars
  <2> QED BY <1>2, <1>3, <2>1 DEF SnapshotInv, Reading, CleanReportIsTrue, Reported
<1>7. CASE VerifyLog
  <2>1. due' = trusted /\ UNCHANGED <<anchors, log, pc, appends>>
    BY <1>7 DEF VerifyLog, vars, disk, ghosts
  <2>2. CASE Readable(file) /\ Verify(Records(file))
    <3>1. ver'.at = "snapshot" /\ ver'.records = Records(file)
      BY <1>7, <2>2 DEF VerifyLog, NoVerification
    <3> DEFINE R == Records(file)
    <3>2. pc = "sync" => \A n \in DOMAIN R : R[n].RecordHash = appends
                             => R[n].PrevRecordHash = log.prev
      BY <1>1, RecordsType DEF FileInv
    <3>3. /\ \A n \in DOMAIN R : R[n].Seq >= 1 /\ R[n].RecordHash \in 1..appends
          /\ \A a \in anchors : a.state # "corrupt" => Covers(R, trusted, a.RecordHash)
          /\ log.open => Covers(R, trusted, log.prev)
      BY <1>1, RecordsInOrder DEF TrustInv
    <3> QED BY <2>1, <2>2, <3>1, <3>2, <3>3 DEF SnapshotInv, Reading, CleanReportIsTrue, Reported
  <2>3. CASE ~(Readable(file) /\ Verify(Records(file)))
    <3>1. ver' = Exit(NoVerification, "malformed") \/ ver' = Exit(NoVerification, "broken")
      BY <1>7, <2>3 DEF VerifyLog
    <3>2. ver'.at = "done" /\ ver'.code # 0
      BY <3>1, VerificationType, ExitAnswers, ExitCodes
    <3> QED BY <3>2 DEF SnapshotInv, Reading, CleanReportIsTrue, Reported
  <2> QED BY <2>2, <2>3
<1>8. CASE VerifySnapshot
  <2>1. UNCHANGED <<due, anchors, log, pc, appends>> /\ Reading
    BY <1>8 DEF VerifySnapshot, vars, disk, ghosts, Reading
  <2>2. CASE anchor.state = "corrupt"
    <3>1. ver'.at = "done" /\ ver'.code # 0
      BY <1>1, <1>8, <2>2, ExitAnswers, ExitCodes DEF VerifySnapshot
    <3> QED BY <3>1 DEF SnapshotInv, Reading, CleanReportIsTrue, Reported
  <2>3. CASE anchor.state # "corrupt"
    <3>1. ver'.at = "verdict" /\ ver'.records = r
      BY <1>1, <1>8, <2>3 DEF VerifySnapshot, Verification
    <3> QED BY <1>2, <2>1, <3>1 DEF SnapshotInv, Reading, CleanReportIsTrue, Reported
  <2> QED BY <2>2, <2>3
<1>9. CASE VerifyVerdict
  <2>1. /\ due' = due /\ Reading /\ ver'.at = "done" /\ ver'.records = r
        /\ ver'.code = AuditExitCode(CheckAnchor(anchor, r))
    BY <1>1, <1>9, ExitAnswers DEF VerifyVerdict, Reading
  <2>2. ASSUME CheckAnchor(anchor, r) = "ok"
        PROVE  due \subseteq {r[n].RecordHash : n \in DOMAIN r}
    <3>1. KnownHash(anchor, appends)
      BY <1>1 DEF FileInv
    <3>2. anchor.state # "corrupt" /\ HeadHash(r) = anchor.RecordHash
      BY <1>1, <1>2, <2>1, <2>2, <3>1, AgreesAtTheHead
    <3> QED BY <1>1, <1>2, <2>1, <3>2, CoveredByTheHead
  <2> QED BY <2>1, <2>2, ExitCodes DEF SnapshotInv, Reading, CleanReportIsTrue, Reported
<1> QED BY <1>4, <1>5, <1>6, <1>7, <1>8, <1>9 DEF ServiceNext, VerifyStep, Verifying

\* The damage a log has taken is on record for good.
LEMMA MarredStays ==
    ASSUME TypeOK, [Next]_vars, ~marred'
    PROVE  ~marred
BY DEF TypeOK, Next, Service, Operator, Environment, Open, AppendNothing, AppendWrite, AppendSync,
       AppendSyncFails, AnchorWrite, AnchorFails, RemoveAnchor, InitAnchor, Crash, PowerLoss,
       LoseTail, DamageAnchor, vars, ghosts

\* While nothing is damaged the log in service grows, and its anchor moves to the
\* end of it.
LEMMA UndamagedStep ==
    ASSUME TypeOK, LogIInv, LogStep, ~marred'
    PROVE  /\ file' = file \/ \E l \in Line : file' = Append(file, l)
           /\ anchor' = anchor \/ (anchor'.state = "sound" /\ anchor'.Seq = Len(file))
<1>1. /\ log.seq \in Nat /\ log.prev \in Nat /\ FileInv /\ IntactInv /\ ~marred
  BY MarredStays DEF TypeOK, LogIInv, LogStep, Next, Environment
<1>2. ~LoseTail /\ ~DamageAnchor /\ ~AppendSyncFails
  BY DEF LoseTail, DamageAnchor, AppendSyncFails
<1>3. CASE Open \/ AppendNothing \/ Crash \/ AppendSync
  BY <1>3 DEF Open, AppendNothing, Crash, AppendSync, disk
<1>4. CASE AppendWrite
  <2>1. PICK form \in Form : file' = Append(file, [rec |-> NewRecord, form |-> form])
    BY <1>4 DEF AppendWrite, Form
  <2>2. [rec |-> NewRecord, form |-> form] \in Line
    BY NewRecordType DEF Line
  <2> QED BY <1>4, <2>1, <2>2 DEF AppendWrite
<1>5. CASE AnchorWrite \/ AnchorFails
  <2>1. /\ pc = "anchor" /\ file' = file
        /\ anchor' = anchor \/ anchor' = AnchorOf(log.seq, log.prev)
    BY <1>5 DEF AnchorWrite, AnchorFails
  <2>2. log.seq = Len(file)
    BY <1>1, <2>1 DEF IntactInv, FileInv
  <2> QED BY <1>1, <2>1, <2>2, AnchorsNamed
<1> QED BY <1>2, <1>3, <1>4, <1>5 DEF LogStep, Service

LEMMA HeadOfAStart ==
    ASSUME TypeOK, IntactInv, ~marred, NEW records \in Seq(Record), Len(records) <= Len(file),
           \A n \in DOMAIN records : records[n] = file[n].rec
    PROVE  HeadSeq(records) = Len(records)
<1>1. records # << >> => /\ Len(records) \in DOMAIN records /\ Len(records) \in DOMAIN file
                         /\ Len(records) # 0
  BY DEF TypeOK
<1>2. InPlace(file)
  BY DEF IntactInv
<1>3. records = << >> => Len(records) = 0
  OBVIOUS
<1> QED BY <1>1, <1>2, <1>3 DEF HeadSeq, InPlace

LEMMA RaceStart == ServiceInit => RaceInv
BY DEF ServiceInit, RaceInv, Reading, NoVerification, AlarmMeansRace, AheadReportIsExact, Reported

LEMMA RaceStep ==
    ASSUME TypeOK, ServiceTypeOK, LogIInv, RaceInv, [ServiceNext]_serviceVars
    PROVE  RaceInv'
<1> SUFFICES ASSUME ~marred' PROVE RaceInv'
  BY DEF RaceInv
<1> DEFINE r == ver.records
<1>1. /\ FileInv /\ IntactInv /\ ~marred /\ file \in Seq(Line) /\ Len(file) \in Nat
      /\ anchor \in anchors /\ anchor \in Anchor /\ anchor.Seq \in Nat
      /\ ver \in Verification /\ r \in Seq(Record) /\ raced \in BOOLEAN
      /\ durable \in Nat /\ durable <= Len(file)
      /\ Len(r) \in Nat /\ DOMAIN r = 1..Len(r)
  <2>1. ver \in Verification /\ r \in Seq(Record) /\ raced \in BOOLEAN
    BY DEF ServiceTypeOK, Verification
  <2> QED BY <2>1, ServiceStepIsOfTheLog, MarredStays DEF TypeOK, LogIInv, Anchor
<1>2. /\ Reading =>
            /\ Len(r) <= Len(file)
            /\ \A n \in DOMAIN r : r[n] = file[n].rec
            /\ raced => anchor.state = "sound" /\ anchor.Seq >= Len(r)
            /\ ~raced => CheckAnchor(anchor, r) \in {"ok", "ahead", "missing"}
      /\ ver.at = "verdict" /\ ~raced /\ anchor.state = "sound" =>
            /\ anchor.Seq < HeadSeq(r) => ver.ExcessRecords = HeadSeq(r) - anchor.Seq
            /\ ver.PriorMatchesAnchor <=>
                  ver.ExcessRecords = 1 /\ PriorHash(r) = anchor.RecordHash
      /\ AlarmMeansRace /\ AheadReportIsExact
  BY <1>1 DEF RaceInv
<1>3. CASE LogStep
  <2>1. /\ UNCHANGED ver /\ (Reading' <=> Reading)
        /\ raced' = (raced \/ (Reading /\ anchor' # anchor))
    BY <1>3 DEF LogStep, Reading
  <2>2. CASE Reading
    <3>1. /\ file' = file \/ \E l \in Line : file' = Append(file, l)
          /\ anchor' = anchor \/ (anchor'.state = "sound" /\ anchor'.Seq = Len(file))
      BY <1>3, UndamagedStep
    <3>2. Len(r) <= Len(file') /\ \A n \in 1..Len(file) : file'[n] = file[n]
      BY <1>1, <1>2, <2>2, <3>1
    <3>3. \A n \in DOMAIN r : n \in 1..Len(file) /\ r[n] = file'[n].rec
      BY <1>1, <1>2, <2>2, <3>2
    <3>4. raced' => anchor'.state = "sound" /\ anchor'.Seq >= Len(r)
      BY <1>1, <1>2, <2>1, <2>2, <3>1
    <3>5. ~raced' => ~raced /\ anchor' = anchor
      BY <1>1, <2>1, <2>2
    <3>6. ver.at # "done"
      BY <2>2 DEF Reading
    <3> QED BY <1>2, <2>1, <2>2, <3>2, <3>3, <3>4, <3>5, <3>6
            DEF RaceInv, AlarmMeansRace, AheadReportIsExact, Reported
  <2>3. CASE ~Reading
    <3>1. raced' = raced /\ ver.at # "verdict"
      BY <1>1, <2>1, <2>3 DEF Reading
    <3> QED BY <1>1, <1>2, <2>1, <2>3, <3>1
            DEF RaceInv, AlarmMeansRace, AheadReportIsExact, Reported
  <2> QED BY <2>2, <2>3
<1>4. CASE MachineStops \/ RunbookStep
  <2>1. ver' = NoVerification
    BY <1>4 DEF MachineStops, RunbookStep, RunbookRemove, RunbookAdopt, RunbookNone,
                NextVerification
  <2> QED BY <2>1 DEF RaceInv, Reading, NoVerification, AlarmMeansRace, AheadReportIsExact, Reported
<1>5. CASE ClientStep \/ UNCHANGED serviceVars
  <2>1. UNCHANGED <<ver, raced, anchor, file, marred>>
    BY <1>5 DEF ClientStep, Paging, PageBegin, PageTurn, serviceVars, vars, disk, ghosts, verVars
  <2> QED BY <1>1, <1>2, <2>1 DEF RaceInv, Reading, AlarmMeansRace, AheadReportIsExact, Reported
<1>6. CASE VerifyLog
  <2>1. raced' = FALSE /\ UNCHANGED <<anchor, file>>
    BY <1>6 DEF VerifyLog, vars, disk
  <2>2. CASE Readable(file) /\ Verify(Records(file))
    <3>1. ver'.at = "snapshot" /\ ver'.records = Records(file)
      BY <1>6, <2>2 DEF VerifyLog, NoVerification
    <3>2. CheckAnchor(anchor, Records(file)) \in {"ok", "ahead", "missing"}
      <4>1. Judge(file, anchor) \in {"ok", "ahead", "missing", "malformed"}
        BY <1>1, JudgedFairly DEF NoFalseAlarm
      <4>2. CheckAnchor(anchor, Records(file)) # "malformed"
        <5>1. anchor.state \in {"absent", "sound", "corrupt"} /\ HeadSeq(Records(file)) \in Nat
          BY <1>1, HeadType DEF Anchor
        <5> QED BY <1>1, <5>1 DEF CheckAnchor
      <4> QED BY <2>2, <4>1, <4>2 DEF Judge
    <3>3. /\ Len(Records(file)) = Len(file)
          /\ \A n \in DOMAIN Records(file) : Records(file)[n] = file[n].rec
      BY <1>1, IntactRecords
    <3>4. Len(Records(file)) <= Len(file)
      BY <1>1, <3>3
    <3> QED BY <2>1, <3>1, <3>2, <3>3, <3>4
            DEF RaceInv, Reading, AlarmMeansRace, AheadReportIsExact, Reported
  <2>3. CASE ~(Readable(file) /\ Verify(Records(file)))
    <3>1. ver' = Exit(NoVerification, "malformed") \/ ver' = Exit(NoVerification, "broken")
      BY <1>6, <2>3 DEF VerifyLog
    <3>2. ver'.at = "done" /\ ver'.code # 2 /\ ver'.code # 3
      BY <3>1, VerificationType, ExitAnswers, ExitCodes
    <3> QED BY <3>2 DEF RaceInv, Reading, AlarmMeansRace, AheadReportIsExact, Reported
  <2> QED BY <2>2, <2>3
<1>7. CASE VerifySnapshot
  <2>1. UNCHANGED <<raced, anchor, file>> /\ Reading
    BY <1>7 DEF VerifySnapshot, vars, disk, Reading
  <2>2. CASE anchor.state = "corrupt"
    <3>1. ver'.at = "done" /\ ver'.code # 2 /\ ver'.code # 3
      BY <1>1, <1>7, <2>2, ExitAnswers, ExitCodes DEF VerifySnapshot
    <3> QED BY <3>1 DEF RaceInv, Reading, AlarmMeansRace, AheadReportIsExact, Reported
  <2>3. CASE anchor.state # "corrupt"
    <3> DEFINE excess == IF anchor.state = "sound" /\ HeadSeq(r) > anchor.Seq
                         THEN HeadSeq(r) - anchor.Seq ELSE 0
    <3>1. /\ ver'.at = "verdict" /\ ver'.records = r /\ ver'.ExcessRecords = excess
          /\ ver'.PriorMatchesAnchor = (excess = 1 /\ PriorHash(r) = anchor.RecordHash)
      BY <1>1, <1>7, <2>3 DEF VerifySnapshot, Verification
    <3>2. HeadSeq(r) \in Nat
      BY <1>1, HeadSeqType
    <3>3. anchor.state = "sound" /\ anchor.Seq < HeadSeq(r) => excess = HeadSeq(r) - anchor.Seq
      BY <1>1, <3>2
    <3> HIDE DEF excess
    <3> QED BY <1>2, <2>1, <3>1, <3>3
            DEF RaceInv, Reading, AlarmMeansRace, AheadReportIsExact, Reported
  <2> QED BY <2>2, <2>3
<1>8. CASE VerifyVerdict
  <2>1. /\ UNCHANGED <<raced, anchor, file>> /\ Reading /\ ver.at = "verdict"
        /\ ver'.at = "done" /\ ver'.code = AuditExitCode(CheckAnchor(anchor, r))
        /\ ver'.ExcessRecords = ver.ExcessRecords
        /\ ver'.PriorMatchesAnchor = ver.PriorMatchesAnchor
    <3>1. ver' = Exit(ver, CheckAnchor(anchor, r)) /\ ver.at = "verdict"
      BY <1>8 DEF VerifyVerdict
    <3>2. UNCHANGED <<raced, anchor, file>>
      BY <1>8 DEF VerifyVerdict, vars, disk
    <3> QED BY <1>1, <3>1, <3>2, ExitAnswers DEF Reading
  <2>2. ver'.code = 2 => raced
    <3>1. ver'.code = 2 => CheckAnchor(anchor, r) \in {"truncated", "tampered"}
      BY <2>1, ExitCodes
    <3> QED BY <1>2, <2>1, <3>1
  <2>3. ASSUME CheckAnchor(anchor, r) = "ahead"
        PROVE  /\ ~raced /\ ver.ExcessRecords >= 1
               /\ ver.PriorMatchesAnchor <=> ver.ExcessRecords = 1
    <3>1. HeadSeq(r) = Len(r)
      BY <1>1, <1>2, <2>1, HeadOfAStart
    <3>2. anchor.state = "sound" /\ anchor.Seq < Len(r)
      <4>1. anchor.state \in {"absent", "sound", "corrupt"}
        BY <1>1 DEF Anchor
      <4> QED BY <1>1, <2>3, <3>1, <4>1 DEF CheckAnchor
    <3>3. ~raced /\ ver.ExcessRecords = Len(r) - anchor.Seq
      BY <1>1, <1>2, <2>1, <3>1, <3>2
    <3>4. anchor.Seq \in 1..durable /\ anchor.RecordHash = file[anchor.Seq].rec.RecordHash
      BY <1>1, <3>2, AnchorsNamed DEF IntactInv, NamesItsRecord
    <3>5. ver.ExcessRecords = 1 => PriorHash(r) = anchor.RecordHash
      <4> SUFFICES ASSUME ver.ExcessRecords = 1 PROVE PriorHash(r) = anchor.RecordHash
        OBVIOUS
      <4>1. Len(r) - 1 = anchor.Seq /\ Len(r) > 1 /\ anchor.Seq \in DOMAIN r
        BY <1>1, <3>2, <3>3, <3>4
      <4>2. r[Len(r) - 1].RecordHash = anchor.RecordHash
        BY <1>2, <2>1, <3>4, <4>1
      <4> QED BY <4>1, <4>2 DEF PriorHash
    <3>6. ver.ExcessRecords >= 1
      BY <1>1, <3>2, <3>3
    <3> QED BY <1>2, <2>1, <3>2, <3>3, <3>5, <3>6
  <2> QED BY <1>2, <2>1, <2>2, <2>3, ExitCodes
          DEF RaceInv, Reading, AlarmMeansRace, AheadReportIsExact, Reported
<1> QED BY <1>3, <1>4, <1>5, <1>6, <1>7, <1>8 DEF ServiceNext, VerifyStep, Verifying

---------------------------------------------------------------------------
(* The client that turns pages.                                            *)

\* While nothing is damaged, what is on storage stays.
LEMMA StorageStays ==
    ASSUME TypeOK, LogIInv, [Next]_vars, ~marred'
    PROVE  /\ durable' \in Nat /\ durable <= durable'
           /\ \A i \in 1..durable : file'[i].rec = file[i].rec
<1>1. /\ ~marred /\ file \in Seq(Line) /\ durable \in Nat /\ durable <= Len(file)
      /\ Len(file) \in Nat /\ DOMAIN file = 1..Len(file)
  BY MarredStays DEF TypeOK
<1>2. CASE AppendWrite
  <2>1. PICK l : file' = Append(file, l)
    BY <1>2 DEF AppendWrite
  <2>2. durable' = durable
    BY <1>2 DEF AppendWrite
  <2> QED BY <1>1, <2>1, <2>2
<1>3. CASE AppendSync
  BY <1>1, <1>3 DEF AppendSync
<1>4. CASE PowerLoss
  <2>1. IsStartOf(file', file) /\ Len(file') \in Nat /\ durable <= Len(file')
    BY <1>4, PowerLossKeeps
  <2>2. durable' = Len(file')
    BY <1>4 DEF PowerLoss
  <2>3. \A i \in 1..durable : i \in 1..Len(file')
    BY <1>1, <2>1
  <2> QED BY <2>1, <2>2, <2>3 DEF IsStartOf
<1>5. CASE UNCHANGED <<file, durable>>
  BY <1>1, <1>5
<1> QED BY <1>2, <1>3, <1>4, <1>5
        DEF Next, Service, Operator, Environment, Open, AppendNothing, AppendSyncFails, AnchorWrite,
            AnchorFails, RemoveAnchor, InitAnchor, Crash, LoseTail, DamageAnchor, vars, disk

LEMMA ShownHead ==
    ASSUME NEW records \in Seq(Record), NEW f, NEW d \in Nat, Shown(records, f, d)
    PROVE  HeadSeq(records) \in 0..d
<1>1. records # << >> => Len(records) \in DOMAIN records
  OBVIOUS
<1> QED BY <1>1 DEF Shown, HeadSeq

\* What was shown of the storage was shown of whatever the storage becomes.
LEMMA ShownStays ==
    ASSUME NEW records \in Seq(Record), NEW f \in Seq(Line), NEW g \in Seq(Line),
           NEW d \in Nat, NEW e \in Nat, d <= e, d <= Len(f), Shown(records, f, d),
           \A i \in 1..d : g[i].rec = f[i].rec
    PROVE  Shown(records, g, e)
<1>1. HeadSeq(records) \in 0..d
  BY ShownHead
<1>2. \A k \in DOMAIN records : records[k].Seq \in 1..e /\ records[k] = g[records[k].Seq].rec
  <2>1. \A i \in 1..d : i \in 1..e
    OBVIOUS
  <2> QED BY <2>1 DEF Shown
<1>3. ASSUME NEW i \in DOMAIN g, i <= HeadSeq(records), g[i].rec.RecordHash \in Asked
      PROVE  g[i].rec.RecordHash \in HashesTo(records, Len(records))
  <2>1. i \in 1..d /\ i \in DOMAIN f
    BY <1>1, <1>3
  <2> QED BY <1>3, <2>1 DEF Shown
<1> QED BY <1>2, <1>3 DEF Shown

\* The rows after a cursor: the records of the event, in order, none left out.
LEMMA RowsInOrder ==
    ASSUME TypeOK, IntactInv, ~marred, NEW since \in Nat
    PROVE  LET rows == Rows(Records(file), since)
           IN  /\ rows \in Seq(Record)
               /\ \A k \in DOMAIN rows :
                     /\ rows[k].Seq \in DOMAIN file /\ rows[k] = file[rows[k].Seq].rec
                     /\ rows[k].Seq > since
               /\ \A k, l \in DOMAIN rows : k < l => rows[k].Seq < rows[l].Seq
               /\ \A i \in DOMAIN file : i > since /\ file[i].rec.RecordHash \in Asked
                     => \E k \in DOMAIN rows : rows[k] = file[i].rec /\ rows[k].Seq = i
<1> DEFINE R == Records(file)
           M == Matching(R, since)
           rows == Rows(R, since)
<1>1. /\ DOMAIN file = 1..Len(file) /\ Len(file) \in Nat
      /\ DOMAIN R = DOMAIN file /\ \A n \in DOMAIN file : R[n] = file[n].rec /\ R[n].Seq = n
  BY IntactRecords DEF IntactInv, InPlace
<1>2. R \in Seq(Record)
  BY RecordsType DEF TypeOK
<1>3. /\ M \in SUBSET DOMAIN R /\ IsFiniteSet(M) /\ M \in SUBSET (Nat \ {0})
      /\ rows \in Seq(Record) /\ Len(rows) = Cardinality(M)
      /\ \A k \in DOMAIN rows : Nth(M, k) \in M /\ rows[k] = R[Nth(M, k)]
  BY <1>2, RowsType
<1>4. \A n : n \in M <=> n \in DOMAIN R /\ R[n].Seq > since /\ R[n].RecordHash \in Asked
  BY DEF Matching
<1> HIDE DEF R, M, rows
<1>5. DOMAIN rows = 1..Cardinality(M) /\ Cardinality(M) \in Nat
  BY <1>3
<1>6. \A k \in DOMAIN rows :
          /\ rows[k].Seq = Nth(M, k) /\ rows[k].Seq \in DOMAIN file
          /\ rows[k] = file[rows[k].Seq].rec /\ rows[k].Seq > since
  BY <1>1, <1>3, <1>4
<1>7. ASSUME NEW k \in DOMAIN rows, NEW l \in DOMAIN rows, k < l
      PROVE  rows[k].Seq < rows[l].Seq
  <2>1. Nth(M, k) < Nth(M, l)
    BY <1>3, <1>5, <1>7, NthGrows
  <2> QED BY <1>6, <2>1
<1>8. ASSUME NEW i \in DOMAIN file, i > since, file[i].rec.RecordHash \in Asked
      PROVE  \E k \in DOMAIN rows : rows[k] = file[i].rec /\ rows[k].Seq = i
  <2>1. i \in M
    BY <1>1, <1>4, <1>8
  <2>2. Rank(M, i) \in DOMAIN rows /\ Nth(M, Rank(M, i)) = i
    BY <1>3, <1>5, <2>1, RankOwn, NthOfRank
  <2> QED BY <1>1, <1>3, <1>6, <2>2
<1> QED BY <1>3, <1>6, <1>7, <1>8 DEF rows, R

\* A page adds the first rows to what was shown; the last page, all of them.
LEMMA ShownMore ==
    ASSUME TypeOK, LogIInv, ~marred, durable = Len(file), NEW got \in Seq(Record),
           Shown(got, file, durable), NEW q \in Nat,
           q <= Len(Rows(Records(file), HeadSeq(got)))
    PROVE  LET rows == Rows(Records(file), HeadSeq(got))
               more == got \o SubSeq(rows, 1, q)
           IN  /\ Shown(more, file, durable)
               /\ q > 0 => HeadSeq(more) = rows[q].Seq
               /\ HashesTo(got, Len(got)) \subseteq HashesTo(more, Len(more))
               /\ q = Len(rows) => \A i \in DOMAIN file : file[i].rec.RecordHash \in Asked
                                       => file[i].rec.RecordHash \in HashesTo(more, Len(more))
<1> DEFINE since == HeadSeq(got)
           rows == Rows(Records(file), since)
           fit == SubSeq(rows, 1, q)
           more == got \o fit
<1>1. /\ DOMAIN file = 1..durable /\ durable \in Nat /\ IntactInv
      /\ since \in Nat
  BY IntactRecords, HeadSeqType DEF LogIInv
<1>2. /\ rows \in Seq(Record)
      /\ \A k \in DOMAIN rows :
            /\ rows[k].Seq \in DOMAIN file /\ rows[k] = file[rows[k].Seq].rec
            /\ rows[k].Seq > since
      /\ \A k, l \in DOMAIN rows : k < l => rows[k].Seq < rows[l].Seq
      /\ \A i \in DOMAIN file : i > since /\ file[i].rec.RecordHash \in Asked
            => \E k \in DOMAIN rows : rows[k] = file[i].rec /\ rows[k].Seq = i
  BY <1>1, RowsInOrder
<1>3. /\ \A k \in DOMAIN got : got[k].Seq \in 1..durable /\ got[k] = file[got[k].Seq].rec
      /\ \A k, l \in DOMAIN got : k < l => got[k].Seq < got[l].Seq
      /\ \A i \in DOMAIN file : i <= since /\ file[i].rec.RecordHash \in Asked
            => file[i].rec.RecordHash \in HashesTo(got, Len(got))
  BY DEF Shown
<1>4. got # << >> => since = got[Len(got)].Seq
  BY DEF HeadSeq
<1>5. got = << >> => since = 0
  BY DEF HeadSeq
<1> HIDE DEF since
<1>6. q <= Len(rows)
  BY DEF since
<1> HIDE DEF rows
<1>7. /\ fit \in Seq(Record) /\ Len(fit) = q
      /\ \A k \in 1..q : fit[k] = rows[k] /\ k \in DOMAIN rows
  BY <1>2, <1>6
<1> HIDE DEF fit
<1>8. /\ more \in Seq(Record) /\ Len(more) = Len(got) + q /\ Len(got) \in Nat
      /\ \A k \in 1..Len(got) : more[k] = got[k]
      /\ \A k \in 1..q : more[Len(got) + k] = rows[k]
  BY <1>7
<1> HIDE DEF more
<1> DEFINE g == Len(got)
<1>9. g \in Nat /\ DOMAIN got = 1..g /\ DOMAIN more = 1..(g + q)
  BY <1>8
<1>10. \A k \in 1..(g + q) : k \in 1..g \/ (k - g \in 1..q /\ more[k] = rows[k - g])
  <2> SUFFICES ASSUME NEW k \in 1..(g + q), k \notin 1..g
               PROVE  k - g \in 1..q /\ more[k] = rows[k - g]
    OBVIOUS
  <2>1. k - g \in 1..q /\ g + (k - g) = k
    BY <1>9
  <2> QED BY <1>8, <2>1
<1> HIDE DEF g
<1>11. \A k \in 1..g : more[k] = got[k]
  BY <1>8 DEF g
<1>12. \A k \in 1..g : got[k].Seq \in Nat /\ got[k].Seq <= since
  <2> SUFFICES ASSUME NEW k \in 1..g PROVE got[k].Seq \in Nat /\ got[k].Seq <= since
    OBVIOUS
  <2>1. got # << >> /\ g \in 1..g /\ since = got[g].Seq
    BY <1>4, <1>9 DEF g
  <2>2. k = g \/ k < g
    BY <1>9
  <2>3. k < g => got[k].Seq < got[g].Seq
    BY <1>3, <1>9, <2>1
  <2>4. got[k].Seq \in 1..durable /\ got[g].Seq \in 1..durable
    BY <1>3, <1>9, <2>1
  <2>5. got[k].Seq \in Nat /\ got[g].Seq \in Nat
    BY <1>1, <2>4
  <2> QED BY <2>1, <2>2, <2>3, <2>5
<1>13. ASSUME NEW k \in DOMAIN more
       PROVE  more[k].Seq \in 1..durable /\ more[k] = file[more[k].Seq].rec
  <2>1. CASE k \in 1..g
    BY <1>3, <1>9, <1>11, <2>1
  <2>2. CASE k \notin 1..g
    <3>1. k - g \in DOMAIN rows /\ more[k] = rows[k - g]
      BY <1>7, <1>9, <1>10, <2>2
    <3> QED BY <1>1, <1>2, <3>1
  <2> QED BY <2>1, <2>2
<1>14. ASSUME NEW k \in DOMAIN more, NEW l \in DOMAIN more, k < l
       PROVE  more[k].Seq < more[l].Seq
  <2>1. CASE l \in 1..g
    <3>1. k \in 1..g
      BY <1>9, <1>14, <2>1
    <3> QED BY <1>3, <1>9, <1>11, <1>14, <2>1, <3>1
  <2>2. CASE l \notin 1..g /\ k \in 1..g
    <3>1. /\ l - g \in DOMAIN rows /\ more[l] = rows[l - g]
          /\ more[k] = got[k] /\ got[k].Seq \in Nat /\ got[k].Seq <= since
      BY <1>7, <1>9, <1>10, <1>11, <1>12, <2>2
    <3>2. rows[l - g].Seq > since /\ rows[l - g].Seq \in Nat
      BY <1>1, <1>2, <3>1
    <3> QED BY <1>1, <3>1, <3>2
  <2>3. CASE l \notin 1..g /\ k \notin 1..g
    <3>1. /\ l - g \in DOMAIN rows /\ more[l] = rows[l - g]
          /\ k - g \in DOMAIN rows /\ more[k] = rows[k - g]
      BY <1>7, <1>9, <1>10, <2>3
    <3>2. k - g < l - g
      BY <1>9, <1>14
    <3> QED BY <1>2, <3>1, <3>2
  <2> QED BY <2>1, <2>2, <2>3
<1>15. HashesTo(got, Len(got)) \subseteq HashesTo(more, Len(more))
  <2> SUFFICES ASSUME NEW k \in 1..g PROVE got[k].RecordHash \in HashesTo(more, Len(more))
    BY DEF HashesTo, g
  <2>1. k \in 1..Len(more)
    BY <1>8, <1>9 DEF g
  <2> QED BY <1>11, <2>1 DEF HashesTo
<1>16. \A k \in 1..q : rows[k].RecordHash \in HashesTo(more, Len(more))
  <2> SUFFICES ASSUME NEW k \in 1..q PROVE rows[k].RecordHash \in HashesTo(more, Len(more))
    OBVIOUS
  <2>1. Len(got) + k \in 1..Len(more) /\ more[Len(got) + k] = rows[k]
    BY <1>8
  <2> QED BY <2>1 DEF HashesTo
<1>17. q > 0 => HeadSeq(more) = rows[q].Seq
  <2> SUFFICES ASSUME q > 0 PROVE HeadSeq(more) = rows[q].Seq
    OBVIOUS
  <2>1. q \in 1..q /\ more # << >> /\ Len(more) = Len(got) + q
    BY <1>8
  <2> QED BY <1>8, <2>1 DEF HeadSeq
<1>18. q = 0 => HeadSeq(more) = since
  <2> SUFFICES ASSUME q = 0 PROVE HeadSeq(more) = since
    OBVIOUS
  <2>1. Len(more) = Len(got) /\ (more = << >> <=> got = << >>)
    BY <1>8
  <2>2. got # << >> => more[Len(got)] = got[Len(got)]
    <3>1. got # << >> => Len(got) \in 1..Len(got)
      BY <1>8
    <3> QED BY <1>8, <3>1
  <2> QED BY <1>4, <1>5, <2>1, <2>2 DEF HeadSeq
<1>19. ASSUME NEW i \in DOMAIN file, file[i].rec.RecordHash \in Asked,
              q = Len(rows) \/ i <= HeadSeq(more)
       PROVE  file[i].rec.RecordHash \in HashesTo(more, Len(more))
  <2>1. CASE i <= since
    BY <1>3, <1>15, <1>19, <2>1
  <2>2. CASE i > since
    <3>1. PICK k \in DOMAIN rows : rows[k] = file[i].rec /\ rows[k].Seq = i
      BY <1>2, <1>19, <2>2
    <3>2. DOMAIN rows = 1..Len(rows) /\ Len(rows) \in Nat
      BY <1>2
    <3>3. k <= q
      <4>1. CASE q = Len(rows)
        BY <3>2, <4>1
      <4>2. CASE i <= HeadSeq(more)
        <5>1. i \in Nat
          BY <1>1
        <5>2. q # 0
          BY <1>1, <1>18, <2>2, <4>2, <5>1
        <5>3. q \in DOMAIN rows /\ HeadSeq(more) = rows[q].Seq
          BY <1>6, <1>17, <3>2, <5>2
        <5>4. rows[q].Seq \in Nat
          BY <1>1, <1>2, <5>3
        <5>5. ~(q < k)
          <6>1. q < k => rows[q].Seq < rows[k].Seq
            BY <1>2, <5>3
          <6> QED BY <3>1, <4>2, <5>1, <5>3, <5>4, <6>1
        <5> QED BY <3>2, <5>5
      <4> QED BY <1>19, <4>1, <4>2
    <3> QED BY <1>16, <3>1, <3>2, <3>3
  <2> QED BY <1>1, <2>1, <2>2
<1>20. Shown(more, file, durable)
  BY <1>13, <1>14, <1>19 DEF Shown
<1> QED BY <1>15, <1>17, <1>19, <1>20 DEF more, fit, rows, since

LEMMA PageStart == ServiceInit => PageInv
<1> SUFFICES ASSUME ServiceInit PROVE PageInv
  OBVIOUS
<1>1. page.got = << >> /\ page.due = {} /\ page.at = "done" /\ file = << >>
  BY DEF ServiceInit, Init, NoPage
<1>2. Shown(page.got, file, durable)
  BY <1>1 DEF Shown
<1> QED BY <1>1, <1>2 DEF PageInv

LEMMA PageStep ==
    ASSUME TypeOK, TypeOK', ServiceTypeOK, LogIInv, PageInv, [ServiceNext]_serviceVars
    PROVE  PageInv'
<1> SUFFICES ASSUME ~marred' PROVE PageInv'
  BY DEF PageInv
<1> DEFINE got == page.got
<1>1. /\ ~marred /\ IntactInv /\ [Next]_vars
      /\ file \in Seq(Line) /\ file' \in Seq(Line) /\ Len(file) \in Nat
      /\ durable \in Nat /\ durable <= Len(file)
      /\ page \in Page /\ got \in Seq(Record) /\ page.since \in Nat
      /\ anchor \in anchors /\ anchor \in Anchor
  <2>1. [Next]_vars
    BY ServiceStepIsOfTheLog
  <2>2. ~marred
    BY <2>1, MarredStays
  <2>3. IntactInv
    BY <2>2 DEF LogIInv
  <2>4. file \in Seq(Line) /\ file' \in Seq(Line) /\ durable \in Nat /\ durable <= Len(file)
    BY DEF TypeOK
  <2>5. anchor \in anchors /\ anchor \in Anchor
    BY DEF TypeOK
  <2>6. page \in Page
    BY DEF ServiceTypeOK
  <2>7. got \in Seq(Record) /\ page.since \in Nat
    BY <2>6 DEF Page
  <2> QED BY <2>1, <2>2, <2>3, <2>4, <2>5, <2>6, <2>7
<1>2. /\ Shown(got, file, durable)
      /\ \A h \in page.due : h \in Asked /\ OnStorage(h, file, durable)
      /\ page.at = "turning" => page.since = HeadSeq(got)
      /\ page.at = "done" => page.due \subseteq Seen
  BY <1>1 DEF PageInv
<1>3. CASE UNCHANGED page
  <2>1. /\ durable' \in Nat /\ durable <= durable'
        /\ \A i \in 1..durable : file'[i].rec = file[i].rec
    BY <1>1, StorageStays
  <2>2. Shown(got, file', durable')
    BY <1>1, <1>2, <2>1, ShownStays
  <2>3. \A h \in page.due : OnStorage(h, file', durable')
    <3> SUFFICES ASSUME NEW h \in page.due PROVE OnStorage(h, file', durable')
      OBVIOUS
    <3>1. PICK i \in 1..durable : file[i].rec.RecordHash = h
      BY <1>2 DEF OnStorage
    <3>2. i \in 1..durable' /\ file'[i].rec.RecordHash = h
      BY <1>1, <2>1, <3>1
    <3> QED BY <3>2 DEF OnStorage
  <2> QED BY <1>2, <1>3, <2>2, <2>3 DEF PageInv, Seen
<1>4. CASE PageBegin
  <2>1. UNCHANGED <<file, durable>>
    BY <1>4 DEF PageBegin, vars, disk
  <2>2. page' = [page EXCEPT !.at = "turning", !.since = HeadSeq(got), !.due = trusted \cap Asked]
    BY <1>4 DEF PageBegin
  <2>3. page'.at = "turning" /\ page'.since = HeadSeq(got) /\ page'.got = got
        /\ page'.due = trusted \cap Asked
    BY <1>1, <2>2 DEF Page
  <2>4. \A h \in trusted : OnStorage(h, file, durable)
    <3> SUFFICES ASSUME NEW h \in trusted PROVE OnStorage(h, file, durable)
      OBVIOUS
    <3>1. NamesItsRecord(anchor, file, durable) /\ ComesAfter(anchor, file, trusted)
      BY <1>1 DEF IntactInv
    <3>2. anchor.Seq \in 0..durable
      BY <1>1, <3>1, AnchorsNamed DEF NamesItsRecord
    <3>3. PICK i \in 1..anchor.Seq : file[i].rec.RecordHash = h
      BY <3>1 DEF ComesAfter
    <3>4. i \in 1..durable
      BY <1>1, <3>2, <3>3
    <3> QED BY <3>3, <3>4 DEF OnStorage
  <2> QED BY <1>2, <2>1, <2>3, <2>4 DEF PageInv
<1>5. CASE \E limit \in Limits : PageTurn(limit)
  <2>1. PICK limit \in Limits : PageTurn(limit)
    BY <1>5
  <2> DEFINE rows == Rows(Records(file), HeadSeq(got))
             next == NextSince(rows, limit)
             q == IF next = 0 THEN Len(rows) ELSE limit
             more == got \o SubSeq(rows, 1, q)
  <2>2. /\ page.at = "turning" /\ log.open /\ pc = "ready" /\ UNCHANGED <<file, durable>>
        /\ page.since = HeadSeq(got) /\ HeadSeq(got) \in Nat
    BY <1>1, <1>2, <2>1, HeadSeqType DEF PageTurn, Unlocked, vars, disk
  <2>3. page' = [page EXCEPT !.at = IF next = 0 THEN "done" ELSE "turning",
                             !.since = next, !.got = more]
    BY <2>1, <2>2 DEF PageTurn
  <2>4. durable = Len(file)
    BY <1>1, <2>2 DEF IntactInv
  <2>5. /\ rows \in Seq(Record)
        /\ \A k \in DOMAIN rows : rows[k].Seq > HeadSeq(got) /\ rows[k].Seq \in DOMAIN file
    BY <1>1, <2>2, RowsInOrder
  <2>6. limit \in Nat /\ limit >= 1
    BY PagingAssumption
  <2>7. \/ next = 0 /\ q = Len(rows)
        \/ next # 0 /\ q = limit /\ q <= Len(rows) /\ next = rows[q].Seq
    <3> HIDE DEF rows
    <3>1. CASE Len(rows) > limit
      <4>1. limit \in DOMAIN rows /\ rows[limit].Seq # 0
        BY <2>2, <2>5, <2>6, <3>1
      <4> QED BY <2>5, <2>6, <3>1, <4>1 DEF NextSince
    <3>2. CASE ~(Len(rows) > limit)
      BY <3>2 DEF NextSince
    <3> QED BY <3>1, <3>2
  <2>8. q \in Nat /\ q <= Len(rows)
    BY <2>5, <2>6, <2>7
  <2> HIDE DEF q, next
  <2>9. /\ Shown(more, file, durable)
        /\ q > 0 => HeadSeq(more) = rows[q].Seq
        /\ HashesTo(got, Len(got)) \subseteq HashesTo(more, Len(more))
        /\ q = Len(rows) => \A i \in DOMAIN file : file[i].rec.RecordHash \in Asked
                                => file[i].rec.RecordHash \in HashesTo(more, Len(more))
    BY <1>1, <1>2, <2>4, <2>8, ShownMore
  <2> HIDE DEF rows
  <2>10. more \in Seq(Record)
    BY <1>1, <2>5, <2>8
  <2> HIDE DEF more
  <2>11. /\ page'.at = (IF next = 0 THEN "done" ELSE "turning") /\ page'.since = next
         /\ page'.got = more /\ page'.due = page.due
    BY <1>1, <2>3 DEF Page
  <2>12. next # 0 => page'.since = HeadSeq(more)
    BY <2>6, <2>7, <2>9, <2>11
  <2>13. next = 0 => page.due \subseteq HashesTo(more, Len(more))
    <3> SUFFICES ASSUME next = 0, NEW h \in page.due PROVE h \in HashesTo(more, Len(more))
      OBVIOUS
    <3>1. PICK i \in 1..durable : file[i].rec.RecordHash = h
      BY <1>2 DEF OnStorage
    <3>2. i \in DOMAIN file /\ h \in Asked
      BY <1>1, <1>2, <2>4
    <3> QED BY <2>7, <2>9, <3>1, <3>2
  <2>14. Seen' = HashesTo(more, Len(more))
    <3>1. Seen' = {more[k].RecordHash : k \in DOMAIN more}
      BY <2>11 DEF Seen
    <3>2. DOMAIN more = 1..Len(more)
      BY <2>10
    <3> QED BY <3>1, <3>2 DEF HashesTo
  <2> QED BY <1>2, <2>2, <2>9, <2>11, <2>12, <2>13, <2>14 DEF PageInv
<1>6. UNCHANGED page \/ PageBegin \/ \E limit \in Limits : PageTurn(limit)
  BY DEF ServiceNext, LogStep, MachineStops, ClientStep, Paging, VerifyStep, RunbookStep, serviceVars
<1> QED BY <1>3, <1>4, <1>5, <1>6

---------------------------------------------------------------------------
(* The results.                                                            *)

\* What holds of the readers between any two steps holds of every log, with any
\* faults, page sizes and events.
THEOREM ServiceInvariantHolds == ServiceSpec => []ServiceIInv
<1>1. ServiceInit => ServiceIInv
  BY SnapshotStart, RaceStart, PageStart DEF ServiceIInv
<1>2. /\ TypeOK /\ TypeOK' /\ ServiceTypeOK /\ LogIInv /\ ServiceIInv /\ [ServiceNext]_serviceVars
      => ServiceIInv'
  BY SnapshotStep, RaceStep, PageStep DEF ServiceIInv
<1> QED BY <1>1, <1>2, ServiceRunsTheLog, TypeCorrect, LogInvariantHolds, ServiceTypeCorrect, PTL
        DEF ServiceSpec

\* The operator who is told that the log is in order is told the truth: it holds
\* all that was trusted when it was read, although the anchor it was compared
\* with may be of a later moment.
THEOREM ReportOfZeroIsTrue == ServiceSpec => []CleanReportIsTrue
<1>1. ServiceIInv => CleanReportIsTrue
  BY DEF ServiceIInv, SnapshotInv
<1> QED BY <1>1, ServiceInvariantHolds, PTL

\* A log nobody damaged is reported truncated or tampered with only where its
\* anchor moved under the command.
THEOREM AlarmsMeanARace == ServiceSpec => []AlarmMeansRace
<1>1. ServiceIInv => AlarmMeansRace
  BY DEF ServiceIInv, RaceInv, AlarmMeansRace
<1> QED BY <1>1, ServiceInvariantHolds, PTL

\* A log reported ahead of its anchor is ahead by as many records as the report
\* says, and the anchor is the last but one exactly when it says so.
THEOREM AheadReportsAreExact == ServiceSpec => []AheadReportIsExact
<1>1. ServiceIInv => AheadReportIsExact
  BY DEF ServiceIInv, RaceInv, AheadReportIsExact
<1> QED BY <1>1, ServiceInvariantHolds, PTL

\* The client with no further cursor has, in order and once each, the records of
\* its event that were trusted when it began.
THEOREM PagesAreAlwaysComplete == ServiceSpec => []PagesAreComplete
<1>1. TypeOK /\ ServiceTypeOK /\ LogIInv /\ ServiceIInv => PagesAreComplete
  <2> SUFFICES ASSUME TypeOK, ServiceTypeOK, LogIInv, PageInv, ~marred
               PROVE  /\ page.at = "done" => page.due \subseteq Seen
                      /\ \A i, j \in DOMAIN page.got :
                            i < j => page.got[i].RecordHash < page.got[j].RecordHash
    BY DEF PagesAreComplete, ServiceIInv
  <2>1. Shown(page.got, file, durable) /\ (page.at = "done" => page.due \subseteq Seen)
    BY DEF PageInv
  <2>2. /\ durable <= Len(file) /\ DOMAIN file = 1..Len(file) /\ Len(file) \in Nat
        /\ durable \in Nat
        /\ \A i, j \in DOMAIN file : i < j => file[i].rec.RecordHash < file[j].rec.RecordHash
    BY DEF TypeOK, LogIInv, FileInv, HashesInOrder
  <2>3. ASSUME NEW i \in DOMAIN page.got, NEW j \in DOMAIN page.got, i < j
        PROVE  page.got[i].RecordHash < page.got[j].RecordHash
    <3>1. /\ page.got[i].Seq \in 1..durable /\ page.got[i] = file[page.got[i].Seq].rec
          /\ page.got[j].Seq \in 1..durable /\ page.got[j] = file[page.got[j].Seq].rec
          /\ page.got[i].Seq < page.got[j].Seq
      BY <2>1, <2>3 DEF Shown
    <3>2. page.got[i].Seq \in DOMAIN file /\ page.got[j].Seq \in DOMAIN file
      BY <2>2, <3>1
    <3> QED BY <2>2, <3>1, <3>2
  <2> QED BY <2>1, <2>3
<1> QED BY <1>1, ServiceRunsTheLog, TypeCorrect, LogInvariantHolds, ServiceTypeCorrect,
           ServiceInvariantHolds, PTL

\* No crash and no power loss takes back a record that a client was shown.
THEOREM WhatWasSeenStays == ServiceSpec => []SeenStays
<1>1. TypeOK /\ LogIInv /\ ServiceIInv => SeenStays
  <2> SUFFICES ASSUME TypeOK, LogIInv, PageInv, ~marred, NEW k \in DOMAIN page.got
               PROVE  page.got[k].RecordHash \in Hashes(file)
    BY DEF SeenStays, Seen, ServiceIInv
  <2>1. page.got[k].Seq \in 1..durable /\ page.got[k] = file[page.got[k].Seq].rec
    BY DEF PageInv, Shown
  <2>2. /\ durable <= Len(file) /\ durable \in Nat /\ Len(file) \in Nat
        /\ DOMAIN file = 1..Len(file) /\ DOMAIN Records(file) = DOMAIN file
        /\ \A n \in DOMAIN file : Records(file)[n] = file[n].rec
    BY IntactRecords DEF TypeOK, LogIInv
  <2>3. page.got[k].Seq \in DOMAIN file
    BY <2>1, <2>2
  <2> QED BY <2>1, <2>2, <2>3 DEF Hashes
<1> QED BY <1>1, ServiceRunsTheLog, TypeCorrect, LogInvariantHolds, ServiceInvariantHolds, PTL

=============================================================================
