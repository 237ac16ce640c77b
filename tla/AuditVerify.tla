---------------------------- MODULE AuditVerify -----------------------------
(***************************************************************************)
(* The operator's side of the audit log (cmd/juridical/audit.go over       *)
(* audit.InspectAnchor and InitAnchor): `juridical audit verify`, which    *)
(* reads the log and then the anchor, twice, with no lock, while the       *)
(* service may be appending; and what the runbook of SECURITY.md has the   *)
(* operator do with its exit code.                                         *)
(***************************************************************************)
EXTENDS AuditLog

VARIABLES
    ver,      \* the command: where it is, what it has read, its report
    due,      \* the hashes that were trusted when it read the log
    raced     \* has an anchor been written since?

verVars == <<ver, due, raced>>

\* The exit codes; "at" says what the command does next.
Verification ==
    [at: {"idle", "snapshot", "verdict", "done"}, records: Seq(Record),
     code: 0..5, ExcessRecords: Nat, PriorMatchesAnchor: BOOLEAN]

NoVerification ==
    [at |-> "idle", records |-> << >>, code |-> 0,
     ExcessRecords |-> 0, PriorMatchesAnchor |-> FALSE]

\* Fault: a log ahead of its anchor reported like one that is behind it.
AuditExitCodeCoarse(verdict) ==
    CASE verdict = "ok" -> 0
      [] verdict \in {"truncated", "tampered", "ahead"} -> 2
      [] verdict = "missing" -> 4
      [] verdict = "corrupt" -> 5
      [] OTHER -> 1

\* audit.go: the exit code for each of the sentinels.
AuditExitCode(verdict) ==
    CASE verdict = "ok" -> 0
      [] verdict \in {"truncated", "tampered"} -> 2
      [] verdict = "ahead" -> 3
      [] verdict = "missing" -> 4
      [] verdict = "corrupt" -> 5
      [] OTHER -> 1

Exit(v, verdict) == [v EXCEPT !.at = "done", !.code = AuditExitCode(verdict)]

\* The hash before the head, or none.
PriorHash(records) ==
    IF Len(records) > 1 THEN records[Len(records) - 1].RecordHash ELSE GenesisPrevHash

\* InspectAnchor reads and verifies the log.
VerifyLog ==
    /\ ver.at = "idle"
    /\ ver' = IF ~Readable(file) THEN Exit(NoVerification, "malformed")
              ELSE IF ~Verify(Records(file)) THEN Exit(NoVerification, "broken")
              ELSE [NoVerification EXCEPT !.at = "snapshot", !.records = Records(file)]
    /\ due' = trusted /\ raced' = FALSE
    /\ UNCHANGED vars

\* Fault: the head's hash compared with the anchor's, not the one before it.
VerifySnapshotHead ==
    LET excess == IF HeadSeq(ver.records) > anchor.Seq
                  THEN HeadSeq(ver.records) - anchor.Seq ELSE 0
    IN  /\ ver.at = "snapshot"
        /\ ver' = [ver EXCEPT !.at = "verdict", !.ExcessRecords = excess,
                              !.PriorMatchesAnchor =
                                 excess = 1 /\ HeadHash(ver.records) = anchor.RecordHash]
        /\ UNCHANGED <<vars, due, raced>>

\* It reads the anchor for the report.
VerifySnapshot ==
    LET excess == IF anchor.state = "sound" /\ HeadSeq(ver.records) > anchor.Seq
                  THEN HeadSeq(ver.records) - anchor.Seq ELSE 0
    IN  /\ ver.at = "snapshot"
        /\ ver' = IF anchor.state = "corrupt" THEN Exit(ver, "corrupt")
                  ELSE [ver EXCEPT !.at = "verdict", !.ExcessRecords = excess,
                                   !.PriorMatchesAnchor =
                                      excess = 1 /\ PriorHash(ver.records) = anchor.RecordHash]
        /\ UNCHANGED <<vars, due, raced>>

\* checkAnchor reads it again for the verdict.
VerifyVerdict ==
    /\ ver.at = "verdict"
    /\ ver' = Exit(ver, CheckAnchor(anchor, ver.records))
    /\ UNCHANGED <<vars, due, raced>>

NextVerification == ver' = NoVerification /\ due' = {} /\ raced' = FALSE

\* Step 3 of the runbook is for code 4, and for code 3 once the operator has
\* satisfied himself that the trailing record is genuine: he does where the report
\* has the signature of one append that was cut off, and where it has not he treats
\* it as an incident.  Code 5 is to be inspected; no step leads out of it.
MayReplace ==
    /\ ver.code = 3 /\ ver.ExcessRecords = 1 /\ ver.PriorMatchesAnchor
    /\ anchor.state # "absent"
MayAdopt == ver.code = 4 /\ Adoptable

\* With the service stopped, an anchor that must be replaced is removed first, by
\* hand.
RunbookRemove ==
    /\ ver.at = "done" /\ MayReplace
    /\ RemoveAnchor
    /\ NextVerification

\* `juridical audit adopt-anchor`.
RunbookAdopt ==
    /\ ver.at = "done" /\ MayAdopt
    /\ InitAnchor
    /\ NextVerification

\* The operator has no step to take: the service runs, the code asks for none, or
\* the files are no longer those of the report and the step is refused.
RunbookNone ==
    /\ ver.at = "done"
    /\ log.open \/ ~(MayReplace \/ MayAdopt)
    /\ NextVerification
    /\ UNCHANGED vars

Verifying == VerifyLog \/ VerifySnapshot \/ VerifyVerdict

---------------------------------------------------------------------------
Reported(code) == ver.at = "done" /\ ver.code = code

\* A clean report is true: whatever was appended, lost or replaced while the
\* command ran, exit code 0 means that what it read holds every record that was
\* trusted when it read (audit.go: "chain and anchor agree").
CleanReportIsTrue ==
    Reported(0) => due \subseteq {ver.records[n].RecordHash : n \in DOMAIN ver.records}

\* Exit code 2, which the runbook calls an incident, is given on undamaged files
\* only if the service wrote an anchor while the command ran: never for what
\* crashes, power losses and failed appends leave of a log at rest.
AlarmMeansRace == ~marred /\ Reported(2) => raced

\* A report of a log ahead of its anchor is exact although the anchor is read
\* twice: the excess it shows is that of the anchor the verdict was given on,
\* and on undamaged files an excess of one always bears the signature of a crash
\* that the operator is to look for (anchor.go, case 8; SECURITY.md, exit code 3).
AheadReportIsExact ==
    ~marred /\ Reported(3) =>
        /\ ~raced
        /\ ver.ExcessRecords >= 1
        /\ ver.PriorMatchesAnchor <=> ver.ExcessRecords = 1

=============================================================================
