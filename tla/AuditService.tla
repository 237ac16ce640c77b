---------------------------- MODULE AuditService ----------------------------
(***************************************************************************)
(* The audit log with those who read it beside the writer: a client that   *)
(* pages through it and an operator who verifies it and, when the service  *)
(* does not start, follows the runbook.                                    *)
(***************************************************************************)
EXTENDS AuditPaging, AuditVerify

serviceVars == <<vars, page, verVars>>

ServiceInit ==
    /\ Init
    /\ page = NoPage
    /\ ver = NoVerification /\ due = {} /\ raced = FALSE

\* The service and the files move; the client and the operator's command, when it
\* is not cut off with its machine, keep what they have.
LogStep ==
    /\ Service \/ Crash \/ LoseTail \/ DamageAnchor
    /\ raced' = (raced \/ (ver.at \in {"snapshot", "verdict"} /\ anchor' # anchor))
    /\ UNCHANGED <<page, ver, due>>

MachineStops ==
    /\ PowerLoss
    /\ ver' = NoVerification /\ due' = {} /\ raced' = FALSE
    /\ UNCHANGED page

ClientStep == Paging /\ UNCHANGED verVars

VerifyStep == Verifying /\ UNCHANGED page

RunbookStep == (RunbookRemove \/ RunbookAdopt \/ RunbookNone) /\ UNCHANGED page

ServiceNext ==
    LogStep \/ MachineStops \/ ClientStep \/ VerifyStep \/ RunbookStep

ServiceSpec == ServiceInit /\ [][ServiceNext]_serviceVars

\* The operator keeps at it while the service is down: verifies, follows the
\* runbook, and the supervisor starts the service again.
FairServiceSpec ==
    /\ ServiceSpec
    /\ WF_serviceVars(LogStep /\ Open)
    /\ WF_serviceVars(~log.open /\ VerifyStep)
    /\ WF_serviceVars(RunbookStep)

\* The files are in order, without an anchor, or one record ahead of it in the way
\* an append that was cut off leaves them.
Recoverable ==
    \/ Judge(file, anchor) \in {"ok", "missing"}
    \/ /\ Judge(file, anchor) = "ahead"
       /\ HeadSeq(Records(file)) = anchor.Seq + 1
       /\ PriorHash(Records(file)) = anchor.RecordHash

\* Following the exit codes brings the service back: a log that is down for any
\* of the causes the runbook has a way out of opens again, unless it is damaged
\* once more, with no step that needs a --force (SECURITY.md, steps 1 to 4).  It has
\* none for a corrupt anchor and for any other excess.
RunbookBringsBack == (~log.open /\ Recoverable) ~> (log.open \/ ~Recoverable)
=============================================================================
