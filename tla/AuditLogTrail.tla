--------------------------- MODULE AuditLogTrail ----------------------------
(***************************************************************************)
(* The refinement mapping from AuditLog to AuditTrail.                     *)
(***************************************************************************)
EXTENDS AuditLog

\* The first n lines can be read.
ReadableTo(f, n) == \A i \in LineStarts(f) : LineOf(f, i) <= n => f[i].form # "torn"

\* The hashes of the records before the first line that is torn.
Legible(f) ==
    [n \in {m \in DOMAIN Records(f) : ReadableTo(f, m)} |-> Records(f)[n].RecordHash]

\* An entry is a record a reader finds, by its hash; an acknowledged one is one
\* whose anchor is on storage.
Trail == INSTANCE AuditTrail
    WITH trail   <- Legible(file),
         acked   <- trusted,
         serving <- log.open,
         intact  <- ~marred

\* The file, its anchor and the recovery from each stop keep the promise of an
\* append-only trail: entries only ever follow each other, a stop costs none that
\* was acknowledged, and no process starts where one is missing (log.go, Append
\* and Open; anchor.go, writeAnchor and checkAnchor).
ImplementsTrail == Trail!Spec
=============================================================================
