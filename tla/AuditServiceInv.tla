-------------------------- MODULE AuditServiceInv ---------------------------
(***************************************************************************)
(* The inductive invariants of AuditService: what holds of a command that  *)
(* has read the log and not yet its anchor, and of a client between pages. *)
(***************************************************************************)
EXTENDS AuditService, AuditLogInv

ServiceTypeOK ==
    /\ page \in Page
    /\ ver \in Verification /\ due \subseteq Nat /\ raced \in BOOLEAN

\* The command has read the log and has still to read the anchor.
Reading == ver.at \in {"snapshot", "verdict"}

\* Whatever happens to the log meanwhile, the anchor that is read later stands for
\* everything that was trusted when the log was read.
SnapshotInv ==
    /\ Reading =>
          /\ Verify(ver.records)
          /\ \A n \in DOMAIN ver.records :
                ver.records[n].Seq >= 1 /\ ver.records[n].RecordHash \in 1..appends
          /\ \A a \in anchors : a.state # "corrupt" => Covers(ver.records, due, a.RecordHash)
          /\ log.open => Covers(ver.records, due, log.prev)
          /\ pc = "sync" =>
                \A n \in DOMAIN ver.records : ver.records[n].RecordHash = appends
                    => ver.records[n].PrevRecordHash = log.prev
    /\ CleanReportIsTrue

\* Of undamaged files, what was read is where the file begins, and the anchor is
\* either the one of that moment or one that came after all that was read.
RaceInv ==
    ~marred =>
        /\ Reading =>
              /\ Len(ver.records) <= Len(file)
              /\ \A n \in DOMAIN ver.records : ver.records[n] = file[n].rec
              /\ raced => anchor.state = "sound" /\ anchor.Seq >= Len(ver.records)
              /\ ~raced => CheckAnchor(anchor, ver.records) \in {"ok", "ahead", "missing"}
        /\ ver.at = "verdict" /\ ~raced /\ anchor.state = "sound" =>
              /\ anchor.Seq < HeadSeq(ver.records)
                    => ver.ExcessRecords = HeadSeq(ver.records) - anchor.Seq
              /\ ver.PriorMatchesAnchor <=>
                    ver.ExcessRecords = 1 /\ PriorHash(ver.records) = anchor.RecordHash
        /\ AlarmMeansRace /\ AheadReportIsExact

\* Records of the first d of the file, in order, every one of the event up to the
\* last of them.
Shown(records, f, d) ==
    /\ \A k \in DOMAIN records :
          records[k].Seq \in 1..d /\ records[k] = f[records[k].Seq].rec
    /\ \A k, l \in DOMAIN records : k < l => records[k].Seq < records[l].Seq
    /\ \A i \in DOMAIN f :
          i <= HeadSeq(records) /\ f[i].rec.RecordHash \in Asked
              => f[i].rec.RecordHash \in HashesTo(records, Len(records))

OnStorage(h, f, d) == \E i \in 1..d : f[i].rec.RecordHash = h

\* Of undamaged files, the client was shown records that are on storage, with
\* none left out; those it is owed are on storage.
PageInv ==
    ~marred =>
        /\ Shown(page.got, file, durable)
        /\ \A h \in page.due : h \in Asked /\ OnStorage(h, file, durable)
        /\ page.at = "turning" => page.since = HeadSeq(page.got)
        /\ page.at = "done" => page.due \subseteq Seen

ServiceIInv == SnapshotInv /\ RaceInv /\ PageInv
=============================================================================
