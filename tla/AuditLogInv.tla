---------------------------- MODULE AuditLogInv -----------------------------
(***************************************************************************)
(* The inductive invariants of AuditLog: what holds of the file, the       *)
(* anchors and the writer between any two steps, damage or no damage, and  *)
(* what holds as long as nobody but the log has touched its files.         *)
(***************************************************************************)
EXTENDS AuditLogTrail

\* The hashes number calls of Append, no more than n, in the order of the file.
HashesInOrder(f, n) ==
    /\ \A i \in DOMAIN f : f[i].rec.Seq >= 1 /\ f[i].rec.RecordHash \in 1..n
    /\ \A i, j \in DOMAIN f : i < j => f[i].rec.RecordHash < f[j].rec.RecordHash

KnownHash(a, n) ==
    /\ a.RecordHash <= n
    /\ a.Seq = 0 \/ a.state # "sound" => a.RecordHash = GenesisPrevHash

\* The writer and the anchors name no record that is still to come.  A line that
\* waits for its sync is chained onto the head.
FileInv ==
    /\ HashesInOrder(file, appends)
    /\ \A a \in anchors : KnownHash(a, appends)
    /\ log.prev <= appends
    /\ pc # "ready" => log.open
    /\ pc = "sync" =>
          /\ appends >= 1
          /\ \A i \in DOMAIN file : file[i].rec.RecordHash = appends
                => file[i].rec.PrevRecordHash = log.prev
    /\ pc = "anchor" => log.seq >= 1 /\ log.prev >= 1

Chained(records, n) == \A i \in 1..n : Linked(records, i)
HashesTo(records, n) == {records[m].RecordHash : m \in 1..n}

\* Whoever finds the record of this hash at the end of a chain that verifies finds
\* what is trusted.
Covers(records, hashes, hash) ==
    /\ hash = GenesisPrevHash => hashes = {}
    /\ \A n \in DOMAIN records :
          records[n].RecordHash = hash /\ Chained(records, n) => hashes \subseteq HashesTo(records, n)

\* So do the anchor, those a power loss may bring back, and the writer's head:
\* whatever was lost or written since, what a head stands for is in its chain.
TrustInv ==
    /\ \A a \in anchors : a.state # "corrupt" => Covers(Records(file), trusted, a.RecordHash)
    /\ log.open => Covers(Records(file), trusted, log.prev)

\* The file is the chain of the records.
InPlace(f) ==
    \A i \in DOMAIN f :
        /\ f[i].rec.Seq = i
        /\ f[i].rec.PrevRecordHash = IF i = 1 THEN GenesisPrevHash ELSE f[i - 1].rec.RecordHash

\* An anchor that names one of the first d of them, and none before anything
\* trusted.  Of a line that is not whole there is no anchor yet.
NamesItsRecord(a, f, d) ==
    a = NoAnchor \/ (a.state = "sound" /\ a.Seq \in 1..d /\ a.RecordHash = f[a.Seq].rec.RecordHash)

ComesAfter(a, f, hashes) == \A h \in hashes : \E i \in 1..a.Seq : f[i].rec.RecordHash = h

EndsWhole(f) == f # << >> => f[Len(f)].form = "whole"

\* Undamaged, the file is the chain of the records, whole but for the end that a
\* power loss may have left; each anchor names one of them, on storage and not
\* before anything trusted; the writer stands at the end.
IntactInv ==
    ~marred =>
        /\ InPlace(file)
        /\ \A i \in DOMAIN file : i < Len(file) => file[i].form = "whole"
        /\ \A a \in anchors : /\ NamesItsRecord(a, file, durable)
                              /\ ComesAfter(a, file, trusted)
                              /\ EndsWhole(file) \/ a.Seq < Len(file)
        /\ log.open =>
              /\ EndsWhole(file)
              /\ log.seq = (IF pc = "sync" THEN Len(file) - 1 ELSE Len(file))
              /\ log.prev = IF log.seq = 0 THEN GenesisPrevHash ELSE file[log.seq].rec.RecordHash
        /\ log.open /\ pc # "sync" => durable = Len(file)
        /\ pc = "sync" => file # << >> /\ file[Len(file)].rec.RecordHash = appends

LogIInv == FileInv /\ TrustInv /\ IntactInv
=============================================================================
