--------------------------- MODULE AuditLogProofs ---------------------------
(***************************************************************************)
(* Of the audit log on disk, for every value of the constants: a log that  *)
(* opens holds what it acknowledged, and a log nobody touched is never     *)
(* taken for truncated, tampered or broken.                                *)
(***************************************************************************)
EXTENDS AuditLogInv, FiniteSetTheorems, SequenceTheorems, WellFoundedInduction, TLAPS

---------------------------------------------------------------------------
(* Places in order.                                                        *)

UpTo(S, i) == {j \in S : j <= i}

LEMMA RankType ==
    ASSUME NEW S \in SUBSET (Nat \ {0}), IsFiniteSet(S), NEW i
    PROVE  /\ UpTo(S, i) \in SUBSET S /\ IsFiniteSet(UpTo(S, i))
           /\ Rank(S, i) = Cardinality(UpTo(S, i))
           /\ Cardinality(S) \in Nat /\ Rank(S, i) \in 0..Cardinality(S)
<1>1. UpTo(S, i) \in SUBSET S /\ Rank(S, i) = Cardinality(UpTo(S, i))
  BY DEF UpTo, Rank
<1>2. IsFiniteSet(UpTo(S, i)) /\ Cardinality(UpTo(S, i)) <= Cardinality(S)
  BY <1>1, FS_Subset
<1>3. Cardinality(UpTo(S, i)) \in Nat /\ Cardinality(S) \in Nat
  BY <1>2, FS_CardinalityType
<1> QED BY <1>1, <1>2, <1>3

LEMMA RankGrows ==
    ASSUME NEW S \in SUBSET (Nat \ {0}), IsFiniteSet(S), NEW i \in Nat, NEW j \in S, i < j
    PROVE  Rank(S, i) < Rank(S, j)
<1>1. UpTo(S, i) \in SUBSET UpTo(S, j) /\ UpTo(S, i) # UpTo(S, j)
  <2>1. j \in UpTo(S, j) /\ j \notin UpTo(S, i)
    BY DEF UpTo
  <2>2. \A k \in UpTo(S, i) : k \in UpTo(S, j)
    BY DEF UpTo
  <2> QED BY <2>1, <2>2
<1>2. /\ Cardinality(UpTo(S, i)) <= Cardinality(UpTo(S, j))
      /\ Cardinality(UpTo(S, i)) # Cardinality(UpTo(S, j))
  BY <1>1, RankType, FS_Subset
<1> QED BY <1>2, RankType

\* Each place has a rank of its own.
LEMMA RankOwn ==
    ASSUME NEW S \in SUBSET (Nat \ {0}), IsFiniteSet(S), NEW i \in S
    PROVE  /\ Rank(S, i) \in 1..Cardinality(S)
           /\ \A j \in S : Rank(S, j) = Rank(S, i) => j = i
<1>1. i \in Nat /\ 0 < i
  OBVIOUS
<1>2. Rank(S, 0) < Rank(S, i)
  BY <1>1, RankGrows
<1>3. ASSUME NEW j \in S, j # i PROVE Rank(S, j) # Rank(S, i)
  <2>1. i < j \/ j < i
    BY <1>3
  <2>2. Rank(S, i) < Rank(S, j) \/ Rank(S, j) < Rank(S, i)
    BY <2>1, RankGrows
  <2> QED BY <2>2, RankType
<1> QED BY <1>2, <1>3, RankType

\* Every rank is that of one place.
LEMMA NthRank ==
    ASSUME NEW S \in SUBSET (Nat \ {0}), IsFiniteSet(S), NEW n \in 1..Cardinality(S)
    PROVE  Nth(S, n) \in S /\ Rank(S, Nth(S, n)) = n
<1> DEFINE T == 1..Cardinality(S)
           number == [i \in S |-> Rank(S, i)]
<1>1. number \in [S -> T] /\ \A i, j \in S : number[i] = number[j] => i = j
  BY RankOwn
<1>2. IsFiniteSet(T) /\ Cardinality(T) = Cardinality(S)
  <2>1. Cardinality(S) \in Nat
    BY FS_CardinalityType
  <2> QED BY <2>1, FS_Interval
<1>3. number \in Surjection(S, T)
  <2> HIDE DEF T, number
  <2>1. number \in Injection(S, T)
    BY <1>1 DEF Injection, IsInjective
  <2> QED BY <1>2, <2>1, FS_Injection
<1>4. \E i \in S : number[i] = n
  BY <1>3 DEF Surjection
<1>5. \E i \in S : Rank(S, i) = n
  BY <1>4
<1> QED BY <1>5 DEF Nth

LEMMA NthOfRank ==
    ASSUME NEW S \in SUBSET (Nat \ {0}), IsFiniteSet(S), NEW i \in S
    PROVE  Nth(S, Rank(S, i)) = i
<1>1. Rank(S, i) \in 1..Cardinality(S)
  BY RankOwn
<1>2. Nth(S, Rank(S, i)) \in S /\ Rank(S, Nth(S, Rank(S, i))) = Rank(S, i)
  BY <1>1, NthRank
<1> QED BY <1>2, RankOwn

LEMMA NthGrows ==
    ASSUME NEW S \in SUBSET (Nat \ {0}), IsFiniteSet(S), NEW n \in 1..Cardinality(S),
           NEW m \in 1..Cardinality(S), n < m
    PROVE  Nth(S, n) < Nth(S, m)
<1>1. /\ Nth(S, n) \in S /\ Rank(S, Nth(S, n)) = n /\ Nth(S, n) \in Nat
      /\ Nth(S, m) \in S /\ Rank(S, Nth(S, m)) = m /\ Nth(S, m) \in Nat
  BY NthRank
<1>2. n \in Nat /\ m \in Nat
  BY RankType
<1>3. ~(Nth(S, m) < Nth(S, n))
  <2>1. Nth(S, m) < Nth(S, n) => m < n
    BY <1>1, RankGrows
  <2> QED BY <1>2, <2>1
<1>4. Nth(S, m) # Nth(S, n)
  BY <1>1, <1>2
<1> QED BY <1>1, <1>3, <1>4

---------------------------------------------------------------------------
(* Lines and records.                                                      *)

LEMMA StartsType ==
    ASSUME NEW f \in Seq(Line)
    PROVE  /\ LineStarts(f) \subseteq 1..Len(f) /\ LineStarts(f) \in SUBSET (Nat \ {0})
           /\ IsFiniteSet(LineStarts(f)) /\ Cardinality(LineStarts(f)) \in Nat
           /\ f # << >> => 1 \in LineStarts(f)
<1>1. LineStarts(f) \subseteq 1..Len(f) /\ (f # << >> => 1 \in LineStarts(f))
  BY DEF LineStarts
<1>2. IsFiniteSet(LineStarts(f))
  BY <1>1, FS_Interval, FS_Subset
<1> QED BY <1>1, <1>2, FS_CardinalityType

\* The writes up to i that begin a line.
StartsTo(f, i) == UpTo(LineStarts(f), i)

LEMMA StartsToType ==
    ASSUME NEW f \in Seq(Line), NEW i \in Nat
    PROVE  /\ StartsTo(f, i) \subseteq LineStarts(f) /\ IsFiniteSet(StartsTo(f, i))
           /\ LineOf(f, i) = Cardinality(StartsTo(f, i))
           /\ LineOf(f, i) \in 0..Cardinality(LineStarts(f))
BY StartsType, RankType DEF StartsTo, LineOf

\* Lines are numbered in order, each by its own number.
LEMMA LineOfGrows ==
    ASSUME NEW f \in Seq(Line), NEW i \in Nat, NEW j \in LineStarts(f), i < j
    PROVE  LineOf(f, i) < LineOf(f, j)
BY StartsType, RankGrows DEF LineOf

LEMMA LineOfStart ==
    ASSUME NEW f \in Seq(Line), NEW i \in LineStarts(f)
    PROVE  LineOf(f, i) \in 1..Cardinality(LineStarts(f)) /\ StartOf(f, LineOf(f, i)) = i
BY StartsType, RankOwn, NthOfRank DEF LineOf, StartOf

\* Every number is that of one line.
LEMMA StartOfLine ==
    ASSUME NEW f \in Seq(Line), NEW n \in 1..Cardinality(LineStarts(f))
    PROVE  StartOf(f, n) \in LineStarts(f) /\ LineOf(f, StartOf(f, n)) = n
BY StartsType, NthRank DEF LineOf, StartOf

LEMMA RecordsType ==
    ASSUME NEW f \in Seq(Line)
    PROVE  /\ Records(f) \in Seq(Record)
           /\ DOMAIN Records(f) = 1..Cardinality(LineStarts(f))
           /\ Len(Records(f)) = Cardinality(LineStarts(f))
           /\ \A n \in DOMAIN Records(f) : /\ StartOf(f, n) \in LineStarts(f)
                                           /\ StartOf(f, n) \in DOMAIN f
                                           /\ Records(f)[n] = f[StartOf(f, n)].rec
<1>1. DOMAIN Records(f) = 1..Cardinality(LineStarts(f))
  BY DEF Records
<1>2. ASSUME NEW n \in DOMAIN Records(f)
      PROVE  /\ StartOf(f, n) \in LineStarts(f) /\ StartOf(f, n) \in DOMAIN f
             /\ Records(f)[n] = f[StartOf(f, n)].rec /\ Records(f)[n] \in Record
  <2>1. StartOf(f, n) \in LineStarts(f) /\ StartOf(f, n) \in DOMAIN f
    BY <1>1, StartOfLine, StartsType
  <2>2. Records(f)[n] = f[StartOf(f, n)].rec
    BY <1>1 DEF Records
  <2>3. f[StartOf(f, n)] \in Line
    BY <2>1
  <2> QED BY <2>1, <2>2, <2>3 DEF Line
<1>3. Records(f) \in Seq(Record)
  <2>1. PICK k \in Nat : k = Cardinality(LineStarts(f))
    BY StartsType
  <2>2. Records(f) = [n \in 1..k |-> Records(f)[n]]
    BY <2>1 DEF Records
  <2>3. Records(f) \in [1..k -> Record]
    BY <1>1, <1>2, <2>1, <2>2
  <2> QED BY <2>3, SeqDef
<1> QED BY <1>1, <1>2, <1>3, StartsType

\* Lines stay where they are: those of a file that ends earlier, its last write
\* perhaps in part, are those of the longer one as far as it goes.
LEMMA LinesOfPrefix ==
    ASSUME NEW f \in Seq(Line), NEW g \in Seq(Line), Len(g) <= Len(f),
           \A i \in 1..Len(g) : i < Len(g) => g[i].form = f[i].form
    PROVE  /\ LineStarts(g) \in SUBSET LineStarts(f)
           /\ \A i \in 1..Len(g) : i \in LineStarts(g) <=> i \in LineStarts(f)
           /\ \A i \in LineStarts(g) : LineOf(g, i) = LineOf(f, i)
           /\ \A n \in 1..Cardinality(LineStarts(g)) : StartOf(f, n) = StartOf(g, n)
<1>1. \A i \in Nat : i \in LineStarts(g) <=> i \in LineStarts(f) /\ i <= Len(g)
  <2> SUFFICES ASSUME NEW i \in 1..Len(g)
               PROVE  i \in LineStarts(g) <=> i \in LineStarts(f)
    BY StartsType
  <2>1. i # 1 => i - 1 \in 1..Len(g) /\ i - 1 < Len(g)
    OBVIOUS
  <2>2. i # 1 => g[i - 1].form = f[i - 1].form
    BY <2>1
  <2>3. i \in DOMAIN g /\ i \in DOMAIN f
    OBVIOUS
  <2> QED BY <2>2, <2>3 DEF LineStarts
<1>2. /\ LineStarts(g) \in SUBSET LineStarts(f)
      /\ \A i \in 1..Len(g) : i \in LineStarts(g) <=> i \in LineStarts(f)
  BY <1>1, StartsType
<1>3. \A i \in LineStarts(g) : LineOf(g, i) = LineOf(f, i)
  <2> SUFFICES ASSUME NEW i \in LineStarts(g) PROVE StartsTo(g, i) = StartsTo(f, i)
    BY StartsToType, StartsType
  <2>1. i \in 1..Len(g) /\ Len(g) \in Nat
    BY StartsType
  <2>2. \A j : j \in LineStarts(g) \/ j \in LineStarts(f) => j \in Nat
    BY StartsType
  <2> QED BY <1>1, <2>1, <2>2 DEF StartsTo, UpTo
<1>4. ASSUME NEW n \in 1..Cardinality(LineStarts(g)) PROVE StartOf(f, n) = StartOf(g, n)
  <2>1. StartOf(g, n) \in LineStarts(g) /\ LineOf(g, StartOf(g, n)) = n
    BY StartOfLine
  <2> QED BY <1>2, <1>3, <2>1, LineOfStart
<1> QED BY <1>2, <1>3, <1>4

\* So do their records.
LEMMA RecordsOfPrefix ==
    ASSUME NEW f \in Seq(Line), NEW g \in Seq(Line), Len(g) <= Len(f),
           \A i \in 1..Len(g) : g[i].rec = f[i].rec,
           \A i \in 1..Len(g) : i < Len(g) => g[i].form = f[i].form
    PROVE  /\ Len(Records(g)) <= Len(Records(f))
           /\ \A n \in DOMAIN Records(g) : Records(g)[n] = Records(f)[n]
<1>1. Len(Records(g)) <= Len(Records(f))
  <2>1. LineStarts(g) \in SUBSET LineStarts(f) /\ IsFiniteSet(LineStarts(f))
    BY LinesOfPrefix, StartsType
  <2>2. Cardinality(LineStarts(g)) <= Cardinality(LineStarts(f))
    BY <2>1, FS_Subset
  <2> QED BY <2>2, RecordsType
<1>2. ASSUME NEW n \in DOMAIN Records(g) PROVE Records(g)[n] = Records(f)[n]
  <2>1. StartOf(f, n) = StartOf(g, n)
    BY LinesOfPrefix, RecordsType
  <2>2. n \in DOMAIN Records(f)
    BY <1>1, RecordsType, StartsType
  <2>3. StartOf(g, n) \in 1..Len(g)
    BY RecordsType, StartsType
  <2> QED BY <2>1, <2>2, <2>3, RecordsType
<1> QED BY <1>1, <1>2

\* A write begins a line of its own only after a whole one.
LEMMA RecordsOfAppend ==
    ASSUME NEW f \in Seq(Line), NEW l \in Line
    PROVE  Records(Append(f, l)) = IF f = << >> \/ f[Len(f)].form = "whole"
                                   THEN Append(Records(f), l.rec) ELSE Records(f)
<1> DEFINE g == Append(f, l)
           k == Len(f) + 1
<1>1. /\ g \in Seq(Line) /\ Len(g) = k /\ k \in Nat /\ Len(f) <= Len(g)
      /\ \A i \in 1..Len(f) : g[i] = f[i]
      /\ g[k] = l
  OBVIOUS
<1>2. /\ Len(Records(f)) <= Len(Records(g))
      /\ \A n \in DOMAIN Records(f) : Records(f)[n] = Records(g)[n]
  <2> HIDE DEF g, k
  <2> QED BY <1>1, RecordsOfPrefix
<1>3. \A i \in 1..Len(f) : i \in LineStarts(f) <=> i \in LineStarts(g)
  BY <1>1 DEF LineStarts
<1>4. k \in LineStarts(g) <=> f = << >> \/ f[Len(f)].form = "whole"
  <2>1. k - 1 = Len(f) /\ k \in DOMAIN g /\ (k = 1 <=> f = << >>)
    BY <1>1
  <2>2. f # << >> => g[k - 1] = f[Len(f)]
    <3>1. f # << >> => Len(f) \in 1..Len(f)
      OBVIOUS
    <3> QED BY <1>1, <2>1, <3>1
  <2> HIDE DEF g, k
  <2> QED BY <2>1, <2>2 DEF LineStarts
<1>5. Records(f) \in Seq(Record) /\ Records(g) \in Seq(Record)
  BY <1>1, RecordsType
<1> HIDE DEF g
<1>6. CASE k \notin LineStarts(g)
  <2>1. LineStarts(g) = LineStarts(f)
    <3>1. \A i : i \in LineStarts(g) => i \in 1..k /\ i # k
      BY <1>1, <1>6, StartsType
    <3>2. \A i : i \in LineStarts(g) => i \in 1..Len(f)
      BY <1>1, <3>1
    <3> QED BY <1>3, <3>2, StartsType
  <2>2. Len(Records(g)) = Len(Records(f))
    BY <1>1, <2>1, RecordsType
  <2>3. Records(g) = Records(f)
    BY <1>2, <1>5, <2>2
  <2> QED BY <1>4, <1>6, <2>3 DEF g
<1>7. CASE k \in LineStarts(g)
  <2>1. LineStarts(g) = LineStarts(f) \cup {k} /\ k \notin LineStarts(f)
    BY <1>1, <1>3, <1>7, StartsType
  <2>2. Len(Records(g)) = Len(Records(f)) + 1
    BY <1>1, <2>1, RecordsType, StartsType, FS_AddElement
  <2>3. Records(g)[Len(Records(g))] = l.rec
    <3> DEFINE n == Len(Records(g))
    <3>1. StartsTo(g, k) = LineStarts(g)
      BY <1>1, StartsType DEF StartsTo, UpTo
    <3>2. LineOf(g, k) = n
      BY <1>1, <3>1, StartsToType, RecordsType
    <3>3. StartOf(g, n) = k
      BY <1>1, <1>7, <3>2, LineOfStart
    <3>4. n \in DOMAIN Records(g)
      BY <1>1, <1>5, <2>2, RecordsType, StartsType
    <3> QED BY <1>1, <3>3, <3>4, RecordsType
  <2>4. Records(g) = Append(Records(f), l.rec)
    <3>1. l.rec \in Record
      BY DEF Line
    <3> QED BY <1>2, <1>5, <2>2, <2>3, <3>1
  <2> QED BY <1>4, <1>7, <2>4 DEF g
<1> QED BY <1>6, <1>7

\* Where only the last write may not be whole, every write begins a line.
LEMMA RecordsOfWhole ==
    ASSUME NEW f \in Seq(Line), \A i \in 1..Len(f) : i < Len(f) => f[i].form = "whole"
    PROVE  /\ LineStarts(f) = 1..Len(f)
           /\ Len(Records(f)) = Len(f) /\ DOMAIN Records(f) = 1..Len(f)
           /\ \A n \in 1..Len(f) : LineOf(f, n) = n /\ Records(f)[n] = f[n].rec
<1>1. ASSUME NEW i \in 1..Len(f) PROVE i \in LineStarts(f)
  <2>1. i # 1 => i - 1 \in 1..Len(f) /\ i - 1 < Len(f)
    OBVIOUS
  <2>2. i # 1 => f[i - 1].form = "whole"
    BY <2>1
  <2>3. i \in DOMAIN f
    OBVIOUS
  <2> QED BY <2>2, <2>3 DEF LineStarts
<1>2. LineStarts(f) = 1..Len(f) /\ Cardinality(LineStarts(f)) = Len(f)
  <2>1. LineStarts(f) = 1..Len(f)
    BY <1>1, StartsType
  <2>2. PICK n \in Nat : n = Len(f)
    OBVIOUS
  <2>3. Cardinality(1..n) = n
    BY FS_Interval
  <2> QED BY <2>1, <2>2, <2>3
<1>3. ASSUME NEW n \in 1..Len(f) PROVE LineOf(f, n) = n
  <2>1. StartsTo(f, n) = 1..n
    BY <1>2 DEF StartsTo, UpTo
  <2> QED BY <2>1, StartsToType, FS_Interval
<1>4. ASSUME NEW n \in 1..Len(f) PROVE Records(f)[n] = f[n].rec
  <2>1. StartOf(f, n) = n
    BY <1>2, <1>3, LineOfStart
  <2> QED BY <1>2, <2>1, RecordsType
<1> QED BY <1>2, <1>3, <1>4, RecordsType

---------------------------------------------------------------------------
(* Types.                                                                  *)

LEMMA HeadType ==
    ASSUME NEW f \in Seq(Line)
    PROVE  HeadSeq(Records(f)) \in Nat /\ HeadHash(Records(f)) \in Nat
<1>1. Records(f) \in Seq(Record)
  BY RecordsType
<1>2. Records(f) # << >> => Records(f)[Len(Records(f))] \in Record
  BY <1>1
<1> QED BY <1>2 DEF HeadSeq, HeadHash, Record, GenesisPrevHash

LEMMA HashesType ==
    ASSUME NEW f \in Seq(Line)
    PROVE  Hashes(f) \subseteq Nat
<1>1. Records(f) \in Seq(Record)
  BY RecordsType
<1>2. \A n \in DOMAIN Records(f) : Records(f)[n] \in Record
  BY <1>1
<1> QED BY <1>2 DEF Hashes, Record

LEMMA AnchorTypes ==
    /\ NoAnchor \in Anchor /\ CorruptAnchor \in Anchor
    /\ \A n, h \in Nat : AnchorOf(n, h) \in Anchor
BY DEF NoAnchor, CorruptAnchor, AnchorOf, Anchor, GenesisPrevHash

LEMMA NewRecordType ==
    ASSUME TypeOK
    PROVE  NewRecord \in Record
BY DEF NewRecord, Record, TypeOK

\* The variables keep their types.
THEOREM TypeCorrect == Spec => []TypeOK
<1>1. Init => TypeOK
  <2> SUFFICES ASSUME Init PROVE TypeOK
    OBVIOUS
  <2>1. file \in Seq(Line) /\ durable \in 0..Len(file)
    BY DEF Init
  <2>2. anchor \in Anchor /\ anchors \subseteq Anchor /\ anchor \in anchors
    BY AnchorTypes DEF Init
  <2> QED BY <2>1, <2>2 DEF Init, TypeOK, Closed, GenesisPrevHash
<1>2. TypeOK /\ [Next]_vars => TypeOK'
  <2> SUFFICES ASSUME TypeOK, [Next]_vars PROVE TypeOK'
    OBVIOUS
  <2>1. CASE Open
    BY <2>1, HeadType DEF Open, TypeOK, disk, ghosts
  <2>2. CASE AppendNothing
    BY <2>2 DEF AppendNothing, TypeOK, disk, ghosts
  <2>3. CASE AppendWrite
    <3>1. PICK form \in Form : /\ file' = Append(file, [rec |-> NewRecord, form |-> form])
                               /\ pc' = IF form = "whole" THEN "sync" ELSE "ready"
                               /\ marred' = (marred \/ form # "whole")
      BY <2>3 DEF AppendWrite, Form
    <3>2. [rec |-> NewRecord, form |-> form] \in Line
      BY NewRecordType DEF Line
    <3>3. file' \in Seq(Line) /\ durable \in 0..Len(file')
      BY <3>1, <3>2 DEF TypeOK
    <3> QED BY <2>3, <3>1, <3>3 DEF AppendWrite, TypeOK
  <2>4. CASE AppendSync
    <3>1. durable' \in 0..Len(file) /\ log' \in [open: BOOLEAN, seq: Nat, prev: Nat]
      <4>1. Len(file) \in Nat
        BY DEF TypeOK
      <4>2. durable' \in 0..Len(file)
        BY <2>4, <4>1 DEF AppendSync
      <4>3. log' \in [open: BOOLEAN, seq: Nat, prev: Nat]
        <5>1. log \in [open: BOOLEAN, seq: Nat, prev: Nat] /\ appends \in Nat
          BY DEF TypeOK
        <5>2. log' = [open |-> log.open, seq |-> log.seq + 1, prev |-> appends]
          BY <2>4, <5>1 DEF AppendSync
        <5> QED BY <5>1, <5>2
      <4> QED BY <4>2, <4>3
    <3> QED BY <2>4, <3>1 DEF AppendSync, TypeOK, ghosts
  <2>5. CASE AppendSyncFails
    BY <2>5 DEF AppendSyncFails, TypeOK, disk
  <2>6. CASE AnchorWrite
    BY <2>6, AnchorTypes DEF AnchorWrite, TypeOK
  <2>7. CASE AnchorFails
    BY <2>7, AnchorTypes DEF AnchorFails, TypeOK
  <2>8. CASE RemoveAnchor
    BY <2>8, AnchorTypes DEF RemoveAnchor, TypeOK
  <2>9. CASE InitAnchor
    BY <2>9, AnchorTypes, HeadType, HashesType DEF InitAnchor, TypeOK
  <2>10. CASE Crash
    BY <2>10 DEF Crash, Stop, Closed, GenesisPrevHash, TypeOK, disk, ghosts
  <2>11. CASE PowerLoss
    <3>1. PICK n \in durable..Len(file), form \in Form :
            file' = IF n = durable \/ file[n].form # "whole" THEN SubSeq(file, 1, n)
                    ELSE [SubSeq(file, 1, n) EXCEPT ![n].form = form]
      BY <2>11 DEF PowerLoss
    <3>2. /\ SubSeq(file, 1, n) \in Seq(Line) /\ n \in Nat
          /\ n # durable => n \in DOMAIN SubSeq(file, 1, n)
      BY DEF TypeOK
    <3>3. file' \in Seq(Line)
      <4> DEFINE s == SubSeq(file, 1, n)
      <4>1. n # durable => [s EXCEPT ![n].form = form] \in Seq(Line)
        <5> SUFFICES ASSUME n # durable PROVE [s EXCEPT ![n].form = form] \in Seq(Line)
          OBVIOUS
        <5>1. s[n] \in Line
          BY <3>2
        <5>2. [s[n] EXCEPT !.form = form] \in Line
          BY <5>1 DEF Line
        <5> QED BY <3>2, <5>2
      <4> QED BY <3>1, <3>2, <4>1
    <3>4. durable' \in 0..Len(file')
      <4>1. Len(file') \in Nat /\ durable' = Len(file')
        BY <2>11, <3>3 DEF PowerLoss
      <4> QED BY <4>1
    <3>5. anchor' \in Anchor /\ anchors' \subseteq Anchor /\ anchor' \in anchors'
      BY <2>11 DEF PowerLoss, TypeOK
    <3>6. log' \in [open: BOOLEAN, seq: Nat, prev: Nat] /\ pc' = "ready" /\ stops' \in Nat
      BY <2>11 DEF PowerLoss, Stop, Closed, GenesisPrevHash, TypeOK
    <3> QED BY <2>11, <3>3, <3>4, <3>5, <3>6 DEF PowerLoss, TypeOK, ghosts
  <2>12. CASE LoseTail
    <3>1. file' \in Seq(Line) /\ Len(file') = Len(file) - 1 /\ Len(file') \in Nat
      <4>1. file \in Seq(Line) /\ file # << >> /\ file' = SubSeq(file, 1, Len(file) - 1)
        BY <2>12 DEF LoseTail, TypeOK
      <4>2. PICK n \in 0..Len(file) : n = Len(file) - 1
        BY <4>1
      <4> QED BY <4>1, <4>2
    <3>2. durable' \in 0..Len(file')
      BY <2>12, <3>1 DEF LoseTail, TypeOK
    <3> QED BY <2>12, <3>1, <3>2 DEF LoseTail, TypeOK
  <2>13. CASE DamageAnchor
    BY <2>13, AnchorTypes DEF DamageAnchor, TypeOK
  <2>14. CASE UNCHANGED vars
    BY <2>14 DEF vars, disk, ghosts, TypeOK
  <2> QED BY <2>1, <2>2, <2>3, <2>4, <2>5, <2>6, <2>7, <2>8, <2>9, <2>10, <2>11, <2>12,
             <2>13, <2>14 DEF Next, Service, Operator, Environment
<1> QED BY <1>1, <1>2, PTL DEF Spec

---------------------------------------------------------------------------
(* The order of the file.                                                  *)

\* g is f up to some write, the last perhaps in part.
IsStartOf(g, f) ==
    /\ g \in Seq(Line) /\ Len(g) <= Len(f)
    /\ \A i \in 1..Len(g) : /\ g[i].rec = f[i].rec
                            /\ i < Len(g) => g[i].form = f[i].form

LEMMA IsStartOfItself ==
    ASSUME NEW f \in Seq(Line)
    PROVE  IsStartOf(f, f)
BY DEF IsStartOf

LEMMA PowerLossKeeps ==
    ASSUME TypeOK, PowerLoss
    PROVE  /\ IsStartOf(file', file) /\ Len(file') \in Nat /\ durable <= Len(file')
           /\ Len(file') = durable => file' = SubSeq(file, 1, durable)
<1>1. PICK n \in durable..Len(file), form \in Form :
        file' = IF n = durable \/ file[n].form # "whole" THEN SubSeq(file, 1, n)
                ELSE [SubSeq(file, 1, n) EXCEPT ![n].form = form]
  BY DEF PowerLoss
<1> DEFINE s == SubSeq(file, 1, n)
<1>2. /\ file \in Seq(Line) /\ durable \in Nat /\ n \in Nat /\ n <= Len(file)
      /\ s \in Seq(Line) /\ Len(s) = n
      /\ \A i \in 1..n : s[i] = file[i] /\ s[i] \in Line
  BY DEF TypeOK
<1>3. n = durable => s = SubSeq(file, 1, durable)
  OBVIOUS
<1> HIDE DEF s
<1>4. CASE file' = s
  <2>1. IsStartOf(file', file) /\ Len(file') = n
    BY <1>2, <1>4 DEF IsStartOf
  <2> QED BY <1>2, <1>3, <1>4, <2>1
<1>5. CASE n # durable /\ file' = [s EXCEPT ![n].form = form]
  <2> DEFINE l == [s[n] EXCEPT !.form = form]
  <2>1. n \in 1..n
    BY <1>2, <1>5
  <2>2. l \in Line /\ l.rec = s[n].rec
    BY <1>2, <2>1 DEF Line
  <2>3. file' = [s EXCEPT ![n] = l]
    BY <1>2, <1>5, <2>1
  <2> HIDE DEF l
  <2>4. /\ file' \in Seq(Line) /\ Len(file') = n
        /\ \A i \in 1..n : file'[i] = IF i = n THEN l ELSE s[i]
    BY <1>2, <2>1, <2>2, <2>3
  <2>5. \A i \in 1..n : file'[i].rec = file[i].rec /\ (i < n => file'[i].form = file[i].form)
    BY <1>2, <2>1, <2>2, <2>4
  <2> QED BY <1>2, <1>5, <2>4, <2>5 DEF IsStartOf
<1> QED BY <1>1, <1>4, <1>5 DEF s

LEMMA LoseTailKeeps ==
    ASSUME TypeOK, LoseTail
    PROVE  IsStartOf(file', file) /\ Len(file') = Len(file) - 1 /\ Len(file') \in Nat
<1>1. file \in Seq(Line) /\ file # << >>
  BY DEF LoseTail, TypeOK
<1>2. PICK n \in 0..Len(file) : n = Len(file) - 1
  <2>1. PICK k \in Nat : k = Len(file) /\ k # 0
    BY <1>1
  <2>2. k - 1 \in 0..k
    BY <2>1
  <2> QED BY <2>1, <2>2
<1>3. file' = SubSeq(file, 1, n)
  BY <1>2 DEF LoseTail
<1> HIDE DEF IsStartOf
<1>4. file' \in Seq(Line) /\ Len(file') = n /\ \A i \in 1..n : file'[i] = file[i]
  BY <1>1, <1>2, <1>3
<1> QED BY <1>1, <1>2, <1>4 DEF IsStartOf

\* The hashes of the records a reader finds number calls of Append, in order.
LEMMA RecordsInOrder ==
    ASSUME TypeOK, FileInv
    PROVE  /\ \A n \in DOMAIN Records(file) : /\ Records(file)[n].Seq >= 1
                                              /\ Records(file)[n].RecordHash \in 1..appends
           /\ \A n, m \in DOMAIN Records(file) :
                n < m => Records(file)[n].RecordHash < Records(file)[m].RecordHash
<1>1. file \in Seq(Line)
  BY DEF TypeOK
<1>2. \A n \in DOMAIN Records(file) : /\ Records(file)[n].Seq >= 1
                                      /\ Records(file)[n].RecordHash \in 1..appends
  BY <1>1, RecordsType DEF FileInv, HashesInOrder
<1>3. ASSUME NEW n \in DOMAIN Records(file), NEW m \in DOMAIN Records(file), n < m
      PROVE  Records(file)[n].RecordHash < Records(file)[m].RecordHash
  <2>1. StartOf(file, n) < StartOf(file, m)
    BY <1>1, <1>3, RecordsType, StartsType, NthGrows DEF StartOf
  <2> QED BY <1>1, <2>1, RecordsType DEF FileInv, HashesInOrder
<1> QED BY <1>2, <1>3

LEMMA HeadInOrder ==
    ASSUME TypeOK, FileInv
    PROVE  /\ HeadHash(Records(file)) <= appends
           /\ HeadSeq(Records(file)) = 0 <=> Records(file) = << >>
<1>1. Records(file) \in Seq(Record)
  BY RecordsType DEF TypeOK
<1>2. Records(file) # << >> => Len(Records(file)) \in DOMAIN Records(file)
  BY <1>1
<1> DEFINE r == Records(file)
<1>3. r # << >> => r[Len(r)].Seq >= 1 /\ r[Len(r)].RecordHash \in 1..appends
  BY <1>2, RecordsInOrder
<1>4. appends \in Nat
  BY DEF TypeOK
<1> QED BY <1>3, <1>4 DEF HeadSeq, HeadHash, GenesisPrevHash

LEMMA OrderOfAStart ==
    ASSUME NEW f \in Seq(Line), NEW g, IsStartOf(g, f), NEW n \in Nat, HashesInOrder(f, n)
    PROVE  HashesInOrder(g, n)
<1>1. /\ g \in Seq(Line) /\ Len(g) \in Nat /\ Len(g) <= Len(f) /\ DOMAIN g = 1..Len(g)
      /\ \A i \in DOMAIN g : i \in DOMAIN f /\ g[i].rec = f[i].rec
  BY DEF IsStartOf
<1> QED BY <1>1 DEF HashesInOrder

LEMMA AnchorsNamed ==
    /\ NoAnchor.RecordHash = GenesisPrevHash /\ CorruptAnchor.RecordHash = GenesisPrevHash
    /\ NoAnchor.Seq = 0 /\ NoAnchor.state = "absent" /\ CorruptAnchor.state = "corrupt"
    /\ \A n, h \in Nat : /\ AnchorOf(n, h).RecordHash = h /\ AnchorOf(n, h).Seq = n
                         /\ AnchorOf(n, h).state = "sound"
    /\ \A n \in Nat : KnownHash(NoAnchor, n) /\ KnownHash(CorruptAnchor, n)
BY DEF NoAnchor, CorruptAnchor, AnchorOf, KnownHash, GenesisPrevHash

LEMMA FileInvStart == Init => FileInv
<1> SUFFICES ASSUME Init PROVE FileInv
  OBVIOUS
<1>1. HashesInOrder(file, appends)
  BY DEF Init, HashesInOrder
<1>2. \A a \in anchors : KnownHash(a, appends)
  BY AnchorsNamed DEF Init
<1> QED BY <1>1, <1>2 DEF FileInv, Init, Closed, GenesisPrevHash

LEMMA FileInvStep ==
    ASSUME TypeOK, FileInv, [Next]_vars
    PROVE  FileInv'
<1>1. /\ HashesInOrder(file, appends) /\ \A a \in anchors : KnownHash(a, appends)
      /\ log.prev <= appends
      /\ pc # "ready" => log.open
      /\ pc = "sync" =>
            /\ appends >= 1
            /\ \A i \in DOMAIN file : file[i].rec.RecordHash = appends
                  => file[i].rec.PrevRecordHash = log.prev
      /\ pc = "anchor" => log.seq >= 1 /\ log.prev >= 1
  BY DEF FileInv
<1>2. /\ file \in Seq(Line) /\ appends \in Nat /\ log.seq \in Nat /\ log.prev \in Nat
      /\ log \in [open: BOOLEAN, seq: Nat, prev: Nat]
      /\ anchor \in anchors
  BY DEF TypeOK
<1>3. KnownHash(AnchorOf(log.seq, log.prev), appends) \/ pc # "anchor"
  BY <1>1, <1>2, AnchorsNamed DEF KnownHash
<1>4. CASE Open
  <2>1. log'.prev <= appends /\ log'.open
    BY <1>4, HeadInOrder DEF Open
  <2> QED BY <1>1, <1>4, <2>1 DEF FileInv, Open, disk
<1>5. CASE AppendNothing
  <2>1. HashesInOrder(file, appends + 1) /\ \A a \in anchors : KnownHash(a, appends + 1)
    BY <1>1, <1>2 DEF HashesInOrder, KnownHash, TypeOK, Anchor
  <2> QED BY <1>1, <1>2, <1>5, <2>1 DEF FileInv, AppendNothing, disk
<1>6. CASE AppendWrite
  <2>1. PICK form \in Form : /\ file' = Append(file, [rec |-> NewRecord, form |-> form])
                             /\ pc' = IF form = "whole" THEN "sync" ELSE "ready"
    BY <1>6 DEF AppendWrite, Form
  <2>2. /\ appends' = appends + 1 /\ log.open
        /\ UNCHANGED <<durable, anchor, anchors, log>>
    BY <1>6 DEF AppendWrite
  <2>3. /\ NewRecord.Seq >= 1 /\ NewRecord.RecordHash = appends + 1
        /\ NewRecord.PrevRecordHash = log.prev /\ NewRecord \in Record
    BY <1>2, NewRecordType DEF NewRecord
  <2> DEFINE l == [rec |-> NewRecord, form |-> form]
  <2>4. l \in Line /\ l.rec = NewRecord
    BY <2>3 DEF Line
  <2> HIDE DEF l
  <2>5. /\ DOMAIN file' = 1..(Len(file) + 1) /\ DOMAIN file = 1..Len(file) /\ Len(file) \in Nat
        /\ \A i \in DOMAIN file : file'[i] = file[i]
        /\ file'[Len(file) + 1] = l
    BY <1>2, <2>1, <2>4 DEF l
  <2>6. \A i \in DOMAIN file' : i \in DOMAIN file \/ i = Len(file) + 1
    BY <2>5
  <2>7. HashesInOrder(file', appends + 1)
    <3>1. \A i \in DOMAIN file : file[i].rec.RecordHash \in 1..appends /\ file[i].rec.Seq >= 1
      BY <1>1 DEF HashesInOrder
    <3>2. \A i \in DOMAIN file' : file'[i].rec.Seq >= 1 /\ file'[i].rec.RecordHash \in 1..(appends + 1)
      BY <1>2, <2>3, <2>4, <2>5, <2>6, <3>1
    <3>3. ASSUME NEW i \in DOMAIN file', NEW j \in DOMAIN file', i < j
          PROVE  file'[i].rec.RecordHash < file'[j].rec.RecordHash
      <4>1. i \in DOMAIN file
        BY <2>5, <2>6, <3>3
      <4>2. CASE j \in DOMAIN file
        BY <1>1, <2>5, <3>3, <4>1, <4>2 DEF HashesInOrder
      <4>3. CASE j = Len(file) + 1
        BY <1>2, <2>3, <2>4, <2>5, <3>1, <4>1, <4>3
      <4> QED BY <2>6, <4>2, <4>3
    <3> QED BY <3>2, <3>3 DEF HashesInOrder
  <2>8. \A a \in anchors : KnownHash(a, appends + 1)
    BY <1>1, <1>2 DEF KnownHash, TypeOK, Anchor
  <2>9. \A i \in DOMAIN file' : file'[i].rec.RecordHash = appends + 1
            => file'[i].rec.PrevRecordHash = log.prev
    BY <1>1, <1>2, <2>3, <2>4, <2>5, <2>6 DEF HashesInOrder
  <2> QED BY <1>1, <1>2, <2>1, <2>2, <2>7, <2>8, <2>9 DEF FileInv
<1>7. CASE AppendSync
  <2>1. log' = [open |-> log.open, seq |-> log.seq + 1, prev |-> appends] /\ pc' = "anchor"
    BY <1>2, <1>7 DEF AppendSync
  <2> QED BY <1>1, <1>2, <1>7, <2>1 DEF FileInv, AppendSync
<1>8. CASE AppendSyncFails
  BY <1>1, <1>8 DEF FileInv, AppendSyncFails, disk
<1>9. CASE AnchorWrite
  BY <1>1, <1>3, <1>9 DEF FileInv, AnchorWrite
<1>10. CASE AnchorFails
  BY <1>1, <1>3, <1>10 DEF FileInv, AnchorFails
<1>11. CASE RemoveAnchor
  BY <1>1, <1>2, <1>11, AnchorsNamed DEF FileInv, RemoveAnchor
<1>12. CASE InitAnchor
  <2>1. KnownHash(AnchorOf(HeadSeq(Records(file)), HeadHash(Records(file))), appends)
    <3>1. HeadSeq(Records(file)) = 0 => HeadHash(Records(file)) = GenesisPrevHash
      BY HeadInOrder DEF HeadHash
    <3> QED BY <1>2, <3>1, HeadInOrder, HeadType, AnchorsNamed DEF KnownHash
  <2> QED BY <1>1, <1>12, <2>1 DEF FileInv, InitAnchor
<1>13. CASE Crash
  BY <1>1, <1>2, <1>13 DEF FileInv, Crash, Stop, Closed, GenesisPrevHash, disk
<1>14. CASE PowerLoss
  <2>1. HashesInOrder(file', appends)
    BY <1>1, <1>2, <1>14, PowerLossKeeps, OrderOfAStart
  <2>2. /\ appends' = appends /\ log' = Closed /\ pc' = "ready"
        /\ \A a \in anchors' : a \in anchors
    BY <1>14 DEF PowerLoss, Stop
  <2> QED BY <1>1, <1>2, <2>1, <2>2 DEF FileInv, Closed, GenesisPrevHash
<1>15. CASE LoseTail
  <2>1. HashesInOrder(file', appends)
    BY <1>1, <1>2, <1>15, LoseTailKeeps, OrderOfAStart
  <2> QED BY <1>1, <1>15, <2>1 DEF FileInv, LoseTail
<1>16. CASE DamageAnchor
  BY <1>1, <1>2, <1>16, AnchorsNamed DEF FileInv, DamageAnchor
<1>17. CASE UNCHANGED vars
  BY <1>1, <1>17 DEF FileInv, vars, disk
<1> QED BY <1>4, <1>5, <1>6, <1>7, <1>8, <1>9, <1>10, <1>11, <1>12, <1>13, <1>14, <1>15,
           <1>16, <1>17 DEF Next, Service, Operator, Environment

---------------------------------------------------------------------------
(* What a head stands for.                                                 *)

LEMMA CoversShorter ==
    ASSUME NEW r \in Seq(Record), NEW q \in Seq(Record), Len(q) <= Len(r),
           \A n \in DOMAIN q : q[n] = r[n],
           NEW t, NEW h, Covers(r, t, h)
    PROVE  Covers(q, t, h)
<1>1. h = GenesisPrevHash => t = {}
  BY DEF Covers
<1>2. ASSUME NEW n \in DOMAIN q, q[n].RecordHash = h, Chained(q, n)
      PROVE  t \subseteq HashesTo(q, n)
  <2>1. /\ n \in Nat /\ n \in DOMAIN r /\ r[n].RecordHash = h
        /\ \A i \in 1..n : i \in DOMAIN q /\ q[i] = r[i]
    BY <1>2
  <2>2. ASSUME NEW i \in 1..n PROVE Linked(r, i)
    <3>1. Linked(q, i)
      BY <1>2 DEF Chained
    <3>2. q[i] = r[i] /\ (i # 1 => q[i - 1] = r[i - 1])
      <4>1. i # 1 => i - 1 \in 1..n
        BY <2>1
      <4> QED BY <2>1, <4>1
    <3>3. ~(1 > 1)
      OBVIOUS
    <3> QED BY <3>1, <3>2, <3>3 DEF Linked
  <2>3. t \subseteq HashesTo(r, n)
    BY <2>1, <2>2 DEF Covers, Chained
  <2>4. HashesTo(r, n) = HashesTo(q, n)
    BY <2>1 DEF HashesTo
  <2> QED BY <2>3, <2>4
<1> QED BY <1>1, <1>2 DEF Covers

LEMMA CoversLonger ==
    ASSUME NEW r \in Seq(Record), NEW rec \in Record, NEW t, NEW h,
           rec.RecordHash # h, Covers(r, t, h)
    PROVE  Covers(Append(r, rec), t, h)
<1> DEFINE q == Append(r, rec)
<1>1. h = GenesisPrevHash => t = {}
  BY DEF Covers
<1>2. ASSUME NEW n \in DOMAIN q, q[n].RecordHash = h, Chained(q, n)
      PROVE  t \subseteq HashesTo(q, n)
  <2>1. /\ q \in Seq(Record) /\ DOMAIN q = 1..(Len(r) + 1) /\ DOMAIN r = 1..Len(r)
        /\ q[Len(r) + 1] = rec /\ \A i \in 1..Len(r) : q[i] = r[i]
        /\ Len(r) \in Nat
    OBVIOUS
  <2> HIDE DEF q
  <2>2. n \in 1..Len(r) /\ n \in Nat /\ r[n].RecordHash = h
    BY <1>2, <2>1
  <2>3. \A i \in 1..n : i \in 1..Len(r) /\ q[i] = r[i]
    BY <2>1, <2>2
  <2>4. ASSUME NEW i \in 1..n PROVE Linked(r, i)
    <3>1. Linked(q, i)
      BY <1>2 DEF Chained
    <3>2. q[i] = r[i] /\ (i # 1 => q[i - 1] = r[i - 1])
      <4>1. i # 1 => i - 1 \in 1..n
        BY <2>2
      <4> QED BY <2>3, <4>1
    <3>3. ~(1 > 1)
      OBVIOUS
    <3> QED BY <3>1, <3>2, <3>3 DEF Linked
  <2>5. t \subseteq HashesTo(r, n)
    BY <2>1, <2>2, <2>4 DEF Covers, Chained
  <2>6. HashesTo(r, n) = HashesTo(q, n)
    BY <2>3 DEF HashesTo
  <2> QED BY <2>5, <2>6
<1> QED BY <1>1, <1>2 DEF Covers

LEMMA CoversNothing ==
    ASSUME NEW r, NEW h
    PROVE  Covers(r, {}, h)
BY DEF Covers

\* A log that opens has its head where its anchor says.
LEMMA OpensAtItsAnchor ==
    ASSUME TypeOK, FileInv, Judge(file, anchor) = "ok"
    PROVE  /\ anchor.state # "corrupt" /\ HeadHash(Records(file)) = anchor.RecordHash
           /\ Readable(file) /\ Verify(Records(file))
           /\ HeadSeq(Records(file)) = anchor.Seq \/ anchor.state = "absent"
           /\ anchor.state = "absent" => Records(file) = << >>
<1>1. Readable(file) /\ Verify(Records(file)) /\ CheckAnchor(anchor, Records(file)) = "ok"
  BY DEF Judge
<1>2. /\ anchor.state \in {"absent", "sound", "corrupt"} /\ anchor.Seq \in Nat
      /\ HeadSeq(Records(file)) \in Nat
      /\ KnownHash(anchor, appends)
  BY HeadType DEF TypeOK, Anchor, FileInv
<1>3. CASE anchor.state = "corrupt"
  BY <1>1, <1>3 DEF CheckAnchor
<1>4. CASE anchor.state = "absent"
  <2>1. Records(file) = << >>
    BY <1>1, <1>4, HeadInOrder DEF CheckAnchor
  <2> QED BY <1>1, <1>2, <1>4, <2>1 DEF HeadHash, KnownHash
<1>5. CASE anchor.state = "sound"
  <2>1. /\ HeadSeq(Records(file)) = anchor.Seq
        /\ HeadSeq(Records(file)) = 0 \/ HeadHash(Records(file)) = anchor.RecordHash
    BY <1>1, <1>2, <1>5 DEF CheckAnchor
  <2>2. HeadSeq(Records(file)) = 0 => HeadHash(Records(file)) = anchor.RecordHash
    BY <1>2, <2>1, HeadInOrder DEF HeadHash, KnownHash
  <2> QED BY <1>1, <1>5, <2>1, <2>2
<1> QED BY <1>2, <1>3, <1>4, <1>5

LEMMA CoversAStart ==
    ASSUME NEW f \in Seq(Line), NEW g, IsStartOf(g, f), NEW t, NEW h, Covers(Records(f), t, h)
    PROVE  Covers(Records(g), t, h)
<1>1. /\ g \in Seq(Line) /\ Len(g) <= Len(f)
      /\ \A i \in 1..Len(g) : g[i].rec = f[i].rec
      /\ \A i \in 1..Len(g) : i < Len(g) => g[i].form = f[i].form
  BY DEF IsStartOf
<1>2. /\ Len(Records(g)) <= Len(Records(f))
      /\ \A n \in DOMAIN Records(g) : Records(g)[n] = Records(f)[n]
  BY <1>1, RecordsOfPrefix
<1>3. Records(f) \in Seq(Record) /\ Records(g) \in Seq(Record)
  BY <1>1, RecordsType
<1> QED BY <1>2, <1>3, CoversShorter

\* A record that links to a head stands for what the head does.
LEMMA CoversNext ==
    ASSUME NEW r \in Seq(Record), NEW t, NEW h, NEW next, Covers(r, t, h),
           next # GenesisPrevHash,
           \A n \in DOMAIN r : r[n].RecordHash = next => r[n].PrevRecordHash = h
    PROVE  Covers(r, t, next)
<1> SUFFICES ASSUME NEW n \in DOMAIN r, r[n].RecordHash = next, Chained(r, n)
             PROVE  t \subseteq HashesTo(r, n)
  BY DEF Covers
<1>1. n \in Nat /\ n >= 1 /\ DOMAIN r = 1..Len(r) /\ Len(r) \in Nat /\ n <= Len(r)
  OBVIOUS
<1>2. Linked(r, n) /\ r[n].PrevRecordHash = h
  BY <1>1 DEF Chained
<1>3. CASE n = 1
  BY <1>2, <1>3 DEF Linked, Covers
<1>4. CASE n # 1
  <2>1. n - 1 \in DOMAIN r /\ r[n - 1].RecordHash = h
    BY <1>1, <1>2, <1>4 DEF Linked
  <2>2. \A i \in 1..(n - 1) : i \in 1..n
    BY <1>1
  <2>3. Chained(r, n - 1) /\ HashesTo(r, n - 1) \subseteq HashesTo(r, n)
    BY <2>2 DEF Chained, HashesTo
  <2> QED BY <2>1, <2>3 DEF Covers
<1> QED BY <1>3, <1>4

LEMMA CoversItself ==
    ASSUME NEW r \in Seq(Record), NEW t, NEW h, Covers(r, t, h), h # GenesisPrevHash
    PROVE  Covers(r, t \cup {h}, h)
<1>1. \A n \in DOMAIN r : n \in 1..n
  OBVIOUS
<1>2. \A n \in DOMAIN r : r[n].RecordHash = h => h \in HashesTo(r, n)
  BY <1>1 DEF HashesTo
<1> QED BY <1>2 DEF Covers

LEMMA CoversTheFile ==
    ASSUME TypeOK, FileInv
    PROVE  Covers(Records(file), Hashes(file), HeadHash(Records(file)))
<1> DEFINE r == Records(file)
<1>1. r \in Seq(Record) /\ DOMAIN r = 1..Len(r) /\ Len(r) \in Nat
  BY RecordsType DEF TypeOK
<1>2. r = << >> => Hashes(file) = {}
  BY <1>1 DEF Hashes
<1>3. r # << >> => HeadHash(r) = r[Len(r)].RecordHash /\ HeadHash(r) \in 1..appends
  <2>1. r # << >> => Len(r) \in DOMAIN r
    BY <1>1
  <2> QED BY <2>1, RecordsInOrder DEF HeadHash
<1>4. ASSUME NEW n \in DOMAIN r, r[n].RecordHash = HeadHash(r)
      PROVE  Hashes(file) = HashesTo(r, n)
  <2>1. Len(r) \in DOMAIN r /\ r # << >> /\ n <= Len(r)
    BY <1>1
  <2>2. r[n].RecordHash \in Nat
    BY RecordsInOrder
  <2>3. ~(n < Len(r))
    BY <1>3, <1>4, <2>1, <2>2, RecordsInOrder
  <2>4. n = Len(r)
    BY <1>1, <2>1, <2>3
  <2> QED BY <1>1, <2>4 DEF Hashes, HashesTo
<1>5. appends \in Nat
  BY DEF TypeOK
<1> QED BY <1>2, <1>3, <1>4, <1>5 DEF Covers, GenesisPrevHash

LEMMA TrustInvStart == Init => TrustInv
BY CoversNothing DEF Init, TrustInv

LEMMA TrustInvStep ==
    ASSUME TypeOK, FileInv, TrustInv, [Next]_vars
    PROVE  TrustInv'
<1> DEFINE R == Records(file)
<1>1. /\ file \in Seq(Line) /\ R \in Seq(Record) /\ appends \in Nat /\ anchor \in anchors
      /\ log \in [open: BOOLEAN, seq: Nat, prev: Nat]
  BY RecordsType DEF TypeOK
<1>2. /\ \A a \in anchors : a.state # "corrupt" => Covers(R, trusted, a.RecordHash)
      /\ log.open => Covers(R, trusted, log.prev)
  BY DEF TrustInv
<1> HIDE DEF R
<1>4. CASE Open
  <2>1. Covers(R, trusted, log'.prev)
    BY <1>1, <1>2, <1>4, OpensAtItsAnchor DEF Open, R
  <2> QED BY <1>2, <1>4, <2>1 DEF Open, TrustInv, disk, ghosts, R
<1>5. CASE AppendNothing
  BY <1>2, <1>5 DEF AppendNothing, TrustInv, disk, ghosts, R
<1>6. CASE AppendWrite
  <2>1. PICK form \in Form : file' = Append(file, [rec |-> NewRecord, form |-> form])
    BY <1>6 DEF AppendWrite, Form
  <2>2. UNCHANGED <<anchors, log, trusted>>
    BY <1>6 DEF AppendWrite
  <2>3. NewRecord \in Record /\ NewRecord.RecordHash = appends + 1
    BY NewRecordType DEF NewRecord
  <2>4. [rec |-> NewRecord, form |-> form] \in Line
    BY <2>3 DEF Line
  <2>5. Records(file') = Append(R, NewRecord) \/ Records(file') = R
    BY <1>1, <2>1, <2>4, RecordsOfAppend DEF R
  <2>6. ASSUME NEW h \in Nat, h <= appends, Covers(R, trusted, h)
        PROVE  Covers(Records(file'), trusted, h)
    <3>1. NewRecord.RecordHash # h
      BY <1>1, <2>3, <2>6
    <3> QED BY <1>1, <2>3, <2>5, <2>6, <3>1, CoversLonger
  <2>7. ASSUME NEW a \in anchors, a.state # "corrupt"
        PROVE  Covers(Records(file'), trusted, a.RecordHash)
    <3>1. a.RecordHash \in Nat /\ a.RecordHash <= appends
      BY DEF FileInv, KnownHash, TypeOK, Anchor
    <3> QED BY <1>2, <2>6, <2>7, <3>1
  <2>8. log.open => Covers(Records(file'), trusted, log.prev)
    BY <1>1, <1>2, <2>6 DEF FileInv
  <2> QED BY <2>2, <2>7, <2>8 DEF TrustInv
<1>7. CASE AppendSync
  <2>1. UNCHANGED <<file, anchors, trusted>> /\ log'.prev = appends
    BY <1>1, <1>7 DEF AppendSync, ghosts
  <2>2. Covers(R, trusted, appends)
    <3>1. log.open /\ appends # GenesisPrevHash
      BY <1>1, <1>7 DEF AppendSync, FileInv, GenesisPrevHash
    <3>2. \A i \in DOMAIN file : file[i].rec.RecordHash = appends
            => file[i].rec.PrevRecordHash = log.prev
      BY <1>7 DEF AppendSync, FileInv
    <3>3. \A n \in DOMAIN R : R[n].RecordHash = appends => R[n].PrevRecordHash = log.prev
      BY <1>1, <3>2, RecordsType DEF R
    <3> QED BY <1>1, <1>2, <3>1, <3>3, CoversNext
  <2> QED BY <1>2, <2>1, <2>2 DEF TrustInv, R
<1>8. CASE AppendSyncFails
  BY <1>2, <1>8 DEF AppendSyncFails, TrustInv, disk, R
<1>9. CASE AnchorWrite
  <2>1. log.open /\ log.prev # GenesisPrevHash /\ Covers(R, trusted, log.prev)
    BY <1>1, <1>2, <1>9 DEF AnchorWrite, FileInv, GenesisPrevHash
  <2>2. PICK synced \in BOOLEAN :
          /\ anchors' = {anchor'} \cup (IF synced THEN {} ELSE anchors)
          /\ trusted' = trusted \cup (IF synced THEN {log.prev} ELSE {})
    BY <1>9 DEF AnchorWrite, DirSync
  <2>3. UNCHANGED <<file, log>> /\ anchor'.RecordHash = log.prev
    BY <1>1, <1>9, AnchorsNamed DEF AnchorWrite
  <2>4. Covers(R, trusted \cup {log.prev}, log.prev)
    BY <1>1, <2>1, CoversItself
  <2>5. CASE synced
    <3>1. trusted' = trusted \cup {log.prev} /\ anchors' = {anchor'}
      BY <2>2, <2>5
    <3> QED BY <2>3, <2>4, <3>1 DEF TrustInv, R
  <2>6. CASE ~synced
    <3>1. trusted' = trusted /\ anchors' = anchors \cup {anchor'}
      BY <2>2, <2>6
    <3> QED BY <1>2, <2>1, <2>3, <3>1 DEF TrustInv, R
  <2> QED BY <2>5, <2>6
<1>10. CASE AnchorFails
  <2>1. log.open /\ Covers(R, trusted, log.prev)
    BY <1>1, <1>2, <1>10 DEF AnchorFails, FileInv
  <2>2. UNCHANGED <<file, log, trusted>>
    BY <1>10 DEF AnchorFails
  <2>3. \A a \in anchors' : a \in anchors \/ a.RecordHash = log.prev
    BY <1>1, <1>10, AnchorsNamed DEF AnchorFails
  <2> QED BY <1>2, <2>1, <2>2, <2>3 DEF TrustInv, R
<1>11. CASE RemoveAnchor
  BY <1>11, CoversNothing DEF RemoveAnchor, TrustInv
<1>12. CASE InitAnchor
  <2>1. PICK synced \in BOOLEAN :
          /\ anchors' = {anchor'} \cup (IF synced THEN {} ELSE anchors)
          /\ trusted' = IF synced THEN Hashes(file) ELSE {}
    BY <1>12 DEF InitAnchor, DirSync
  <2>2. UNCHANGED <<file, log>> /\ ~log.open /\ anchor'.RecordHash = HeadHash(R)
    BY <1>1, <1>12, AnchorsNamed, HeadType DEF InitAnchor, R
  <2>3. CASE synced
    <3>1. trusted' = Hashes(file) /\ anchors' = {anchor'}
      BY <2>1, <2>3
    <3> QED BY <2>2, <3>1, CoversTheFile DEF TrustInv, R
  <2>4. CASE ~synced
    <3>1. trusted' = {}
      BY <2>1, <2>4
    <3> QED BY <3>1, CoversNothing DEF TrustInv
  <2> QED BY <2>3, <2>4
<1>13. CASE Crash
  BY <1>2, <1>13 DEF Crash, Stop, Closed, TrustInv, disk, ghosts, R
<1>14. CASE PowerLoss
  <2>1. log' = Closed /\ trusted' = trusted /\ \A a \in anchors' : a \in anchors
    BY <1>14 DEF PowerLoss, Stop, ghosts
  <2>2. \A h : Covers(R, trusted, h) => Covers(Records(file'), trusted, h)
    BY <1>1, <1>14, PowerLossKeeps, CoversAStart DEF R
  <2> QED BY <1>2, <2>1, <2>2 DEF TrustInv, Closed
<1>15. CASE LoseTail
  <2>1. \A h : Covers(R, trusted, h) => Covers(Records(file'), trusted, h)
    BY <1>1, <1>15, LoseTailKeeps, CoversAStart DEF R
  <2> QED BY <1>2, <1>15, <2>1 DEF LoseTail, TrustInv
<1>16. CASE DamageAnchor
  BY <1>2, <1>16, AnchorsNamed DEF DamageAnchor, TrustInv, R
<1>17. CASE UNCHANGED vars
  BY <1>2, <1>17 DEF vars, disk, ghosts, TrustInv, R
<1> QED BY <1>4, <1>5, <1>6, <1>7, <1>8, <1>9, <1>10, <1>11, <1>12, <1>13, <1>14, <1>15,
           <1>16, <1>17 DEF Next, Service, Operator, Environment

---------------------------------------------------------------------------
(* The undamaged log.                                                      *)

LEMMA IntactStart == Init => IntactInv
<1> SUFFICES ASSUME Init PROVE IntactInv
  OBVIOUS
<1>1. file = << >> /\ trusted = {} /\ log.open = FALSE /\ pc = "ready" /\ anchors = {NoAnchor}
  BY DEF Init, Closed
<1>2. InPlace(file) /\ EndsWhole(file)
  BY <1>1 DEF InPlace, EndsWhole
<1> QED BY <1>1, <1>2 DEF IntactInv, NamesItsRecord, ComesAfter

\* The undamaged file, read as records.
LEMMA IntactRecords ==
    ASSUME TypeOK, IntactInv, ~marred
    PROVE  /\ Len(file) \in Nat /\ DOMAIN file = 1..Len(file)
           /\ DOMAIN Records(file) = DOMAIN file /\ Len(Records(file)) = Len(file)
           /\ \A n \in DOMAIN file : Records(file)[n] = file[n].rec
           /\ Verify(Records(file))
           /\ HeadSeq(Records(file)) = Len(file)
           /\ HeadHash(Records(file)) =
                  IF Len(file) = 0 THEN GenesisPrevHash ELSE file[Len(file)].rec.RecordHash
           /\ EndsWhole(file) => Readable(file)
<1>1. /\ file \in Seq(Line) /\ Len(file) \in Nat /\ DOMAIN file = 1..Len(file)
      /\ InPlace(file)
      /\ \A i \in 1..Len(file) : i < Len(file) => file[i].form = "whole"
  BY DEF TypeOK, IntactInv
<1>2. /\ DOMAIN Records(file) = DOMAIN file /\ Len(Records(file)) = Len(file)
      /\ \A n \in DOMAIN file : Records(file)[n] = file[n].rec
      /\ LineStarts(file) = 1..Len(file)
  BY <1>1, RecordsOfWhole
<1>3. Verify(Records(file))
  <2> SUFFICES ASSUME NEW n \in DOMAIN file PROVE Linked(Records(file), n)
    BY <1>2 DEF Verify
  <2>1. n # 1 => n - 1 \in DOMAIN file /\ n - 1 \in Nat
    BY <1>1
  <2>2. n \in Nat /\ n >= 1
    BY <1>1
  <2>3. /\ Records(file)[n].Seq = n
        /\ n # 1 => Records(file)[n - 1].Seq = n - 1
        /\ Records(file)[n].PrevRecordHash =
               IF n = 1 THEN GenesisPrevHash ELSE Records(file)[n - 1].RecordHash
    BY <1>1, <1>2, <2>1 DEF InPlace
  <2> QED BY <2>2, <2>3 DEF Linked
<1>4. Records(file) = << >> <=> Len(file) = 0
  <2>1. Records(file) \in Seq(Record)
    BY <1>1, RecordsType
  <2> QED BY <1>2, <2>1
<1>5. Len(file) # 0 => Len(file) \in DOMAIN file
  BY <1>1
<1>6. HeadSeq(Records(file)) = Len(file)
  BY <1>1, <1>2, <1>4, <1>5 DEF HeadSeq, InPlace
<1>7. HeadHash(Records(file)) =
          IF Len(file) = 0 THEN GenesisPrevHash ELSE file[Len(file)].rec.RecordHash
  BY <1>2, <1>4, <1>5 DEF HeadHash
<1>8. EndsWhole(file) => Readable(file)
  <2>1. file # << >> <=> Len(file) # 0
    BY <1>1
  <2>2. ASSUME EndsWhole(file), NEW i \in LineStarts(file) PROVE file[i].form # "torn"
    <3>1. i \in 1..Len(file) /\ (i < Len(file) \/ (i = Len(file) /\ file # << >>))
      BY <1>1, <1>2, <2>1
    <3>2. file[i].form = "whole"
      BY <1>1, <2>2, <3>1 DEF EndsWhole
    <3> QED BY <3>2
  <2> QED BY <2>2 DEF Readable
<1> QED BY <1>1, <1>2, <1>3, <1>6, <1>7, <1>8

\* A log that opens ends with a whole line, and all of it is on storage.
LEMMA OpensWhole ==
    ASSUME TypeOK, FileInv, IntactInv, ~marred, Judge(file, anchor) = "ok"
    PROVE  EndsWhole(file) /\ durable = Len(file)
<1>1. /\ anchor \in anchors /\ anchor.Seq \in Nat /\ durable \in Nat /\ durable <= Len(file)
      /\ Len(file) \in Nat
  BY IntactRecords DEF TypeOK, Anchor
<1>2. /\ EndsWhole(file) \/ anchor.Seq < Len(file)
      /\ anchor = NoAnchor \/ anchor.Seq <= durable
  BY <1>1 DEF IntactInv, NamesItsRecord
<1>3. /\ HeadSeq(Records(file)) = anchor.Seq \/ anchor.state = "absent"
      /\ anchor.state = "absent" => Records(file) = << >>
  BY OpensAtItsAnchor
<1>4. Len(file) = anchor.Seq \/ Len(file) = 0
  BY <1>3, IntactRecords DEF HeadSeq
<1>5. EndsWhole(file)
  BY <1>1, <1>2, <1>4
<1>6. anchor.Seq <= durable
  BY <1>1, <1>2, AnchorsNamed
<1> QED BY <1>1, <1>4, <1>5, <1>6

LEMMA IntactStep ==
    ASSUME TypeOK, FileInv, IntactInv, [Next]_vars
    PROVE  IntactInv'
<1> SUFFICES ASSUME ~marred' PROVE IntactInv'
  BY DEF IntactInv
<1>1. /\ file \in Seq(Line) /\ Len(file) \in Nat /\ DOMAIN file = 1..Len(file)
      /\ durable \in Nat /\ durable <= Len(file)
      /\ file # << >> <=> Len(file) # 0
      /\ appends \in Nat /\ anchor \in anchors
      /\ log \in [open: BOOLEAN, seq: Nat, prev: Nat]
      /\ \A a \in anchors : a.Seq \in Nat
      /\ pc # "ready" => log.open
  BY DEF TypeOK, Anchor, FileInv
<1>2. ~marred => 
      /\ InPlace(file)
      /\ \A i \in DOMAIN file : i < Len(file) => file[i].form = "whole"
      /\ \A a \in anchors : /\ NamesItsRecord(a, file, durable)
                            /\ ComesAfter(a, file, trusted)
                            /\ EndsWhole(file) \/ a.Seq < Len(file)
      /\ log.open =>
            /\ EndsWhole(file)
            /\ log.seq = (IF pc = "sync" THEN Len(file) - 1 ELSE Len(file))
            /\ log.prev = IF log.seq = 0 THEN GenesisPrevHash ELSE file[log.seq].rec.RecordHash
      /\ log.open /\ pc # "sync" => durable = Len(file)
      /\ pc = "sync" => file # << >> /\ file[Len(file)].rec.RecordHash = appends
  BY DEF IntactInv
<1>3. CASE Open
  <2>1. ~marred /\ ~log.open /\ pc = "ready" /\ UNCHANGED <<file, durable, anchor, anchors, pc, trusted>>
    BY <1>1, <1>3 DEF Open, ghosts, disk
  <2>2. EndsWhole(file) /\ durable = Len(file)
    BY <1>3, <2>1, OpensWhole DEF Open
  <2>3. log'.seq = Len(file) /\ log'.prev = HeadHash(Records(file)) /\ Len(file) \in Nat
    BY <1>3, <2>1, IntactRecords DEF Open
  <2>4. log'.prev = IF log'.seq = 0 THEN GenesisPrevHash ELSE file[log'.seq].rec.RecordHash
    BY <2>1, <2>3, IntactRecords
  <2> QED BY <1>2, <2>1, <2>2, <2>3, <2>4 DEF IntactInv
<1>4. CASE AppendNothing
  BY <1>2, <1>4 DEF AppendNothing, IntactInv, disk, ghosts
<1>5. CASE AppendWrite
  <2>1. PICK form \in Form : /\ file' = Append(file, [rec |-> NewRecord, form |-> form])
                             /\ pc' = IF form = "whole" THEN "sync" ELSE "ready"
                             /\ marred' = (marred \/ form # "whole")
    BY <1>5 DEF AppendWrite, Form
  <2>2. /\ form = "whole" /\ ~marred /\ pc' = "sync" /\ pc = "ready" /\ log.open
        /\ appends' = appends + 1
        /\ UNCHANGED <<durable, anchor, anchors, log, trusted>>
    BY <1>5, <2>1 DEF AppendWrite
  <2> DEFINE l == [rec |-> NewRecord, form |-> form]
             k == Len(file) + 1
  <2>3. l \in Line /\ l.rec = NewRecord /\ l.form = "whole"
    BY <2>2, NewRecordType DEF Line
  <2>4. /\ NewRecord.Seq = log.seq + 1 /\ NewRecord.PrevRecordHash = log.prev
        /\ NewRecord.RecordHash = appends + 1
    BY DEF NewRecord
  <2> HIDE DEF l
  <2>5. /\ Len(file') = k /\ k \in Nat /\ DOMAIN file' = 1..k /\ file'[k] = l
        /\ \A i \in DOMAIN file : file'[i] = file[i] /\ i \in DOMAIN file'
        /\ \A i \in DOMAIN file' : i \in DOMAIN file \/ i = k
        /\ file' # << >>
    BY <1>1, <2>1, <2>3 DEF l
  <2>6. /\ log.seq = Len(file)
        /\ log.prev = IF log.seq = 0 THEN GenesisPrevHash ELSE file[log.seq].rec.RecordHash
        /\ EndsWhole(file)
    BY <1>2, <2>2
  <2> HIDE DEF k
  <2>7. k = Len(file) + 1 /\ k - 1 = Len(file)
    BY <1>1 DEF k
  <2>8. log.seq # 0 => log.seq \in DOMAIN file
    BY <1>1, <2>6
  <2>9. InPlace(file')
    <3>1. ASSUME NEW i \in DOMAIN file
          PROVE  /\ file'[i].rec.Seq = i
                 /\ file'[i].rec.PrevRecordHash =
                        IF i = 1 THEN GenesisPrevHash ELSE file'[i - 1].rec.RecordHash
      <4>1. i # 1 => i - 1 \in DOMAIN file
        BY <1>1
      <4> QED BY <1>2, <2>2, <2>5, <4>1 DEF InPlace
    <3>2. file'[k].rec.Seq = k
      BY <2>3, <2>4, <2>5, <2>6, <2>7
    <3>3. file'[k].rec.PrevRecordHash =
              IF k = 1 THEN GenesisPrevHash ELSE file'[k - 1].rec.RecordHash
      <4>1. k = 1 <=> log.seq = 0
        BY <1>1, <2>6, <2>7
      <4>2. k # 1 => file'[k - 1] = file[log.seq]
        BY <2>5, <2>6, <2>7, <2>8, <4>1
      <4> QED BY <2>3, <2>4, <2>5, <2>6, <4>1, <4>2
    <3> QED BY <2>5, <3>1, <3>2, <3>3 DEF InPlace
  <2>10. \A i \in DOMAIN file' : i < Len(file') => file'[i].form = "whole"
    <3> SUFFICES ASSUME NEW i \in DOMAIN file', i < k PROVE file'[i].form = "whole"
      BY <2>5
    <3>1. i \in DOMAIN file /\ (i < Len(file) \/ (i = Len(file) /\ file # << >>))
      BY <1>1, <2>5, <2>7
    <3>2. file[i].form = "whole"
      BY <1>2, <2>2, <2>6, <3>1 DEF EndsWhole
    <3> QED BY <2>5, <3>1, <3>2
  <2>11. EndsWhole(file')
    BY <2>3, <2>5 DEF EndsWhole
  <2>12. ASSUME NEW a \in anchors
         PROVE  NamesItsRecord(a, file', durable) /\ ComesAfter(a, file', trusted)
    <3>1. NamesItsRecord(a, file, durable) /\ ComesAfter(a, file, trusted)
      BY <1>2, <2>2
    <3>2. \A i \in 1..a.Seq : i \in DOMAIN file
      BY <1>1, <3>1, AnchorsNamed DEF NamesItsRecord
    <3>3. a.Seq \in 1..durable => a.Seq \in DOMAIN file
      BY <1>1
    <3> QED BY <2>5, <3>1, <3>2, <3>3 DEF NamesItsRecord, ComesAfter
  <2>13. /\ log.seq = Len(file') - 1
         /\ log.prev = IF log.seq = 0 THEN GenesisPrevHash ELSE file'[log.seq].rec.RecordHash
    BY <2>5, <2>6, <2>7, <2>8
  <2>14. file'[Len(file')].rec.RecordHash = appends'
    BY <2>2, <2>3, <2>4, <2>5
  <2> QED BY <2>2, <2>5, <2>9, <2>10, <2>11, <2>12, <2>13, <2>14 DEF IntactInv
<1>6. CASE AppendSync
  <2>1. /\ pc = "sync" /\ pc' = "anchor" /\ durable' = Len(file) /\ ~marred
        /\ UNCHANGED <<file, anchor, anchors, trusted>>
        /\ log' = [open |-> log.open, seq |-> log.seq + 1, prev |-> appends]
    BY <1>1, <1>6 DEF AppendSync, ghosts
  <2>2. log'.seq = Len(file) /\ log'.prev = appends /\ log.open /\ Len(file) # 0
    BY <1>1, <1>2, <2>1
  <2>3. log'.prev = IF log'.seq = 0 THEN GenesisPrevHash ELSE file[log'.seq].rec.RecordHash
    BY <1>2, <2>1, <2>2
  <2>4. \A a \in anchors : NamesItsRecord(a, file, Len(file))
    BY <1>1, <1>2, <2>1 DEF NamesItsRecord
  <2> QED BY <1>2, <2>1, <2>2, <2>3, <2>4 DEF IntactInv
<1>7. CASE AppendSyncFails
  BY <1>7 DEF AppendSyncFails
<1>8. CASE AnchorWrite \/ AnchorFails
  <2>1. /\ pc = "anchor" /\ pc' = "ready" /\ ~marred /\ log.open
        /\ UNCHANGED <<file, durable, log>>
    BY <1>1, <1>8 DEF AnchorWrite, AnchorFails
  <2> DEFINE b == AnchorOf(log.seq, log.prev)
  <2>2. /\ \A a \in anchors' : a \in anchors \/ a = b
        /\ trusted' = trusted \/ (trusted' = trusted \cup {log.prev} /\ anchors' = {b})
    BY <1>8 DEF AnchorWrite, AnchorFails, DirSync
  <2>3. /\ log.seq = Len(file) /\ durable = Len(file) /\ log.seq >= 1
        /\ log.prev = file[log.seq].rec.RecordHash /\ EndsWhole(file)
    <3>1. log.seq >= 1
      BY <2>1 DEF FileInv
    <3>2. /\ log.seq = Len(file) /\ durable = Len(file) /\ EndsWhole(file)
          /\ log.prev = IF log.seq = 0 THEN GenesisPrevHash ELSE file[log.seq].rec.RecordHash
      BY <1>2, <2>1
    <3> QED BY <1>1, <3>1, <3>2
  <2>4. b.state = "sound" /\ b.Seq = log.seq /\ b.RecordHash = log.prev
    BY <1>1, AnchorsNamed
  <2> HIDE DEF b
  <2>5. NamesItsRecord(b, file, durable)
    BY <1>1, <2>3, <2>4 DEF NamesItsRecord
  <2>6. ComesAfter(b, file, trusted \cup {log.prev})
    <3>1. \E i \in 1..log.seq : file[i].rec.RecordHash = log.prev
      BY <1>1, <2>3
    <3>2. ASSUME NEW h \in trusted PROVE \E i \in 1..log.seq : file[i].rec.RecordHash = h
      <4>1. PICK i \in 1..anchor.Seq : file[i].rec.RecordHash = h
        BY <1>1, <1>2, <2>1 DEF ComesAfter
      <4>2. anchor.Seq <= durable
        BY <1>1, <1>2, <2>1, AnchorsNamed DEF NamesItsRecord
      <4>3. i \in 1..log.seq
        BY <1>1, <2>3, <4>2
      <4> QED BY <4>1, <4>3
    <3> QED BY <2>4, <3>1, <3>2 DEF ComesAfter
  <2>7. ASSUME NEW a \in anchors'
        PROVE  NamesItsRecord(a, file, durable) /\ ComesAfter(a, file, trusted')
    BY <1>2, <2>1, <2>2, <2>5, <2>6, <2>7 DEF ComesAfter
  <2> QED BY <1>2, <2>1, <2>3, <2>7 DEF IntactInv
<1>9. CASE RemoveAnchor \/ InitAnchor \/ LoseTail \/ DamageAnchor
  BY <1>9 DEF RemoveAnchor, InitAnchor, LoseTail, DamageAnchor
<1>10. CASE Crash
  BY <1>2, <1>10 DEF Crash, Stop, Closed, IntactInv, disk, ghosts
<1>11. CASE PowerLoss
  <2>1. /\ ~marred /\ ~log'.open /\ pc' = "ready" /\ durable' = Len(file')
        /\ UNCHANGED trusted /\ \A a \in anchors' : a \in anchors
    BY <1>11 DEF PowerLoss, Stop, Closed, ghosts
  <2>2. /\ IsStartOf(file', file) /\ Len(file') \in Nat /\ durable <= Len(file')
        /\ Len(file') = durable => file' = SubSeq(file, 1, durable)
    BY <1>11, PowerLossKeeps
  <2>3. /\ file' \in Seq(Line) /\ Len(file') <= Len(file) /\ DOMAIN file' = 1..Len(file')
        /\ \A i \in DOMAIN file' : /\ i \in DOMAIN file /\ file'[i].rec = file[i].rec
                                   /\ i < Len(file') => file'[i].form = file[i].form
    BY <1>1, <2>2 DEF IsStartOf
  <2>4. InPlace(file')
    <3> SUFFICES ASSUME NEW i \in DOMAIN file'
                 PROVE  /\ file'[i].rec.Seq = i
                        /\ file'[i].rec.PrevRecordHash =
                               IF i = 1 THEN GenesisPrevHash ELSE file'[i - 1].rec.RecordHash
      BY DEF InPlace
    <3>1. i # 1 => i - 1 \in DOMAIN file'
      BY <2>2, <2>3
    <3> QED BY <1>2, <2>1, <2>3, <3>1 DEF InPlace
  <2>5. \A i \in DOMAIN file' : i < Len(file') => file'[i].form = "whole"
    <3>1. \A i \in DOMAIN file' : i < Len(file') => i < Len(file)
      <4>1. Len(file') \in Nat /\ Len(file) \in Nat /\ Len(file') <= Len(file)
        BY <1>1, <2>2, <2>3
      <4>2. \A i \in 1..Len(file') : i < Len(file') => i < Len(file)
        BY <4>1
      <4> QED BY <2>3, <4>2
    <3> QED BY <1>2, <2>1, <2>3, <3>1
  <2>6. ASSUME NEW a \in anchors
        PROVE  /\ NamesItsRecord(a, file', Len(file')) /\ ComesAfter(a, file', trusted)
               /\ EndsWhole(file') \/ a.Seq < Len(file')
    <3>1. /\ NamesItsRecord(a, file, durable) /\ ComesAfter(a, file, trusted)
          /\ EndsWhole(file) \/ a.Seq < Len(file)
      BY <1>2, <2>1
    <3>2. a.Seq <= durable /\ \A i \in 1..a.Seq : i \in DOMAIN file'
      <4>1. a.Seq \in Nat /\ a.Seq <= durable
        BY <1>1, <3>1, AnchorsNamed DEF NamesItsRecord
      <4>2. \A i \in 1..a.Seq : i \in 1..Len(file')
        BY <1>1, <2>2, <4>1
      <4> QED BY <2>3, <4>1, <4>2
    <3>3. NamesItsRecord(a, file', Len(file'))
      <4>1. ASSUME a.Seq \in 1..durable
            PROVE  a.Seq \in 1..Len(file') /\ file'[a.Seq].rec = file[a.Seq].rec
        <5>1. a.Seq \in 1..a.Seq /\ a.Seq \in 1..Len(file')
          BY <1>1, <2>2, <4>1
        <5> QED BY <2>3, <5>1
      <4> QED BY <3>1, <4>1 DEF NamesItsRecord
    <3>4. ComesAfter(a, file', trusted)
      BY <2>3, <3>1, <3>2 DEF ComesAfter
    <3>5. CASE durable < Len(file')
      BY <1>1, <2>2, <3>2, <3>5, <3>3, <3>4
    <3>6. CASE durable = Len(file')
      <4>1. file' # << >> => /\ durable \in DOMAIN file /\ file'[durable] = file[durable]
        BY <1>1, <2>2, <2>3, <3>6
      <4>2. CASE durable < Len(file)
        BY <1>1, <1>2, <2>1, <3>3, <3>4, <3>6, <4>1, <4>2 DEF EndsWhole
      <4>3. CASE durable = Len(file)
        BY <1>1, <3>1, <3>3, <3>4, <3>6, <4>1, <4>3 DEF EndsWhole
      <4>4. durable < Len(file) \/ durable = Len(file)
        <5>1. durable \in Nat /\ Len(file) \in Nat /\ durable <= Len(file)
          BY <1>1
        <5> QED BY <5>1
      <4> QED BY <4>2, <4>3, <4>4
    <3> QED BY <1>1, <2>2, <3>5, <3>6
  <2> QED BY <2>1, <2>4, <2>5, <2>6 DEF IntactInv
<1>12. CASE UNCHANGED vars
  BY <1>2, <1>12 DEF vars, disk, ghosts, IntactInv
<1> QED BY <1>3, <1>4, <1>5, <1>6, <1>7, <1>8, <1>9, <1>10, <1>11, <1>12
        DEF Next, Service, Operator, Environment

---------------------------------------------------------------------------
(* What follows.                                                           *)

\* The inductive invariant: the order of the file, what each head stands for, and
\* the undamaged log.
THEOREM LogInvariantHolds == Spec => []LogIInv
<1>1. Init => LogIInv
  BY FileInvStart, TrustInvStart, IntactStart DEF LogIInv
<1>2. TypeOK /\ LogIInv /\ [Next]_vars => LogIInv'
  BY FileInvStep, TrustInvStep, IntactStep DEF LogIInv
<1> QED BY <1>1, <1>2, TypeCorrect, PTL DEF Spec

\* No other step opens the log.
LEMMA OnlyOpenOpens ==
    ASSUME TypeOK, FileInv, [Next]_vars, Opens
    PROVE  Open
<1>1. ~log.open /\ log'.open /\ pc = "ready"
  BY DEF Opens, FileInv
<1>2. log' = log \/ log' = Closed \/ Open
  BY <1>1 DEF Next, Service, Operator, Environment, AppendNothing, AppendWrite, AppendSync,
              AppendSyncFails, AnchorWrite, AnchorFails, RemoveAnchor, InitAnchor, Crash,
              PowerLoss, LoseTail, DamageAnchor, Stop, vars
<1> QED BY <1>1, <1>2 DEF Closed

LEMMA OpenFindsAll ==
    ASSUME TypeOK, FileInv, TrustInv, Judge(file, anchor) = "ok"
    PROVE  trusted \subseteq Hashes(file)
<1> DEFINE R == Records(file)
<1>1. /\ anchor.state # "corrupt" /\ HeadHash(R) = anchor.RecordHash /\ Verify(R)
      /\ anchor \in anchors
  BY OpensAtItsAnchor DEF TypeOK
<1>2. Covers(R, trusted, HeadHash(R))
  BY <1>1 DEF TrustInv
<1>3. R \in Seq(Record) /\ DOMAIN R = 1..Len(R) /\ Len(R) \in Nat
  BY RecordsType DEF TypeOK
<1> HIDE DEF R
<1>4. CASE R = << >>
  BY <1>2, <1>4 DEF Covers, HeadHash
<1>5. CASE R # << >>
  <2>1. Len(R) \in DOMAIN R /\ R[Len(R)].RecordHash = HeadHash(R)
    BY <1>3, <1>5 DEF HeadHash
  <2>2. Chained(R, Len(R))
    BY <1>1, <1>3 DEF Chained, Verify
  <2>3. trusted \subseteq HashesTo(R, Len(R))
    BY <1>2, <2>1, <2>2 DEF Covers
  <2> QED BY <1>3, <2>3 DEF HashesTo, Hashes, R
<1> QED BY <1>4, <1>5

\* A log that Open accepts holds every record whose Append returned with its
\* anchor on storage, or that was adopted, whatever crashes, power losses, failed
\* syncs and anchors, damage and recoveries came before.
THEOREM OpenMissesNothing == Spec => NothingTrustedIsMissing
<1> DEFINE Kept == Opens => trusted \subseteq Hashes(file)
<1>1. TypeOK /\ LogIInv /\ [Next]_vars => Kept
  BY OnlyOpenOpens, OpenFindsAll DEF LogIInv, Open
<1> QED BY <1>1, TypeCorrect, LogInvariantHolds, PTL DEF Spec, NothingTrustedIsMissing

LEMMA JudgedFairly == TypeOK /\ LogIInv => NoFalseAlarm
<1> SUFFICES ASSUME TypeOK, FileInv, IntactInv, ~marred
             PROVE  Judge(file, anchor) \in {"ok", "ahead", "missing", "malformed"}
  BY DEF NoFalseAlarm, LogIInv
<1>1. /\ Verify(Records(file)) /\ HeadSeq(Records(file)) = Len(file) /\ Len(file) \in Nat
      /\ HeadHash(Records(file)) =
             IF Len(file) = 0 THEN GenesisPrevHash ELSE file[Len(file)].rec.RecordHash
  BY IntactRecords
<1>2. anchor \in anchors /\ durable \in Nat /\ durable <= Len(file)
  BY <1>1 DEF TypeOK
<1>3. NamesItsRecord(anchor, file, durable)
  BY <1>2 DEF IntactInv
<1>4. CASE anchor = NoAnchor
  BY <1>1, <1>4, AnchorsNamed DEF Judge, CheckAnchor
<1>5. CASE anchor # NoAnchor
  <2>1. /\ anchor.state = "sound" /\ anchor.Seq \in 1..durable
        /\ anchor.RecordHash = file[anchor.Seq].rec.RecordHash
    BY <1>3, <1>5 DEF NamesItsRecord
  <2>2. anchor.Seq \in Nat /\ ~(Len(file) < anchor.Seq)
    BY <1>1, <1>2, <2>1
  <2>3. anchor.Seq = Len(file) => HeadHash(Records(file)) = anchor.RecordHash
    BY <1>1, <1>2, <2>1
  <2>4. CheckAnchor(anchor, Records(file)) \in {"ok", "ahead"}
    <3>1. CASE anchor.Seq = Len(file)
      BY <1>1, <2>1, <2>2, <2>3, <3>1 DEF CheckAnchor
    <3>2. CASE anchor.Seq < Len(file)
      BY <1>1, <2>1, <2>2, <3>2 DEF CheckAnchor
    <3> QED BY <1>1, <2>2, <3>1, <3>2
  <2> QED BY <1>1, <2>4 DEF Judge
<1> QED BY <1>4, <1>5

\* A log nobody damaged is never taken for truncated, tampered or broken: crashes,
\* power losses and failed anchors send the operator no such alarm.
THEOREM NoAlarmIsFalse == Spec => []NoFalseAlarm
BY JudgedFairly, TypeCorrect, LogInvariantHolds, PTL

\* What an operator finds beyond the anchor of a log nobody damaged was never
\* acknowledged with its anchor on storage.
THEOREM AheadWasNotAcknowledged == Spec => []AheadIsUnacknowledged
<1>1. TypeOK /\ LogIInv => AheadIsUnacknowledged
  <2> SUFFICES ASSUME TypeOK, FileInv, IntactInv, ~marred, NEW n \in DOMAIN Records(file),
                      Records(file)[n].Seq > anchor.Seq, Records(file)[n].RecordHash \in trusted
               PROVE  FALSE
    BY DEF AheadIsUnacknowledged, LogIInv
  <2>1. /\ n \in DOMAIN file /\ n \in Nat /\ Records(file)[n] = file[n].rec
        /\ DOMAIN file = 1..Len(file) /\ Len(file) \in Nat
    BY IntactRecords
  <2>2. anchor \in anchors /\ anchor.Seq \in Nat /\ durable \in Nat /\ durable <= Len(file)
    BY <2>1 DEF TypeOK, Anchor
  <2>3. /\ InPlace(file) /\ NamesItsRecord(anchor, file, durable)
        /\ ComesAfter(anchor, file, trusted)
    BY <2>2 DEF IntactInv
  <2>4. file[n].rec.Seq = n /\ n > anchor.Seq
    BY <2>1, <2>3 DEF InPlace
  <2>5. PICK i \in 1..anchor.Seq : file[i].rec.RecordHash = file[n].rec.RecordHash
    BY <2>1, <2>3 DEF ComesAfter
  <2>6. i \in DOMAIN file /\ i < n
    BY <2>1, <2>2, <2>4, <2>5
  <2>7. /\ file[i].rec.RecordHash < file[n].rec.RecordHash
        /\ file[i].rec.RecordHash \in 1..appends /\ file[n].rec.RecordHash \in 1..appends
    BY <2>1, <2>6 DEF FileInv, HashesInOrder
  <2> QED BY <2>5, <2>7
<1> QED BY <1>1, TypeCorrect, LogInvariantHolds, PTL

\* Between calls the writer stands at the end of an undamaged file, after failed
\* calls and restarts too: it never forks the chain.
THEOREM WriterStaysAtTheHead == Spec => []WriterIsAtTheHead
<1>1. TypeOK /\ LogIInv => WriterIsAtTheHead
  <2> SUFFICES ASSUME TypeOK, FileInv, IntactInv, ~marred, log.open, pc = "ready"
               PROVE  /\ Readable(file)
                      /\ log.seq = HeadSeq(Records(file)) /\ log.prev = HeadHash(Records(file))
    BY DEF WriterIsAtTheHead, LogIInv
  <2>1. /\ EndsWhole(file) /\ log.seq = Len(file)
        /\ log.prev = IF log.seq = 0 THEN GenesisPrevHash ELSE file[log.seq].rec.RecordHash
    BY DEF IntactInv
  <2> QED BY <2>1, IntactRecords
<1> QED BY <1>1, TypeCorrect, LogInvariantHolds, PTL

---------------------------------------------------------------------------
(* The trail.                                                              *)

\* The lines of a file are legible up to some line and no further.
LEMMA LegibleType ==
    ASSUME NEW f \in Seq(Line)
    PROVE  /\ Legible(f) \in Seq(Nat)
           /\ \A n : n \in DOMAIN Legible(f) <=> n \in DOMAIN Records(f) /\ ReadableTo(f, n)
           /\ \A n \in DOMAIN Legible(f) : Legible(f)[n] = Records(f)[n].RecordHash
<1> DEFINE D == {m \in DOMAIN Records(f) : ReadableTo(f, m)}
<1>1. Legible(f) = [n \in D |-> Records(f)[n].RecordHash]
  BY DEF Legible
<1>2. /\ Records(f) \in Seq(Record) /\ DOMAIN Records(f) = 1..Len(Records(f))
      /\ Len(Records(f)) \in Nat
  BY RecordsType
<1>3. \A n \in D : Records(f)[n].RecordHash \in Nat
  <2>1. \A n \in DOMAIN Records(f) : Records(f)[n] \in Record
    BY <1>2
  <2> QED BY <2>1 DEF Record
<1>4. \A n \in D : \A m \in 1..n : m \in D
  <2> SUFFICES ASSUME NEW n \in D, NEW m \in 1..n PROVE m \in DOMAIN Records(f) /\ ReadableTo(f, m)
    OBVIOUS
  <2>1. n \in Nat /\ m \in DOMAIN Records(f) /\ m <= n
    BY <1>2
  <2>2. \A i \in LineStarts(f) : LineOf(f, i) \in Nat
    BY LineOfStart
  <2> QED BY <2>1, <2>2 DEF ReadableTo
<1>5. \E k \in Nat : D = 1..k
  <2> DEFINE Out == {n \in Nat : n + 1 \notin D}
             Less == OpToRel(<, Nat)
  <2>1. Len(Records(f)) \in Out
    BY <1>2
  <2>2. PICK k \in Out : \A j \in Out : ~(<<j, k>> \in Less)
    BY <2>1, NatLessThanWellFounded, WFMin
  <2>3. \A j \in Nat : j < k => j + 1 \in D
    BY <2>2 DEF OpToRel
  <2>4. \A n \in 1..k : n \in D
    <3> SUFFICES ASSUME NEW n \in 1..k PROVE n \in D
      OBVIOUS
    <3>1. n - 1 \in Nat /\ n - 1 < k /\ n - 1 + 1 = n
      OBVIOUS
    <3> QED BY <2>3, <3>1
  <2>5. \A n \in D : n \in 1..k
    <3> SUFFICES ASSUME NEW n \in D, ~(n \in 1..k) PROVE FALSE
      OBVIOUS
    <3>1. k + 1 \in 1..n /\ k \in Nat
      BY <1>2
    <3> QED BY <1>4, <2>2, <3>1
  <2> QED BY <2>4, <2>5
<1>6. PICK k \in Nat : D = 1..k
  BY <1>5
<1>7. Legible(f) \in [1..k -> Nat]
  BY <1>1, <1>3, <1>6
<1>8. Legible(f) \in Seq(Nat)
  BY <1>7, SeqDef
<1> QED BY <1>1, <1>8

Entries(f) == {Legible(f)[i] : i \in DOMAIN Legible(f)}

LEMMA EntriesOfReadable ==
    ASSUME NEW f \in Seq(Line), Readable(f)
    PROVE  Entries(f) = Hashes(f)
<1>1. \A n : ReadableTo(f, n)
  BY DEF Readable, ReadableTo
<1> QED BY <1>1, LegibleType DEF Entries, Hashes

LEMMA EntriesKnown ==
    ASSUME TypeOK, FileInv
    PROVE  Entries(file) \subseteq 1..appends
<1>1. \A n \in DOMAIN Legible(file) : Legible(file)[n] \in 1..appends
  BY LegibleType, RecordsInOrder DEF TypeOK
<1> QED BY <1>1 DEF Entries

\* A line that is legible to its end.
LEMMA EntryOfWhole ==
    ASSUME TypeOK, IntactInv, ~marred, NEW i \in DOMAIN file, i < Len(file) \/ EndsWhole(file)
    PROVE  file[i].rec.RecordHash \in Entries(file)
<1>1. /\ file \in Seq(Line) /\ Len(file) \in Nat /\ DOMAIN file = 1..Len(file)
      /\ \A j \in 1..Len(file) : j < Len(file) => file[j].form = "whole"
  BY DEF TypeOK, IntactInv
<1>2. /\ LineStarts(file) = 1..Len(file) /\ DOMAIN Records(file) = 1..Len(file)
      /\ \A n \in 1..Len(file) : LineOf(file, n) = n /\ Records(file)[n] = file[n].rec
  BY <1>1, RecordsOfWhole
<1>3. ASSUME NEW j \in 1..Len(file), j <= i PROVE file[j].form # "torn"
  <2>1. j < Len(file) \/ (j = Len(file) /\ file # << >> /\ EndsWhole(file))
    <3>1. /\ i \in Nat /\ j \in Nat /\ i <= Len(file) /\ j <= Len(file) /\ file # << >>
          /\ Len(file) \in Nat
      BY <1>1
    <3>2. j < Len(file) \/ (j = Len(file) /\ ~(i < Len(file)))
      BY <1>3, <3>1
    <3> QED BY <3>1, <3>2
  <2>2. file[j].form = "whole"
    BY <1>1, <2>1 DEF EndsWhole
  <2> QED BY <2>2
<1>4. ReadableTo(file, i)
  BY <1>1, <1>2, <1>3 DEF ReadableTo
<1>5. i \in DOMAIN Legible(file) /\ Legible(file)[i] = file[i].rec.RecordHash
  BY <1>1, <1>2, <1>4, LegibleType
<1> QED BY <1>5 DEF Entries

\* The torn lines of a file stay torn in what is left of it.
LEMMA LegibleOfAStart ==
    ASSUME NEW f \in Seq(Line), NEW g, IsStartOf(g, f),
           \A i \in 1..Len(g) : f[i].form = "torn" => g[i].form = "torn"
    PROVE  /\ Len(Legible(g)) \in 0..Len(Legible(f))
           /\ Legible(g) = SubSeq(Legible(f), 1, Len(Legible(g)))
<1>1. /\ g \in Seq(Line) /\ Len(g) \in Nat /\ Len(g) <= Len(f)
      /\ \A i \in 1..Len(g) : g[i].rec = f[i].rec
      /\ \A i \in 1..Len(g) : i < Len(g) => g[i].form = f[i].form
  BY DEF IsStartOf
<1>2. ASSUME NEW n \in DOMAIN Legible(g)
      PROVE  n \in DOMAIN Legible(f) /\ Legible(g)[n] = Legible(f)[n]
  <2>1. n \in DOMAIN Records(g) /\ ReadableTo(g, n)
    BY <1>1, LegibleType
  <2>2. n \in DOMAIN Records(f) /\ Records(f)[n] = Records(g)[n] /\ n \in Nat
    <3>1. Len(Records(g)) <= Len(Records(f)) /\ Records(f)[n] = Records(g)[n]
      BY <1>1, <2>1, RecordsOfPrefix
    <3>2. Records(f) \in Seq(Record) /\ Records(g) \in Seq(Record)
      BY <1>1, RecordsType
    <3> QED BY <2>1, <3>1, <3>2
  <2>3. ASSUME NEW i \in LineStarts(f), LineOf(f, i) <= n PROVE f[i].form # "torn"
    <3> DEFINE s == StartOf(g, n)
    <3>1. s \in LineStarts(g) /\ LineOf(f, s) = n /\ s \in LineStarts(f) /\ s \in 1..Len(g)
      <4>1. n \in 1..Cardinality(LineStarts(g))
        BY <1>1, <2>1, RecordsType
      <4>2. s \in LineStarts(g) /\ LineOf(g, s) = n
        BY <1>1, <4>1, StartOfLine
      <4>3. LineOf(f, s) = n /\ s \in LineStarts(f)
        BY <1>1, <4>2, LinesOfPrefix
      <4> QED BY <1>1, <4>2, <4>3, StartsType
    <3>2. i \in Nat /\ i >= 1 /\ LineOf(f, i) \in Nat
      BY StartsType, LineOfStart
    <3>3. ~(s < i)
      <4>1. s < i => n < LineOf(f, i)
        BY <3>1, LineOfGrows
      <4> QED BY <2>2, <2>3, <3>2, <4>1
    <3>4. i \in 1..Len(g)
      BY <1>1, <3>1, <3>2, <3>3
    <3>5. i \in LineStarts(g) /\ LineOf(g, i) = LineOf(f, i)
      BY <1>1, <3>4, LinesOfPrefix
    <3>6. g[i].form # "torn"
      BY <2>1, <2>3, <3>5 DEF ReadableTo
    <3> QED BY <3>4, <3>6
  <2>4. n \in DOMAIN Legible(f)
    BY <2>2, <2>3, LegibleType DEF ReadableTo
  <2> QED BY <1>1, <2>2, <2>4, LegibleType
<1>3. Legible(g) \in Seq(Nat) /\ Legible(f) \in Seq(Nat)
  BY <1>1, LegibleType
<1> DEFINE p == Legible(g)
           q == Legible(f)
<1> HIDE DEF p, q
<1>4. p \in Seq(Nat) /\ q \in Seq(Nat) /\ \A n \in DOMAIN p : n \in DOMAIN q /\ p[n] = q[n]
  BY <1>2, <1>3 DEF p, q
<1>5. Len(p) \in 0..Len(q)
  <2>1. /\ Len(p) \in Nat /\ Len(q) \in Nat /\ DOMAIN p = 1..Len(p) /\ DOMAIN q = 1..Len(q)
    BY <1>4
  <2>2. \A n \in 1..Len(p) : n \in 1..Len(q)
    BY <1>4, <2>1
  <2>3. Len(p) # 0 => Len(p) \in 1..Len(p)
    BY <2>1
  <2>4. Len(p) # 0 => Len(p) <= Len(q)
    BY <2>1, <2>2, <2>3
  <2> QED BY <2>1, <2>4
<1>6. p = SubSeq(q, 1, Len(p))
  <2>1. PICK k \in 0..Len(q) : k = Len(p)
    BY <1>5
  <2> DEFINE u == SubSeq(q, 1, k)
  <2>2. u \in Seq(Nat) /\ Len(u) = k /\ \A n \in 1..k : u[n] = q[n]
    BY <1>4
  <2> HIDE DEF u
  <2>3. /\ k \in Nat /\ p \in Seq(Nat) /\ u \in Seq(Nat) /\ Len(p) = k /\ Len(u) = k
        /\ DOMAIN p = 1..k
    BY <1>4, <2>1, <2>2
  <2>4. \A n \in 1..k : u[n] = p[n]
    BY <1>4, <2>2, <2>3
  <2>5. u = p
    BY <2>3, <2>4
  <2> QED BY <2>1, <2>5 DEF u
<1> QED BY <1>5, <1>6 DEF p, q

\* A whole line adds its record to a legible file, or nothing.
LEMMA LegibleOfAppend ==
    ASSUME NEW f \in Seq(Line), NEW l \in Line, l.form = "whole"
    PROVE  \/ Legible(Append(f, l)) = Legible(f)
           \/ Legible(Append(f, l)) = Append(Legible(f), l.rec.RecordHash)
<1> DEFINE g == Append(f, l)
           k == Len(f) + 1
<1>1. /\ g \in Seq(Line) /\ Len(g) = k /\ k \in Nat /\ Len(f) < k /\ Len(f) <= Len(g)
      /\ Len(f) \in Nat /\ k = Len(f) + 1
      /\ \A i \in 1..Len(f) : g[i] = f[i]
      /\ g[k] = l
  OBVIOUS
<1>2. /\ Records(g) = Records(f) \/ Records(g) = Append(Records(f), l.rec)
  BY RecordsOfAppend
<1> HIDE DEF g, k
<1>3. /\ LineStarts(f) \in SUBSET LineStarts(g)
      /\ \A i \in 1..Len(f) : i \in LineStarts(f) <=> i \in LineStarts(g)
      /\ \A i \in LineStarts(f) : LineOf(f, i) = LineOf(g, i)
  BY <1>1, LinesOfPrefix
<1>4. ASSUME NEW n PROVE ReadableTo(g, n) <=> ReadableTo(f, n)
  <2>1. \A i \in LineStarts(f) : i \in LineStarts(g) /\ g[i] = f[i] /\ LineOf(g, i) = LineOf(f, i)
    BY <1>1, <1>3, StartsType
  <2>2. \A i \in LineStarts(g) : i \in LineStarts(f) \/ g[i].form # "torn"
    <3>1. \A i \in LineStarts(g) : i \in 1..k
      BY <1>1, StartsType
    <3>2. \A i \in 1..k : i \in 1..Len(f) \/ i = k
      BY <1>1
    <3> QED BY <1>1, <1>3, <3>1, <3>2
  <2> QED BY <2>1, <2>2 DEF ReadableTo
<1>5. Legible(g) \in Seq(Nat) /\ Legible(f) \in Seq(Nat)
  BY <1>1, LegibleType
<1>6. /\ Records(f) \in Seq(Record) /\ Len(Records(f)) \in Nat /\ l.rec \in Record
      /\ DOMAIN Records(f) = 1..Len(Records(f))
  <2>1. Records(f) \in Seq(Record)
    BY RecordsType
  <2>2. l.rec \in Record
    BY DEF Line
  <2> QED BY <2>1, <2>2
<1>7. CASE Records(g) = Records(f)
  BY <1>4, <1>7 DEF Legible, g
<1>8. CASE Records(g) = Append(Records(f), l.rec)
  <2> DEFINE m == Len(Records(f)) + 1
             p == Legible(g)
             q == Legible(f)
  <2>1. /\ DOMAIN Records(g) = 1..m /\ m \in Nat /\ Records(g)[m] = l.rec
        /\ \A n \in DOMAIN Records(f) : Records(g)[n] = Records(f)[n]
        /\ \A n : n \in 1..m <=> n \in DOMAIN Records(f) \/ n = m
        /\ m \notin DOMAIN Records(f)
    BY <1>6, <1>8
  <2> HIDE DEF m
  <2>2. /\ \A n : n \in DOMAIN p <=> (n \in DOMAIN Records(f) \/ n = m) /\ ReadableTo(f, n)
        /\ \A n : n \in DOMAIN q <=> n \in DOMAIN Records(f) /\ ReadableTo(f, n)
        /\ \A n \in DOMAIN q : n \in DOMAIN p /\ p[n] = q[n]
        /\ m \in DOMAIN p => p[m] = l.rec.RecordHash
    <3>1. /\ \A n : n \in DOMAIN p <=> n \in DOMAIN Records(g) /\ ReadableTo(g, n)
          /\ \A n \in DOMAIN p : p[n] = Records(g)[n].RecordHash
      BY <1>1, LegibleType
    <3>2. /\ \A n : n \in DOMAIN q <=> n \in DOMAIN Records(f) /\ ReadableTo(f, n)
          /\ \A n \in DOMAIN q : q[n] = Records(f)[n].RecordHash
      BY LegibleType
    <3> HIDE DEF p, q
    <3>3. \A n : n \in DOMAIN p <=> (n \in DOMAIN Records(f) \/ n = m) /\ ReadableTo(f, n)
      BY <1>4, <2>1, <3>1
    <3>4. \A n \in DOMAIN q : n \in DOMAIN p /\ p[n] = q[n]
      BY <2>1, <3>1, <3>2, <3>3
    <3> QED BY <2>1, <3>1, <3>2, <3>3, <3>4
  <2>3. p \in Seq(Nat) /\ q \in Seq(Nat)
    BY <1>5
  <2> HIDE DEF p, q
  <2>4. CASE m \notin DOMAIN p
    <3>1. DOMAIN p = DOMAIN q
      BY <2>2, <2>4
    <3>2. Len(p) = Len(q)
      BY <2>3, <3>1
    <3>3. p = q
      BY <2>2, <2>3, <3>2
    <3> QED BY <3>3 DEF p, q, g
  <2>5. CASE m \in DOMAIN p
    <3>1. /\ DOMAIN p = 1..Len(p) /\ Len(p) \in Nat /\ DOMAIN q = 1..Len(q) /\ Len(q) \in Nat
      BY <2>3
    <3>2. \A n \in DOMAIN p : n \in 1..m
      BY <2>1, <2>2
    <3>3. Len(p) = m
      <4>1. m <= Len(p)
        BY <2>1, <2>5, <3>1
      <4>2. Len(p) # 0 => Len(p) \in 1..m
        BY <3>1, <3>2
      <4>3. m \in Nat /\ Len(p) \in Nat
        BY <2>1, <3>1
      <4> QED BY <4>1, <4>2, <4>3
    <3>4. \A n \in 1..m : n # m => n \in DOMAIN q
      BY <2>1, <2>2, <3>1, <3>3
    <3>5. Len(q) = m - 1
      <4>1. m \notin DOMAIN q /\ \A n \in DOMAIN q : n \in 1..m
        BY <2>1, <2>2
      <4>2. m - 1 # 0 => m - 1 \in DOMAIN q
        BY <2>1, <2>5, <3>1, <3>3, <3>4
      <4>3. Len(q) # 0 => Len(q) \in 1..m /\ Len(q) # m
        BY <3>1, <4>1
      <4>4. m - 1 # 0 => m - 1 <= Len(q)
        BY <3>1, <4>2
      <4>5. m \in Nat /\ Len(q) \in Nat /\ m # 0
        BY <2>1, <2>5, <3>1, <3>3
      <4>6. Len(q) <= m - 1
        BY <4>3, <4>5
      <4> QED BY <4>4, <4>5, <4>6
    <3>6. l.rec.RecordHash \in Nat
      BY <1>6 DEF Record
    <3>7. p = Append(q, l.rec.RecordHash)
      BY <2>2, <2>3, <2>5, <3>3, <3>5, <3>6
    <3> QED BY <3>7 DEF p, q, g
  <2> QED BY <2>4, <2>5
<1> QED BY <1>2, <1>7, <1>8

\* The trail's own terms.
LEMMA TrailEntries ==
    Trail!Entries = Entries(file) /\ Trail!Entries' = Entries(file')
BY DEF Trail!Entries, Entries

\* What is trusted of an undamaged log is legible, whatever a power loss may leave.
LEMMA TrustedIsLegible == TypeOK /\ IntactInv /\ ~marred => trusted \subseteq Entries(file)
<1> SUFFICES ASSUME TypeOK, IntactInv, ~marred, NEW h \in trusted PROVE h \in Entries(file)
  OBVIOUS
<1>1. /\ anchor \in anchors /\ anchor.Seq \in Nat /\ durable \in Nat /\ durable <= Len(file)
      /\ Len(file) \in Nat /\ DOMAIN file = 1..Len(file)
  BY DEF TypeOK, Anchor
<1>2. /\ NamesItsRecord(anchor, file, durable) /\ ComesAfter(anchor, file, trusted)
      /\ EndsWhole(file) \/ anchor.Seq < Len(file)
  BY <1>1 DEF IntactInv
<1>3. anchor.Seq <= durable
  BY <1>1, <1>2, AnchorsNamed DEF NamesItsRecord
<1>4. PICK i \in 1..anchor.Seq : file[i].rec.RecordHash = h
  BY <1>2 DEF ComesAfter
<1>5. i \in DOMAIN file /\ (EndsWhole(file) \/ i < Len(file))
  BY <1>1, <1>2, <1>3
<1> QED BY <1>4, <1>5, EntryOfWhole

LEMMA LegibleOfPowerLoss ==
    ASSUME TypeOK, PowerLoss
    PROVE  \E n \in 0..Len(Legible(file)) : Legible(file') = SubSeq(Legible(file), 1, n)
<1>1. PICK n \in durable..Len(file), form \in Form :
        file' = IF n = durable \/ file[n].form # "whole" THEN SubSeq(file, 1, n)
                ELSE [SubSeq(file, 1, n) EXCEPT ![n].form = form]
  BY DEF PowerLoss
<1>2. IsStartOf(file', file) /\ file \in Seq(Line)
  BY PowerLossKeeps DEF TypeOK
<1>3. \A i \in 1..Len(file') : file[i].form = "torn" => file'[i].form = "torn"
  <2> SUFFICES ASSUME NEW i \in 1..Len(file'), file[i].form = "torn" PROVE file'[i].form = "torn"
    OBVIOUS
  <2> DEFINE s == SubSeq(file, 1, n)
  <2>1. /\ n \in Nat /\ s \in Seq(Line) /\ Len(s) = n /\ \A j \in 1..n : s[j] = file[j]
    BY <1>2 DEF TypeOK
  <2> HIDE DEF s
  <2>2. CASE file' = s
    BY <2>1, <2>2
  <2>3. CASE n # durable /\ file[n].form = "whole" /\ file' = [s EXCEPT ![n].form = form]
    <3>1. DOMAIN file' = DOMAIN s /\ file' \in Seq(Line)
      BY <1>2, <2>3 DEF IsStartOf
    <3>2. i \in DOMAIN s /\ i # n /\ i \in 1..n
      BY <2>1, <2>3, <3>1
    <3>3. file'[i] = s[i]
      BY <2>3, <3>2
    <3> QED BY <2>1, <3>2, <3>3
  <2> QED BY <1>1, <2>2, <2>3 DEF s
<1> QED BY <1>2, <1>3, LegibleOfAStart

LEMMA TrailStep ==
    ASSUME TypeOK, TypeOK', LogIInv, LogIInv', [Next]_vars
    PROVE  [Trail!Next]_(Trail!trailVars)
<1>1. FileInv /\ TrustInv /\ IntactInv /\ FileInv' /\ IntactInv' /\ file \in Seq(Line)
  BY DEF LogIInv, TypeOK
<1> DEFINE T == Legible(file)
<1> USE DEF Trail!trailVars
<1>2. CASE Open
  <2>1. Judge(file, anchor) = "ok" /\ Readable(file)
    BY <1>1, <1>2, OpensAtItsAnchor DEF Open
  <2>2. trusted \subseteq Entries(file)
    BY <1>1, <2>1, OpenFindsAll, EntriesOfReadable
  <2>3. Trail!Start
    BY <1>2, <2>2, TrailEntries DEF Trail!Start, Open, disk, ghosts
  <2> QED BY <2>3 DEF Trail!Next
<1>3. CASE AppendNothing
  BY <1>3 DEF AppendNothing, disk, ghosts
<1>4. CASE AppendWrite
  <2>1. PICK form \in Form : /\ file' = Append(file, [rec |-> NewRecord, form |-> form])
                             /\ marred' = (marred \/ form # "whole")
    BY <1>4 DEF AppendWrite, Form
  <2>2. log.open /\ UNCHANGED <<log, trusted>> /\ appends' = appends + 1 /\ appends \in Nat
    BY <1>4 DEF AppendWrite, TypeOK
  <2>3. CASE form # "whole"
    <3>1. Trail!Damage
      BY <2>1, <2>2, <2>3 DEF Trail!Damage
    <3> QED BY <3>1 DEF Trail!Next
  <2>4. CASE form = "whole"
    <3> DEFINE l == [rec |-> NewRecord, form |-> form]
    <3>1. l \in Line /\ l.form = "whole" /\ l.rec.RecordHash = appends + 1
      BY <2>4, NewRecordType DEF Line, NewRecord
    <3>2. marred' = marred
      BY <2>1, <2>4 DEF TypeOK
    <3> HIDE DEF l
    <3>3. T' = T \/ T' = Append(T, appends + 1)
      BY <1>1, <2>1, <3>1, LegibleOfAppend DEF l
    <3>4. CASE T' = T
      BY <2>2, <3>2, <3>4
    <3>5. CASE T' = Append(T, appends + 1)
      <4>1. appends + 1 \notin Entries(file)
        BY <1>1, <2>2, EntriesKnown
      <4>2. appends + 1 \in Entries(file')
        <5>1. T \in Seq(Nat)
          BY <1>1, LegibleType
        <5>2. Len(T) + 1 \in DOMAIN T' /\ T'[Len(T) + 1] = appends + 1
          BY <2>2, <3>5, <5>1
        <5> QED BY <5>2 DEF Entries
      <4>3. Trail!Write
        BY <2>2, <3>2, <3>5, <4>1, <4>2, TrailEntries DEF Trail!Write
      <4> QED BY <4>3 DEF Trail!Next
    <3> QED BY <3>3, <3>4, <3>5
  <2> QED BY <2>3, <2>4
<1>5. CASE AppendSync
  BY <1>5 DEF AppendSync, ghosts
<1>6. CASE AppendSyncFails
  <2>1. Trail!Damage
    BY <1>6 DEF AppendSyncFails, Trail!Damage
  <2> QED BY <2>1 DEF Trail!Next
<1>7. CASE AnchorWrite
  <2>1. /\ UNCHANGED <<file, log, marred>> /\ pc = "anchor"
        /\ trusted' = trusted \/ trusted' = trusted \cup {log.prev}
    BY <1>7 DEF AnchorWrite, DirSync
  <2>2. CASE trusted' = trusted
    BY <2>1, <2>2
  <2>3. CASE trusted' # trusted
    <3>1. log.open /\ log.seq >= 1
      BY <1>1, <2>1 DEF FileInv
    <3>2. ASSUME ~marred PROVE log.prev \in Entries(file)
      <4>1. log.seq = Len(file) /\ EndsWhole(file)
        BY <1>1, <2>1, <3>1, <3>2 DEF IntactInv
      <4>2. log.seq \in DOMAIN file /\ log.seq # 0
        BY <1>1, <3>1, <4>1
      <4>3. log.prev = file[log.seq].rec.RecordHash
        BY <1>1, <2>1, <3>1, <3>2, <4>2 DEF IntactInv
      <4> QED BY <1>1, <3>2, <4>1, <4>2, <4>3, EntryOfWhole
    <3>3. Trail!Ack
      BY <2>1, <2>3, <3>1, <3>2, TrailEntries DEF Trail!Ack
    <3> QED BY <3>3 DEF Trail!Next
  <2> QED BY <2>2, <2>3
<1>8. CASE AnchorFails
  BY <1>8 DEF AnchorFails
<1>9. CASE RemoveAnchor
  <2>1. Trail!Intervene
    BY <1>9, TrailEntries DEF RemoveAnchor, Trail!Intervene
  <2> QED BY <2>1 DEF Trail!Next
<1>10. CASE InitAnchor
  <2>1. /\ ~log.open /\ UNCHANGED <<file, log>> /\ marred'
        /\ trusted' \subseteq Hashes(file) /\ Readable(file)
    BY <1>10 DEF InitAnchor, Adoptable, DirSync
  <2>2. trusted' \subseteq Entries(file)
    BY <1>1, <2>1, EntriesOfReadable
  <2>3. Trail!Intervene
    BY <2>1, <2>2, TrailEntries DEF Trail!Intervene
  <2> QED BY <2>3 DEF Trail!Next
<1>11. CASE Crash
  <2>1. ~log'.open /\ UNCHANGED <<file, trusted, marred>>
    BY <1>11 DEF Crash, Stop, Closed, disk, ghosts
  <2>2. ~marred => trusted \subseteq Entries(file)
    BY <1>1, TrustedIsLegible
  <2>3. Len(T) \in 0..Len(T) /\ T = SubSeq(T, 1, Len(T))
    BY <1>1, LegibleType
  <2>4. Trail!Stop
    BY <2>1, <2>2, <2>3, TrailEntries DEF Trail!Stop
  <2> QED BY <2>4 DEF Trail!Next
<1>12. CASE PowerLoss
  <2>1. ~log'.open /\ UNCHANGED <<trusted, marred>>
    BY <1>12 DEF PowerLoss, Stop, Closed, ghosts
  <2>2. ~marred' => trusted' \subseteq Entries(file')
    <3>1. (TypeOK /\ IntactInv /\ ~marred => trusted \subseteq Entries(file))'
      BY TrustedIsLegible, PTL
    <3> QED BY <1>1, <3>1
  <2>3. Trail!Stop
    BY <1>12, <2>1, <2>2, LegibleOfPowerLoss, TrailEntries DEF Trail!Stop
  <2> QED BY <2>3 DEF Trail!Next
<1>13. CASE LoseTail \/ DamageAnchor
  <2>1. Trail!Damage
    BY <1>13 DEF LoseTail, DamageAnchor, Trail!Damage
  <2> QED BY <2>1 DEF Trail!Next
<1>14. CASE UNCHANGED vars
  BY <1>14 DEF vars, disk, ghosts
<1> QED BY <1>2, <1>3, <1>4, <1>5, <1>6, <1>7, <1>8, <1>9, <1>10, <1>11, <1>12, <1>13, <1>14
        DEF Next, Service, Operator, Environment

\* The file, its anchor and the recovery from each stop keep the promise of an
\* append-only trail: every step of the log is a step of the trail or none.
THEOREM LogImplementsTrail == Spec => ImplementsTrail
<1>1. Init => Trail!Init
  <2> SUFFICES ASSUME Init PROVE Trail!Init
    OBVIOUS
  <2>1. file = << >> /\ trusted = {} /\ log.open = FALSE /\ marred = FALSE
    BY DEF Init, Closed
  <2>2. Legible(file) = << >>
    <3>1. << >> \in Seq(Line)
      OBVIOUS
    <3>2. Len(Records(<< >>)) = 0
      <4>1. Len(<< >>) = 0 /\ \A i \in 1..Len(<< >>) : FALSE
        OBVIOUS
      <4> QED BY <3>1, <4>1, RecordsOfWhole
    <3> DEFINE p == Legible(<< >>)
    <3>3. p \in Seq(Nat) /\ \A n \in DOMAIN p : n \in DOMAIN Records(<< >>)
      BY <3>1, LegibleType
    <3>4. DOMAIN Records(<< >>) = 1..0
      BY <3>1, <3>2, RecordsType
    <3> HIDE DEF p
    <3>5. p = << >>
      <4>1. DOMAIN p = 1..Len(p) /\ Len(p) \in Nat /\ \A n \in DOMAIN p : FALSE
        BY <3>3, <3>4
      <4>2. Len(p) = 0
        BY <4>1
      <4> QED BY <3>3, <4>2
    <3> QED BY <2>1, <3>5 DEF p
  <2> QED BY <2>1, <2>2 DEF Trail!Init
<1>2. TypeOK /\ TypeOK' /\ LogIInv /\ LogIInv' /\ [Next]_vars => [Trail!Next]_(Trail!trailVars)
  BY TrailStep
<1> QED BY <1>1, <1>2, TypeCorrect, LogInvariantHolds, PTL DEF Spec, ImplementsTrail, Trail!Spec

=============================================================================
