---------------------------- MODULE BlastProofs ----------------------------
(***************************************************************************)
(* Facts about the blast-radius operators, for every bound and reach: what *)
(* the operators return, and how the verdict, the modes and Within relate. *)
(***************************************************************************)
EXTENDS Blast, FiniteSetTheorems, TLAPS

\* ceil(100 * a / b) lies where a ceiling lies (reach.go).
LEMMA CeilPctBounds ==
    ASSUME NEW a \in Nat, NEW b \in Nat \ {0}
    PROVE  /\ CeilPct(a, b) \in Nat
           /\ CeilPct(a, b) * b >= 100 * a
           /\ (CeilPct(a, b) - 1) * b < 100 * a
<1> DEFINE n == 100 * a + b - 1
<1>1. n \in Nat
  OBVIOUS
<1>2. /\ n \div b \in Nat
      /\ n = (b * (n \div b)) + (n % b)
      /\ n % b \in 0..(b - 1)
  BY <1>1, SMT
<1> QED
  BY <1>1, <1>2, SMT DEF CeilPct

\* The fleet percentage is a percentage, whatever the topology counted.
LEMMA FleetPctIsPercent ==
    ASSUME NEW a \in Nat, NEW b \in Int
    PROVE  ComputeFleetPct(a, b) \in Percent
<1>1. CASE a <= 0 \/ b <= 0 \/ a >= b
  BY <1>1 DEF ComputeFleetPct, Percent
<1>2. CASE a > 0 /\ b > 0 /\ a < b
  <2> DEFINE pct == CeilPct(a, b) + (IF CeilOvershoots(a, b) THEN 1 ELSE 0)
  <2>1. pct \in Nat
    <3>1. b \in Nat \ {0}
      BY <1>2
    <3>2. CeilPct(a, b) \in Nat
      BY <3>1, CeilPctBounds
    <3> HIDE DEF CeilPct
    <3> QED BY <3>2
  <2>2. ComputeFleetPct(a, b) = IF pct > 100 THEN 100 ELSE pct
    BY <1>2 DEF ComputeFleetPct
  <2> HIDE DEF pct
  <2> QED BY <2>1, <2>2 DEF Percent
<1> QED BY <1>1, <1>2

\* The share reported is never smaller than the true share: rounding can only
\* make the reach look larger, the direction the limiter calls fail-closed.
THEOREM FleetPctNeverUnderReports ==
    ASSUME NEW a \in Nat, NEW b \in Nat \ {0}, a <= b
    PROVE  ComputeFleetPct(a, b) * b >= 100 * a
<1>1. CASE a <= 0 \/ a >= b
  BY <1>1 DEF ComputeFleetPct
<1>2. CASE a > 0 /\ a < b
  <2> DEFINE pct == CeilPct(a, b) + (IF CeilOvershoots(a, b) THEN 1 ELSE 0)
             result == ComputeFleetPct(a, b)
  <2>1. CeilPct(a, b) \in Nat /\ CeilPct(a, b) * b >= 100 * a
    BY CeilPctBounds
  <2>2. pct \in Nat /\ pct >= CeilPct(a, b)
    BY <2>1
  <2>3. result = IF pct > 100 THEN 100 ELSE pct
    BY <1>2 DEF ComputeFleetPct
  <2> HIDE DEF pct, result
  <2>4. pct * b >= 100 * a
    <3>1. pct * b >= CeilPct(a, b) * b
      BY <2>1, <2>2, SMT
    <3> QED BY <2>1, <2>2, <3>1
  <2>5. CASE pct > 100
    <3>1. result = 100
      BY <2>3, <2>5
    <3> QED BY <1>2, <3>1 DEF result
  <2>6. CASE ~(pct > 100)
    <3>1. result = pct
      BY <2>3, <2>6
    <3> QED BY <2>4, <3>1 DEF result
  <2> QED BY <2>5, <2>6
<1> QED BY <1>1, <1>2

\* The named hosts and services of the matched containers.
HostsOf(matched) == {matched[i].Host : i \in 1..Len(matched)} \ {NoName}
ServicesOf(matched) == {matched[i].Service : i \in 1..Len(matched)} \ {NoName}

\* They are finitely many.
LEMMA NamesOfMatched ==
    ASSUME NEW S, NEW matched \in Seq(S)
    PROVE  IsFiniteSet(HostsOf(matched)) /\ IsFiniteSet(ServicesOf(matched))
<1> DEFINE I == 1..Len(matched)
<1>1. IsFiniteSet(I)
  BY FS_Interval
<1>2. IsFiniteSet({matched[i].Host : i \in I})
  <2> DEFINE f == [i \in I |-> matched[i].Host]
             T == {matched[i].Host : i \in I}
  <2>1. f \in Surjection(I, T)
    BY DEF Surjection
  <2> QED BY <1>1, <2>1, FS_Surjection
<1>3. IsFiniteSet({matched[i].Service : i \in I})
  <2> DEFINE f == [i \in I |-> matched[i].Service]
             T == {matched[i].Service : i \in I}
  <2>1. f \in Surjection(I, T)
    BY DEF Surjection
  <2> QED BY <1>1, <2>1, FS_Surjection
<1> QED BY <1>2, <1>3, FS_Difference DEF HostsOf, ServicesOf

\* Folding containers gives a reach.
LEMMA ReachType ==
    ASSUME NEW S, NEW matched \in Seq(S), NEW inventory \in Nat
    PROVE  Reach(matched, inventory) \in ReachSet
<1>1. Len(matched) \in Nat
  OBVIOUS
<1>2. ComputeFleetPct(Len(matched), inventory) \in Percent
  BY <1>1, FleetPctIsPercent
<1>3. Cardinality(HostsOf(matched)) \in Nat /\ Cardinality(ServicesOf(matched)) \in Nat
  BY NamesOfMatched, FS_CardinalityType
<1> QED
  BY <1>1, <1>2, <1>3 DEF Reach, ReachSet, HostsOf, ServicesOf

\* A verdict is a verdict.
LEMMA EvaluateType ==
    ASSUME NEW d, NEW r, NEW e
    PROVE  Evaluate(d, r, e) \in Verdict
BY DEF Evaluate, Verdict

\* A reach within the bound breaches no axis: it is allowed in every mode.
THEOREM WithinIsAllowed ==
    ASSUME NEW names, NEW d \in DeclaredBound(names), NEW r \in ReachSet,
           NEW e \in Enforcement, Within(d, r)
    PROVE  Evaluate(d, r, e) = "ALLOW"
<1>1. BreachedModes(d, r, e) = {}
  BY DEF BreachedModes, Within, DeclaredBound, ReachSet, Percent
<1> QED BY <1>1 DEF Evaluate

\* Whatever the enforcement modes say, a plan can be approved exactly when its
\* reach is within the bound: "off" and "warn" never let an over-reach through
\* (plan.go Executable with within.go).
THEOREM ExecutableIffWithin ==
    ASSUME NEW names, NEW d \in DeclaredBound(names), NEW r \in ReachSet,
           NEW e \in Enforcement
    PROVE  Executable(Within(d, r), Evaluate(d, r, e)) <=> Within(d, r)
BY WithinIsAllowed DEF Executable

\* A verdict other than ALLOW means over-reach, so is never executable.
THEOREM OnlyAllowExecutes ==
    ASSUME NEW names, NEW d \in DeclaredBound(names), NEW r \in ReachSet,
           NEW e \in Enforcement,
           Executable(Within(d, r), Evaluate(d, r, e))
    PROVE  Evaluate(d, r, e) = "ALLOW"
BY WithinIsAllowed DEF Executable

\* With every axis on, ALLOW says exactly that the reach is within the bound.
THEOREM AllowMeansWithin ==
    ASSUME NEW names, NEW d \in DeclaredBound(names), NEW r \in ReachSet,
           NEW e \in [MaxHosts: {"warn", "block"}, Service: {"warn", "block"},
                      FleetPct: {"warn", "block"}]
    PROVE  Evaluate(d, r, e) = "ALLOW" <=> Within(d, r)
<1>1. ASSUME Within(d, r) PROVE Evaluate(d, r, e) = "ALLOW"
  BY <1>1, WithinIsAllowed DEF Enforcement, Mode
<1>2. ASSUME ~Within(d, r) PROVE Evaluate(d, r, e) # "ALLOW"
  BY <1>2 DEF Within, Evaluate, BreachedModes, DeclaredBound, ReachSet, Percent
<1> QED BY <1>1, <1>2
=============================================================================
