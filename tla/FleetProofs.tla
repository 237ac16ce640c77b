---------------------------- MODULE FleetProofs ----------------------------
(***************************************************************************)
(* The limiter over time, for any number of containers, bounds and hosts:  *)
(* the two judgements of a plan agree, the reported share covers the true  *)
(* one, a fleet that grows never comes back within its bound, and a        *)
(* ratchet never softens a verdict.                                        *)
(***************************************************************************)
EXTENDS Fleet, BlastProofs, SequenceTheorems

---------------------------------------------------------------------------
(* The fleet percentage.                                                   *)

\* Where a proper share lies: between the rounded share and one point above.
LEMMA ProperShare ==
    ASSUME NEW a \in Nat, NEW b \in Nat, 0 < a, a < b
    PROVE  \E c, pct \in Nat :
             /\ c * b >= 100 * a /\ (c - 1) * b < 100 * a /\ c <= 100
             /\ pct = c \/ (pct = c + 1 /\ c * b = 100 * a)
             /\ ComputeFleetPct(a, b) = IF pct > 100 THEN 100 ELSE pct
<1> DEFINE c == CeilPct(a, b)
           over == CeilOvershoots(a, b)
           pct == c + (IF over THEN 1 ELSE 0)
<1>1. c \in Nat /\ c * b >= 100 * a /\ (c - 1) * b < 100 * a
  BY CeilPctBounds
<1>2. over => (100 * a) % b = 0
  BY DEF CeilOvershoots
<1>3. ComputeFleetPct(a, b) = IF pct > 100 THEN 100 ELSE pct
  BY DEF ComputeFleetPct
<1> HIDE DEF c, over
<1>4. c <= 100
  <2>1. (c - 1) * b < 100 * b
    BY <1>1
  <2> QED BY <1>1, <2>1, SMT
<1>5. over => c * b = 100 * a
  <2> SUFFICES ASSUME over PROVE c * b = 100 * a
    OBVIOUS
  <2>1. PICK q \in Int : 100 * a = b * q
    <3>1. 100 * a = (b * ((100 * a) \div b)) + ((100 * a) % b)
      BY SMT
    <3> QED BY <1>2, <3>1
  <2>2. (c - 1) * b < q * b /\ q * b <= c * b
    BY <1>1, <2>1
  <2>3. c - 1 < q /\ q <= c
    BY <1>1, <2>2, SMT
  <2> QED BY <1>1, <2>1, <2>3
<1>6. pct \in Nat /\ (pct = c \/ (over /\ pct = c + 1))
  BY <1>1
<1> QED BY <1>1, <1>3, <1>4, <1>5, <1>6

\* One more matching container never lowers the share (reach.go).
LEMMA ShareGrows ==
    ASSUME NEW a \in Nat, NEW b \in Nat, a <= b
    PROVE  ComputeFleetPct(a + 1, b + 1) >= ComputeFleetPct(a, b)
<1>1. /\ ComputeFleetPct(a + 1, b + 1) \in 0..100
      /\ ComputeFleetPct(a, b) \in 0..100
  <2>1. a + 1 \in Nat /\ b + 1 \in Nat
    OBVIOUS
  <2>2. \A x, y \in Nat : ComputeFleetPct(x, y) \in Percent
    BY FleetPctIsPercent
  <2>3. Percent = 0..100
    BY DEF Percent
  <2> QED BY <2>1, <2>2, <2>3
<1>2. CASE a = 0
  BY <1>1, <1>2 DEF ComputeFleetPct
<1>3. CASE a >= b
  <2>1. ComputeFleetPct(a + 1, b + 1) = 100
    BY <1>3 DEF ComputeFleetPct
  <2> QED BY <1>1, <2>1
<1>4. CASE 0 < a /\ a < b
  <2>1. PICK c \in Nat, p \in Nat :
             /\ c * b >= 100 * a /\ (c - 1) * b < 100 * a /\ c <= 100
             /\ p = c \/ (p = c + 1 /\ c * b = 100 * a)
             /\ ComputeFleetPct(a, b) = IF p > 100 THEN 100 ELSE p
    BY <1>4, ProperShare
  <2>2. PICK d \in Nat, q \in Nat :
             /\ d * (b + 1) >= 100 * (a + 1) /\ (d - 1) * (b + 1) < 100 * (a + 1) /\ d <= 100
             /\ q = d \/ (q = d + 1 /\ d * (b + 1) = 100 * (a + 1))
             /\ ComputeFleetPct(a + 1, b + 1) = IF q > 100 THEN 100 ELSE q
    <3>1. PICK x \in Nat : x = a + 1
      OBVIOUS
    <3>2. PICK y \in Nat : y = b + 1
      OBVIOUS
    <3>3. 0 < x /\ x < y
      BY <1>4, <3>1, <3>2
    <3>4. \E d, q \in Nat :
             /\ d * y >= 100 * x /\ (d - 1) * y < 100 * x /\ d <= 100
             /\ q = d \/ (q = d + 1 /\ d * y = 100 * x)
             /\ ComputeFleetPct(x, y) = IF q > 100 THEN 100 ELSE q
      BY <3>3, ProperShare
    <3> QED BY <3>1, <3>2, <3>4
  <2>3. d * (b + 1) >= 100 * a + 100
    BY <2>2
  <2>4. d >= c
    <3> SUFFICES ASSUME d <= c - 1 PROVE FALSE
      BY <2>1, <2>2
    <3>1. d * (b + 1) <= (c - 1) * (b + 1)
      BY <2>1, <2>2, SMT
    <3>2. (c - 1) * (b + 1) = (c - 1) * b + (c - 1)
      BY <2>1, SMT
    <3> QED BY <2>1, <2>2, <2>3, <3>1, <3>2
  <2>5. ASSUME c * b = 100 * a PROVE d >= c + 1
    <3> SUFFICES ASSUME d <= c PROVE FALSE
      BY <2>1, <2>2
    <3>1. d * (b + 1) <= c * (b + 1)
      BY <2>1, <2>2, SMT
    <3>2. c * (b + 1) = c * b + c
      BY <2>1, SMT
    <3>3. c >= 100
      BY <2>1, <2>2, <2>3, <2>5, <3>1, <3>2
    <3>4. c * b = 100 * b
      BY <2>1, <3>3
    <3> QED BY <1>4, <2>5, <3>4
  <2> QED BY <2>1, <2>2, <2>4, <2>5
<1> QED BY <1>2, <1>3, <1>4

\* The share is over-reported by less than two points (reach.go: one for the
\* ceiling, one for the floating-point error it can carry).
THEOREM FleetPctIsClose ==
    ASSUME NEW a \in Nat, NEW b \in Nat \ {0}, a <= b
    PROVE  (ComputeFleetPct(a, b) - 2) * b < 100 * a
<1>1. CASE a = 0
  <2>1. ComputeFleetPct(a, b) = 0
    BY <1>1 DEF ComputeFleetPct
  <2> QED BY <1>1, <2>1
<1>2. CASE a >= b
  <2>1. ComputeFleetPct(a, b) = 100
    BY <1>2 DEF ComputeFleetPct
  <2> QED BY <1>2, <2>1
<1>3. CASE 0 < a /\ a < b
  <2>1. PICK c \in Nat, p \in Nat :
             /\ c * b >= 100 * a /\ (c - 1) * b < 100 * a /\ c <= 100
             /\ p = c \/ (p = c + 1 /\ c * b = 100 * a)
             /\ ComputeFleetPct(a, b) = IF p > 100 THEN 100 ELSE p
    BY <1>3, ProperShare
  <2> DEFINE r == ComputeFleetPct(a, b)
  <2>2. r \in Nat /\ r - 2 <= c - 1
    BY <2>1
  <2> HIDE DEF r
  <2>3. (r - 2) * b <= (c - 1) * b
    BY <2>1, <2>2, SMT
  <2>4. (r - 2) * b \in Int /\ (c - 1) * b \in Int
    BY <2>1, <2>2
  <2> QED BY <2>1, <2>3, <2>4 DEF r
<1> QED BY <1>1, <1>2, <1>3
---------------------------------------------------------------------------
(* The state.                                                              *)

\* A target of containers, any inventory, one of the bounds, a mode per axis.
FleetTypeOK ==
    /\ matched \in Seq(Workloads)
    /\ others \in Nat
    /\ declared \in Bounds
    /\ modes \in Enforcement

LEMMA FleetInitType == FleetInit => FleetTypeOK
BY DEF FleetInit, FleetTypeOK, Enforcement, Mode

LEMMA FleetNextType == FleetTypeOK /\ [FleetNext]_fleet => FleetTypeOK'
<1> SUFFICES ASSUME FleetTypeOK, [FleetNext]_fleet PROVE FleetTypeOK'
  OBVIOUS
<1> USE DEF FleetTypeOK
<1>1. ASSUME NEW w \in Workloads, Start(w) PROVE FleetTypeOK'
  BY <1>1, SMT DEF Start
<1>2. CASE Stop
  <2>1. PICK i \in DOMAIN matched :
          matched' = [j \in 1..(Len(matched) - 1) |->
                         IF j < i THEN matched[j] ELSE matched[j + 1]]
    BY <1>2 DEF Stop
  <2>2. Len(matched) - 1 \in Nat /\ i \in 1..Len(matched)
    BY <2>1, SMT
  <2>3. matched' \in [1..(Len(matched) - 1) -> Workloads]
    BY <2>1, <2>2, SMT
  <2>4. matched' \in Seq(Workloads)
    BY <2>2, <2>3, SeqDef
  <2> QED BY <1>2, <2>4 DEF Stop
<1>3. CASE Join
  BY <1>3 DEF Join
<1>4. ASSUME NEW axis \in {"MaxHosts", "Service", "FleetPct"}, Ratchet(axis) PROVE FleetTypeOK'
  <2>1. modes \in [{"MaxHosts", "Service", "FleetPct"} -> Mode]
    BY DEF Enforcement
  <2>2. modes' \in Enforcement
    BY <1>4, <2>1 DEF Ratchet, Mode, Enforcement
  <2> QED BY <1>4, <2>2 DEF Ratchet
<1>5. CASE UNCHANGED fleet
  BY <1>5 DEF fleet
<1> QED BY <1>1, <1>2, <1>3, <1>4, <1>5 DEF FleetNext

THEOREM FleetTypeCorrect == FleetSpec => []FleetTypeOK
BY FleetInitType, FleetNextType, PTL DEF FleetSpec

\* The reach of a well-typed fleet, and the numbers it is compared with.
FleetNumbers ==
    /\ Len(matched) \in Nat /\ Inventory \in Nat /\ Len(matched) <= Inventory
    /\ reach.Hosts \in Nat /\ reach.Services \in Nat
    /\ reach.Instances = Len(matched)
    /\ reach.FleetPct = ComputeFleetPct(Len(matched), Inventory)
    /\ reach.FleetPct \in Int
    /\ declared.MaxHosts \in Int /\ declared.FleetPct \in Int

LEMMA FleetNumbersHold == FleetTypeOK => FleetNumbers
<1> SUFFICES ASSUME FleetTypeOK PROVE FleetNumbers
  OBVIOUS
<1>1. Len(matched) \in Nat /\ Inventory \in Nat /\ Len(matched) <= Inventory
  BY DEF FleetTypeOK, Inventory
<1>2. reach \in ReachSet
  BY <1>1, ReachType DEF FleetTypeOK, reach
<1>3. declared.MaxHosts \in Nat /\ declared.FleetPct \in 0..100
  BY FleetAssumption DEF FleetTypeOK, Percent
<1>4. reach.Hosts \in Nat /\ reach.Services \in Nat /\ reach.FleetPct \in 0..100
  BY <1>2 DEF ReachSet, Percent
<1>5. /\ reach.Instances = Len(matched)
      /\ reach.FleetPct = ComputeFleetPct(Len(matched), Inventory)
  BY DEF reach, Reach
<1>6. reach.FleetPct \in Int /\ declared.MaxHosts \in Int /\ declared.FleetPct \in Int
  BY <1>3, <1>4
<1> QED BY <1>1, <1>4, <1>5, <1>6 DEF FleetNumbers

---------------------------------------------------------------------------
(* The invariants.                                                         *)

\* Within and Evaluate agree in every reachable fleet (within.go).
THEOREM JudgementsAlwaysAgree == FleetSpec => []JudgementsAgree
<1>1. FleetTypeOK => JudgementsAgree
  <2> SUFFICES ASSUME FleetTypeOK PROVE JudgementsAgree
    OBVIOUS
  <2> DEFINE d == declared
             r == reach
             over == r.Hosts > d.MaxHosts \/ r.Services # 1 \/ r.FleetPct > d.FleetPct
  <2>1. over <=> ~Within(d, r)
    <3>1. /\ r.Hosts \in Int /\ r.Instances \in Nat /\ r.FleetPct \in Int
          /\ d.MaxHosts \in Int /\ d.FleetPct \in Int
      BY FleetNumbersHold DEF FleetNumbers
    <3> HIDE DEF d, r
    <3> QED BY <3>1, SMT DEF Within
  <2>2. BreachedModes(d, r, modes) # {} => over
    BY DEF BreachedModes
  <2>3. over => \E axis \in DOMAIN modes : modes[axis] \in BreachedModes(d, r, modes)
    <3>1. DOMAIN modes = {"MaxHosts", "Service", "FleetPct"}
      BY DEF FleetTypeOK, Enforcement
    <3> QED BY <3>1 DEF BreachedModes
  <2>4. \A axis \in DOMAIN modes : modes[axis] \in {"off", "warn", "block"}
    BY DEF FleetTypeOK, Enforcement, Mode
  <2> HIDE DEF over, d, r
  <2>5. Evaluate(d, r, modes) = "BLOCK" => over
    BY <2>2 DEF Evaluate
  <2>6. ASSUME \A axis \in DOMAIN modes : modes[axis] # "off"
        PROVE  Evaluate(d, r, modes) = "ALLOW" <=> ~over
    BY <2>2, <2>3, <2>4, <2>6 DEF Evaluate
  <2> QED BY <2>1, <2>5, <2>6 DEF JudgementsAgree, verdict, d, r
<1> QED BY <1>1, FleetTypeCorrect, PTL

\* The share a plan carries covers the true share and is close to it, however
\* many containers there are (reach.go: ComputeFleetPct).
THEOREM ShareAlwaysCovered == FleetSpec => []ShareIsCovered
<1>1. FleetTypeOK => ShareIsCovered
  <2> SUFFICES ASSUME FleetTypeOK, Inventory > 0 PROVE ShareIsCovered
    BY DEF ShareIsCovered
  <2>1. Len(matched) \in Nat /\ Inventory \in Nat \ {0} /\ Len(matched) <= Inventory
    BY FleetNumbersHold DEF FleetNumbers
  <2>2. /\ ComputeFleetPct(Len(matched), Inventory) * Inventory >= 100 * Len(matched)
        /\ (ComputeFleetPct(Len(matched), Inventory) - 2) * Inventory < 100 * Len(matched)
    BY <2>1, FleetPctNeverUnderReports, FleetPctIsClose
  <2>3. reach.FleetPct = ComputeFleetPct(Len(matched), Inventory)
    BY FleetNumbersHold DEF FleetNumbers
  <2> QED BY <2>1, <2>2, <2>3 DEF ShareIsCovered
<1> QED BY <1>1, FleetTypeCorrect, PTL

---------------------------------------------------------------------------
(* What a step may never do.                                               *)

\* A target that gains a container loses no name.
LEMMA NamesGrow ==
    ASSUME NEW S, NEW m \in Seq(S), NEW w \in S, NEW n, n = Append(m, w)
    PROVE  /\ Cardinality(HostsOf(m)) <= Cardinality(HostsOf(n))
           /\ Cardinality(ServicesOf(m)) <= Cardinality(ServicesOf(n))
<1>1. n \in Seq(S) /\ 1..Len(m) \subseteq 1..Len(n) /\ \A i \in 1..Len(m) : n[i] = m[i]
  BY SMT
<1>2. HostsOf(m) \subseteq HostsOf(n) /\ ServicesOf(m) \subseteq ServicesOf(n)
  BY <1>1 DEF HostsOf, ServicesOf
<1>3. IsFiniteSet(HostsOf(n)) /\ IsFiniteSet(ServicesOf(n))
  BY <1>1, NamesOfMatched
<1> QED BY <1>2, <1>3, FS_Subset

\* A container that starts shrinks the reach on no axis and brings no target
\* back within its bound, but one that had no named service (source.go: Reach).
THEOREM GrowthNeverWidensIt == FleetSpec => GrowthNeverWidens
<1> DEFINE Kept == Len(matched') > Len(matched) =>
          /\ reach'.Hosts >= reach.Hosts /\ reach'.Services >= reach.Services
          /\ reach'.FleetPct >= reach.FleetPct
          /\ Within(declared, reach)' => Within(declared, reach) \/ reach.Services = 0
<1>1. FleetTypeOK /\ FleetNumbers /\ FleetNumbers' /\ [FleetNext]_fleet => Kept
  <2> SUFFICES ASSUME FleetTypeOK, FleetNumbers, FleetNumbers', [FleetNext]_fleet,
                      Len(matched') > Len(matched)
               PROVE  Kept
    OBVIOUS
  <2>1. PICK w \in Workloads : Start(w)
    <3>1. ~Stop
      <4> SUFFICES ASSUME Stop PROVE FALSE
        OBVIOUS
      <4>1. Len(matched) \in Nat /\ Len(matched) > 0
        BY SMT DEF Stop, FleetTypeOK
      <4>2. Len(matched') = Len(matched) - 1
        BY <4>1, SMT DEF Stop
      <4> QED BY <4>1, <4>2
    <3>2. ~Join /\ ~(\E axis \in {"MaxHosts", "Service", "FleetPct"} : Ratchet(axis))
      BY DEF Join, Ratchet, FleetNumbers
    <3>3. ~UNCHANGED fleet
      BY DEF fleet, FleetNumbers
    <3> QED BY <3>1, <3>2, <3>3 DEF FleetNext
  <2>2. /\ matched' = Append(matched, w) /\ Len(matched') = Len(matched) + 1
        /\ Inventory' = Inventory + 1 /\ declared' = declared
    BY <2>1, SMT DEF Start, Inventory, FleetTypeOK
  <2>3. reach'.Hosts >= reach.Hosts /\ reach'.Services >= reach.Services
    <3>1. reach.Hosts = Cardinality(HostsOf(matched)) /\ reach.Services = Cardinality(ServicesOf(matched))
      BY DEF reach, Reach, HostsOf, ServicesOf
    <3>2. reach'.Hosts = Cardinality(HostsOf(matched')) /\ reach'.Services = Cardinality(ServicesOf(matched'))
      BY DEF reach, Reach, HostsOf, ServicesOf
    <3>3. /\ Cardinality(HostsOf(matched)) <= Cardinality(HostsOf(matched'))
          /\ Cardinality(ServicesOf(matched)) <= Cardinality(ServicesOf(matched'))
      BY <2>2, NamesGrow DEF FleetTypeOK
    <3>4. /\ reach.Hosts \in Nat /\ reach'.Hosts \in Nat
          /\ reach.Services \in Nat /\ reach'.Services \in Nat
      BY DEF FleetNumbers
    <3> QED BY <3>1, <3>2, <3>3, <3>4
  <2>4. reach'.FleetPct >= reach.FleetPct
    <3>1. ComputeFleetPct(Len(matched) + 1, Inventory + 1) >= ComputeFleetPct(Len(matched), Inventory)
      BY ShareGrows DEF FleetNumbers
    <3> QED BY <2>2, <3>1 DEF FleetNumbers
  <2>5. Within(declared, reach)' => Within(declared, reach) \/ reach.Services = 0
    <3>1. /\ reach.Hosts \in Nat /\ reach.Services \in Nat /\ reach.Instances \in Nat
          /\ reach.FleetPct \in Int /\ declared.MaxHosts \in Int /\ declared.FleetPct \in Int
          /\ reach'.Hosts \in Nat /\ reach'.Services \in Nat /\ reach'.FleetPct \in Int
      BY DEF FleetNumbers
    <3>2. SUFFICES ASSUME Within(declared', reach'), reach.Services # 0
                   PROVE  Within(declared, reach)
      OBVIOUS
    <3>3. reach'.Services = 1 /\ reach'.Hosts <= declared.MaxHosts /\ reach'.FleetPct <= declared.FleetPct
      BY <2>2, <3>2 DEF Within
    <3>4. reach.Services = 1
      <4>1. reach.Services <= 1
        BY <2>3, <3>1, <3>3
      <4> QED BY <3>1, <3>2, <4>1
    <3>5. reach.Hosts <= declared.MaxHosts
      BY <2>3, <3>1, <3>3
    <3>6. reach.FleetPct <= declared.FleetPct
      BY <2>4, <3>1, <3>3
    <3> QED BY <3>1, <3>4, <3>5, <3>6 DEF Within
  <2> QED BY <2>3, <2>4, <2>5
<1> QED BY <1>1, FleetTypeCorrect, FleetNumbersHold, PTL DEF FleetSpec, GrowthNeverWidens

\* Ratcheting an axis softens no verdict and makes no plan executable that was
\* not (within.go: the modes).
THEOREM RatchetNeverSoftensIt == FleetSpec => RatchetNeverSoftens
<1> DEFINE Kept == modes' # modes =>
          /\ Severity[verdict'] >= Severity[verdict]
          /\ Executable(Within(declared, reach), verdict)' =>
                Executable(Within(declared, reach), verdict)
<1>1. FleetTypeOK /\ FleetNumbers /\ FleetTypeOK' /\ [FleetNext]_fleet => Kept
  <2> SUFFICES ASSUME FleetTypeOK, FleetNumbers, FleetTypeOK', [FleetNext]_fleet, modes' # modes
               PROVE  Kept
    OBVIOUS
  <2>1. PICK axis \in {"MaxHosts", "Service", "FleetPct"} : Ratchet(axis)
    BY DEF FleetNext, Start, Stop, Join, fleet
  <2>2. /\ UNCHANGED <<matched, others, declared>>
        /\ modes[axis] # "block"
        /\ modes' = [modes EXCEPT ![axis] = IF @ = "off" THEN "warn" ELSE "block"]
    BY <2>1 DEF Ratchet
  <2>3. reach' = reach
    BY <2>2 DEF reach, Inventory
  <2> DEFINE old == BreachedModes(declared, reach, modes)
             new == BreachedModes(declared, reach, modes')
             harder(a, b) == a = b \/ a = "off" \/ (a = "warn" /\ b = "block")
  <2>4. \A x \in {"MaxHosts", "Service", "FleetPct"} : harder(modes[x], modes'[x])
    BY <2>2 DEF FleetTypeOK, Enforcement, Mode
  <2>5. ("block" \in old => "block" \in new) /\ ("warn" \in old => "warn" \in new \/ "block" \in new)
    BY <2>4 DEF BreachedModes
  <2> HIDE DEF old, new
  <2>6. /\ verdict = IF "block" \in old THEN "BLOCK" ELSE IF "warn" \in old THEN "WARN" ELSE "ALLOW"
        /\ verdict' = IF "block" \in new THEN "BLOCK" ELSE IF "warn" \in new THEN "WARN" ELSE "ALLOW"
    BY <2>2, <2>3 DEF verdict, Evaluate, old, new
  <2>7. Severity[verdict'] >= Severity[verdict]
    BY <2>5, <2>6 DEF Severity
  <2>8. Executable(Within(declared, reach), verdict)' => Executable(Within(declared, reach), verdict)
    BY <2>2, <2>3, <2>5, <2>6 DEF Executable, Within
  <2> QED BY <2>7, <2>8
<1> QED BY <1>1, FleetTypeCorrect, FleetNumbersHold, PTL DEF FleetSpec, RatchetNeverSoftens
=============================================================================
