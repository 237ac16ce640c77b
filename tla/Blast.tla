------------------------------- MODULE Blast -------------------------------
(***************************************************************************)
(* The blast-radius limiter (internal/blast) and the fold of live          *)
(* containers into a reach (internal/source).  An action declares a bound, *)
(* the reach is computed from what the topology reports, and the two are   *)
(* compared axis by axis.  Everything here is a pure operator.             *)
(***************************************************************************)
EXTENDS Integers, Sequences, FiniteSets

---------------------------------------------------------------------------
(* Types.                                                                  *)

\* The empty Go string: an absent name.
NoName == ""

\* within.go: what enforcement does to an over-reach on one axis.
Mode == {"off", "warn", "block"}
Verdict == {"ALLOW", "WARN", "BLOCK"}
Enforcement == [MaxHosts: Mode, Service: Mode, FleetPct: Mode]

Percent == 0..100

\* Bound is what a caller declares; the wire accepts any integers.
DeclaredBound(names) == [MaxHosts: Int, Service: names, FleetPct: Int]

\* What a resolved target was found to touch.
ReachSet == [Hosts: Nat, Services: Nat, Instances: Nat, FleetPct: Percent]

\* A running container as the topology reports it; either name may be blank.
Container(names) == [Service: names, Host: names]

---------------------------------------------------------------------------
(* The declared bound.                                                     *)

\* No dormant dimension, one named service, both numbers in range.
ValidateDeclared(bound, dormant) ==
    /\ dormant = {}
    /\ bound.Service # NoName
    /\ bound.MaxHosts >= 0
    /\ bound.FleetPct \in Percent

---------------------------------------------------------------------------
(* The computed reach.                                                     *)

\* instances / inventory * 100, rounded up, in exact arithmetic.
CeilPct(instances, inventory) ==
    (100 * instances + inventory - 1) \div inventory

\* The least k with instances * 2^k >= inventory, that is minus the binary
\* exponent of the quotient; 0 < instances < inventory.
BinaryShift(instances, inventory) ==
    LET scaled[k \in 0..30] == IF k = 0 THEN instances ELSE 2 * scaled[k - 1]
    IN  CHOOSE k \in 1..30 : /\ scaled[k] >= inventory
                             /\ scaled[k - 1] < inventory

\* (instances * 2^n) % inventory by repeated doubling, never leaving the
\* range of the inventory: what float64 division of the two leaves over.
ShiftedRemainder(instances, inventory, n) ==
    LET rest[k \in 0..n] == IF k = 0 THEN instances % inventory
                                     ELSE (2 * rest[k - 1]) % inventory
    IN  rest[n]

\* float64(instances) / float64(inventory) has a 52-bit fraction.  When it is
\* rounded up, multiplying by 100 can carry the error past the last bit of a
\* percentage that is a whole number, and math.Ceil then adds one to it.  The
\* whole numbers are exact doubles, the quotient is never a tie, and the
\* error survives the second rounding only when the product's exponent is 6
\* above the quotient's (100 * mantissa < 128) and exceeds half its last bit.
CeilOvershoots(instances, inventory) ==
    /\ instances < inventory
    /\ (100 * instances) % inventory = 0
    /\ LET k == BinaryShift(instances, inventory)
           r == ShiftedRemainder(instances, inventory, 52 + k)
       IN  /\ 100 * instances * 2^k < 128 * inventory
           /\ 2 * r > inventory
           /\ 100 * (inventory - r) > 32 * inventory

\* Fault: no clamp for an inventory smaller than the match.
FleetPctUnclamped(instances, inventory) ==
    IF instances <= 0 THEN 0 ELSE IF inventory <= 0 THEN 100 ELSE CeilPct(instances, inventory)

\* Fault: the share rounded down.
FleetPctRoundedDown(instances, inventory) ==
    IF instances <= 0 THEN 0 ELSE IF inventory <= 0 THEN 100 ELSE (100 * instances) \div inventory

\* int(math.Ceil(float64(instances) / float64(inventory) * 100)), clamped.
ComputeFleetPct(instances, inventory) ==
    IF instances <= 0 THEN 0
    ELSE IF inventory <= 0 \/ instances >= inventory THEN 100
    ELSE LET pct == CeilPct(instances, inventory)
                    + (IF CeilOvershoots(instances, inventory) THEN 1 ELSE 0)
         IN  IF pct > 100 THEN 100 ELSE pct

\* Distinct non-blank hosts and services, and the share of the inventory.
Reach(matched, inventory) ==
    [Hosts     |-> Cardinality({matched[i].Host : i \in 1..Len(matched)} \ {NoName}),
     Services  |-> Cardinality({matched[i].Service : i \in 1..Len(matched)} \ {NoName}),
     Instances |-> Len(matched),
     FleetPct  |-> ComputeFleetPct(Len(matched), inventory)]

---------------------------------------------------------------------------
(* The comparison.                                                         *)

\* Fault: as many hosts as declared, not at most as many.
WithinExactHosts(declared, reach) ==
    /\ reach.Services = 1
    /\ reach.Hosts = declared.MaxHosts
    /\ reach.FleetPct <= declared.FleetPct

\* Is the reach inside the bound on every axis?
Within(declared, reach) ==
    /\ reach.Services = 1
    /\ reach.Hosts <= declared.MaxHosts
    /\ reach.Instances >= 0
    /\ reach.FleetPct <= declared.FleetPct

\* Fault: the service axis left out.
BreachedModesNoService(declared, reach, e) ==
    (IF reach.Hosts > declared.MaxHosts THEN {e.MaxHosts} ELSE {})
    \cup (IF reach.FleetPct > declared.FleetPct THEN {e.FleetPct} ELSE {})

\* The modes of the axes on which the reach exceeds the bound.
BreachedModes(declared, reach, e) ==
    (IF reach.Hosts > declared.MaxHosts THEN {e.MaxHosts} ELSE {})
    \cup (IF reach.Services # 1 THEN {e.Service} ELSE {})
    \cup (IF reach.FleetPct > declared.FleetPct THEN {e.FleetPct} ELSE {})

\* Fault: the last breach decides, a blocking one before it notwithstanding.
EvaluateLastWins(declared, reach, e) ==
    LET last == IF reach.FleetPct > declared.FleetPct /\ e.FleetPct # "off" THEN e.FleetPct
                ELSE IF reach.Services # 1 /\ e.Service # "off" THEN e.Service
                ELSE IF reach.Hosts > declared.MaxHosts THEN e.MaxHosts ELSE "off"
    IN  [off |-> "ALLOW", warn |-> "WARN", block |-> "BLOCK"][last]

\* An "off" axis breaches nothing, one "block" axis blocks, else warn.
Evaluate(declared, reach, e) ==
    LET modes == BreachedModes(declared, reach, e)
    IN  IF "block" \in modes THEN "BLOCK"
        ELSE IF "warn" \in modes THEN "WARN"
        ELSE "ALLOW"

\* approve/plan.go: may the approve path mint a token for such a plan?
Executable(within, verdict) == within /\ verdict # "BLOCK"
=============================================================================
