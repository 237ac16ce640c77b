------------------------------- MODULE Fleet -------------------------------
(***************************************************************************)
(* The limiter over time: containers of one target start and stop, other   *)
(* units come and go, and an operator ratchets the enforcement of an axis  *)
(* from off to warn to block.  At every moment the reach is folded from    *)
(* what runs (internal/source) and judged against one declared bound       *)
(* (internal/blast), once by Within and once by Evaluate.                  *)
(***************************************************************************)
EXTENDS Blast

CONSTANTS
    Workloads,    \* the containers that can run: [Service, Host]
    Bounds,       \* the declared bounds
    MaxMatched,   \* bound: containers that match the target
    MaxOthers     \* bound: reachable units that do not match

ASSUME FleetAssumption ==
    /\ \A w \in Workloads : DOMAIN w = {"Service", "Host"}
    /\ \A b \in Bounds : b.MaxHosts \in Nat /\ b.FleetPct \in Percent
    /\ MaxMatched \in Nat /\ MaxOthers \in Nat

VARIABLES
    matched,   \* the containers Topology.Resolve returns
    others,    \* the rest of the inventory
    declared,  \* the bound of the action
    modes      \* Engine.Enforcement

fleet == <<matched, others, declared, modes>>

FleetInit ==
    /\ matched = << >> /\ others = 0
    /\ declared \in Bounds
    /\ modes = [MaxHosts |-> "off", Service |-> "off", FleetPct |-> "off"]

Start(w) ==
    /\ Len(matched) < MaxMatched
    /\ matched' = Append(matched, w)
    /\ UNCHANGED <<others, declared, modes>>

\* Any one container stops.
Stop ==
    /\ \E i \in DOMAIN matched :
          matched' = [j \in 1..(Len(matched) - 1) |->
                         IF j < i THEN matched[j] ELSE matched[j + 1]]
    /\ UNCHANGED <<others, declared, modes>>

Join ==
    /\ others < MaxOthers
    /\ others' = others + 1
    /\ UNCHANGED <<matched, declared, modes>>

Ratchet(axis) ==
    /\ modes[axis] # "block"
    /\ modes' = [modes EXCEPT ![axis] = IF @ = "off" THEN "warn" ELSE "block"]
    /\ UNCHANGED <<matched, others, declared>>

FleetNext ==
    \/ \E w \in Workloads : Start(w)
    \/ Stop
    \/ Join
    \/ \E axis \in {"MaxHosts", "Service", "FleetPct"} : Ratchet(axis)

FleetSpec == FleetInit /\ [][FleetNext]_fleet

---------------------------------------------------------------------------
Inventory == Len(matched) + others
reach == Reach(matched, Inventory)
verdict == Evaluate(declared, reach, modes)

Severity == [ALLOW |-> 0, WARN |-> 1, BLOCK |-> 2]

\* The two judgements a plan carries are computed apart and agree: BLOCK means
\* out of bound, and with no axis off ALLOW means within it (within.go: Within
\* and Evaluate; approve/plan.go relies on both).
JudgementsAgree ==
    /\ verdict = "BLOCK" => ~Within(declared, reach)
    /\ (\A axis \in DOMAIN modes : modes[axis] # "off") =>
          (verdict = "ALLOW" <=> Within(declared, reach))

\* The share is never under-reported, and is off by less than two points: a
\* plan within its ceiling really is (reach.go: rounding up in floating point).
ShareIsCovered ==
    Inventory > 0 =>
        /\ reach.FleetPct * Inventory >= 100 * Len(matched)
        /\ (reach.FleetPct - 2) * Inventory < 100 * Len(matched)

\* A container that starts never shrinks the reach on any axis, so the recheck
\* of a fleet that only grew can turn an approval down but never turn a refusal
\* into an approval, a target with no named service apart (source.go: Reach).
GrowthNeverWidens ==
    [][Len(matched') > Len(matched) =>
          /\ reach'.Hosts >= reach.Hosts /\ reach'.Services >= reach.Services
          /\ reach'.FleetPct >= reach.FleetPct
          /\ Within(declared, reach)' => Within(declared, reach) \/ reach.Services = 0]_fleet

\* Ratcheting an axis towards block never softens the verdict and never makes
\* a plan executable that was not (within.go: the modes; docs/mutation-loop.md:
\* operators ratchet each axis to block when ready).
RatchetNeverSoftens ==
    [][modes' # modes =>
          /\ Severity[verdict'] >= Severity[verdict]
          /\ Executable(Within(declared, reach), verdict)' =>
                Executable(Within(declared, reach), verdict)]_fleet

=============================================================================
