------------------------------- MODULE Engine -------------------------------
(***************************************************************************)
(* The mutation loop (internal/engine with internal/approve): plan, then   *)
(* approve, then execute, each served by one goroutine per request.        *)
(*                                                                         *)
(* A request is a call.  Between two steps of a call any other call may    *)
(* run: a step is what one critical section does (the plan map, the id     *)
(* counter, the token store, the audit log), one reading of the live       *)
(* topology, or one use of the actuator.  Around the calls the topology    *)
(* changes, the clock advances and the process crashes and restarts, which *)
(* loses the plans, the tokens and the id counter but not the audit log,   *)
(* nor what clients hold, nor what was done to the services.               *)
(*                                                                         *)
(* A hash stands for the tuple it is computed from and a token's secret    *)
(* for a number nobody can guess: SHA-256 is taken as injective and the    *)
(* random source as never repeating.                                       *)
(***************************************************************************)
EXTENDS Actions

CONSTANTS
    Calls,            \* goroutines that may serve a request at once
    Requests,         \* the bodies POST /v1/plans may carry
    Principals,       \* automation key ids and human identities
    Canon,            \* TrimSpace and case folding of a principal
    Humans,           \* principals that come through the human SSO header
    Approvers,        \* principals that may try to approve
    Topologies,       \* the states of the fleet the provider may report
    Modes,            \* Engine.Enforcement
    TTL,              \* Engine.TokenTTL, in ticks
    SinkMayFail,      \* may AuditSink.Append return an error?
    MayPanic,         \* may the provider or the actuator panic?
    MaxNow,           \* bound: clock ticks
    MaxCalls,         \* bound: requests ever started
    MaxCrashes        \* bound: restarts

NoPrincipal == ""

PlanRequest == [Action: Names, Backend: Names, Project: Names, Params: Params,
                DeclaredBound: DeclaredBound(Names), Dormant: SUBSET Names,
                ProposerKeyID: Principals]

ASSUME EngineAssumption ==
    /\ Requests \subseteq PlanRequest
    /\ NoPrincipal \in Principals
    /\ Canon \in [Principals -> Principals]
    /\ Humans \subseteq Principals
    /\ Approvers \subseteq Principals
    /\ Topologies # {} /\ Topologies \subseteq Topology
    /\ Modes \in Enforcement
    /\ TTL \in Nat
    /\ SinkMayFail \in BOOLEAN /\ MayPanic \in BOOLEAN
    /\ MaxNow \in Nat /\ MaxCalls \in Nat /\ MaxCrashes \in Nat

---------------------------------------------------------------------------
(* Data.                                                                   *)

\* Fault: the declared bound left out of the hash.
PlanHashNoBound(p) == [p EXCEPT !.DeclaredBound = [MaxHosts |-> 0, Service |-> NoName,
                                                   FleetPct |-> 0]]

\* hash.go: what the plan hash covers.  The plan's id, its proposer, its
\* verdict and its times are not part of it.
PlanHash(p) == [Action        |-> p.Action,
                Backend       |-> p.Backend,
                Project       |-> p.Project,
                Params        |-> p.Params,
                DeclaredBound |-> p.DeclaredBound,
                ComputedReach |-> p.ComputedReach,
                Target        |-> p.Target]

HashTuple == [Action: Names, Backend: Names, Project: Names, Params: Params,
              DeclaredBound: DeclaredBound(Names), ComputedReach: ReachSet,
              Target: Target]

\* A row that is about no plan carries no hash.
NoHash == [Action |-> NoName, Backend |-> NoName, Project |-> NoName,
           Params |-> [service |-> NoName, project |-> NoName, image_ref |-> NoName],
           DeclaredBound |-> [MaxHosts |-> 0, Service |-> NoName, FleetPct |-> 0],
           ComputedReach |-> NoReach, Target |-> NoTarget]

\* A plan as the engine stores it: what was hashed, the hash, and the rest.
Stored == [PlanID: Nat, Tuple: HashTuple, PlanHash: HashTuple, Verdict: Verdict,
           WithinBound: BOOLEAN, Proposer: Principals]

NoStored == [PlanID |-> 0, Tuple |-> NoHash, PlanHash |-> NoHash,
             Verdict |-> "BLOCK", WithinBound |-> FALSE, Proposer |-> NoPrincipal]

\* The plan Plan builds from a request and what the target resolved to.
NewPlan(req, reach, target) ==
    LET tuple == [Action        |-> req.Action,
                  Backend       |-> req.Backend,
                  Project       |-> req.Project,
                  Params        |-> req.Params,
                  DeclaredBound |-> req.DeclaredBound,
                  ComputedReach |-> reach,
                  Target        |-> target]
    IN  [PlanID      |-> 0,
         Tuple       |-> tuple,
         PlanHash    |-> PlanHash(tuple),
         Verdict     |-> Evaluate(req.DeclaredBound, reach, Modes),
         WithinBound |-> Within(req.DeclaredBound, reach),
         Proposer    |-> req.ProposerKeyID]

\* token.go: a minted token.
Token == [planHash: HashTuple, approver: Principals, expiresAt: Nat,
          consumed: BOOLEAN]

\* Fault: the two principals compared as they are spelled.
CheckSoDAsSpelled(proposer, approver) ==
    approver \in Humans /\ Canon[approver] # NoPrincipal /\ approver # proposer

\* sod.go: a human, named, and not the proposer.
CheckSoD(proposer, approver) ==
    /\ approver \in Humans
    /\ Canon[approver] # NoPrincipal
    /\ Canon[approver] # Canon[proposer]

\* The columns of an audit row the loop's promises are about.
Row == [Event: {"plan", "approve", "refuse", "execute"}, PlanHash: HashTuple,
        ComputedReach: ReachSet, Proposer: Principals, Approver: Principals]

AuditRow(event, s, reach, approver) ==
    [Event |-> event, PlanHash |-> s.PlanHash, ComputedReach |-> reach,
     Proposer |-> s.Proposer, Approver |-> approver]

\* What the actuator did for a call: with which token, for which plan, the
\* reach the recheck saw, the reach when it ran, and the log row that says so
\* (0: none).
Mutation == [token: Nat, ran: Stored, approver: Principals, checked: ReachSet,
             live: ReachSet, row: Nat]

PC == {"idle", "newID", "store", "auditPlan",
       "mint", "auditApprove",
       "consume", "recheck", "mutate", "auditExecute", "exeID",
       "refuse"}

\* A call: where it is, the plan it works on (its copy, as the code keeps it),
\* the approver and the token it names, the reach its next row will carry,
\* and the mutation it made.
Call == [pc: PC, snap: Stored, actor: Principals, tok: Nat, reach: ReachSet,
         mut: Nat]

Idle == [pc |-> "idle", snap |-> NoStored, actor |-> NoPrincipal, tok |-> 0,
         reach |-> NoReach, mut |-> 0]

---------------------------------------------------------------------------
VARIABLES
    \* the engine
    idseq,      \* Engine.idseq
    plans,      \* Engine.plans: plan id -> stored plan
    tokens,     \* TokenStore.rec: token -> record
    call,       \* the goroutines
    \* what a restart leaves
    log,        \* the rows the audit log holds
    now,        \* the clock
    topo,       \* the live topology
    \* what clients hold
    shown,      \* the plans returned to them, by id and hash
    handed,     \* the tokens returned to them
    reported,   \* the mutations reported to them as executed
    \* what happened
    minted,     \* for each token, the plan it was minted for and the approver
    mutations,  \* what the actuator did, in order
    started,    \* requests started
    crashes     \* restarts

engine  == <<idseq, plans, tokens>>
world   == <<now, topo, crashes>>
clients == <<shown, handed, reported>>
history == <<minted, mutations>>
vars    == <<engine, call, log, world, clients, history, started>>

Minted == [plan: Stored, approver: Principals]
Shown == [PlanID: Nat, PlanHash: HashTuple]

TypeOK ==
    /\ idseq \in Nat
    /\ DOMAIN plans \subseteq Nat /\ plans \in [DOMAIN plans -> Stored]
    /\ DOMAIN tokens \subseteq Nat /\ tokens \in [DOMAIN tokens -> Token]
    /\ call \in [Calls -> Call]
    /\ log \in Seq(Row)
    /\ now \in Nat /\ topo \in Topologies
    /\ shown \subseteq Shown /\ handed \subseteq Nat /\ reported \subseteq Nat
    /\ minted \in Seq(Minted) /\ mutations \in Seq(Mutation)
    /\ started \in Nat /\ crashes \in Nat

Init ==
    /\ idseq = 0 /\ plans = << >> /\ tokens = << >>
    /\ call = [c \in Calls |-> Idle]
    /\ log = << >> /\ now = 0 /\ topo \in Topologies
    /\ shown = {} /\ handed = {} /\ reported = {}
    /\ minted = << >> /\ mutations = << >>
    /\ started = 0 /\ crashes = 0

---------------------------------------------------------------------------
(* Helpers.                                                                *)

\* f with one more (or a new) value at k.
With(f, k, v) == [x \in DOMAIN f \cup {k} |-> IF x = k THEN v ELSE f[x]]

\* A call begins; no more than MaxCalls ever do.
Begin(c, next) ==
    /\ call[c].pc = "idle" /\ started < MaxCalls
    /\ call' = [call EXCEPT ![c] = next]
    /\ started' = started + 1

\* A call takes its next step.
Goto(c, from, next) ==
    /\ call[c].pc = from
    /\ call' = [call EXCEPT ![c] = next]
    /\ started' = started

\* AuditSink.Append: the row is written and nil returned; or an error is
\* returned, and the row is in the file (only its anchor failed) or is not.
AuditAppend(row, ok) ==
    \/ ok /\ log' = Append(log, row)
    \/ ~ok /\ SinkMayFail /\ log' \in {log, Append(log, row)}

---------------------------------------------------------------------------
(* Plan.                                                                   *)

\* A bound that does not validate or a target that does not resolve: the call
\* goes on to a refuse row and returns an error.  An unknown action returns an
\* error before anything changes, so it is no step.
PlanRefused(c, req) ==
    /\ req.Action \in Registered
    /\ \/ ~ValidateDeclared(req.DeclaredBound, req.Dormant)
       \/ ~ValidateBound(req.DeclaredBound)
       \/ ~Resolve(topo, req.Action, req.Params).ok
    /\ Begin(c, [Idle EXCEPT !.pc = "refuse", !.snap.Proposer = req.ProposerKeyID])
    /\ UNCHANGED <<engine, log, world, clients, history>>

\* The target resolves; the plan is evaluated and hashed.
PlanResolved(c, req) ==
    LET found == Resolve(topo, req.Action, req.Params)
    IN  /\ req.Action \in Registered
        /\ ValidateDeclared(req.DeclaredBound, req.Dormant)
        /\ ValidateBound(req.DeclaredBound)
        /\ found.ok
        /\ Begin(c, [Idle EXCEPT !.pc = "newID",
                                 !.snap = NewPlan(req, found.reach, found.target),
                                 !.reach = found.reach])
        /\ UNCHANGED <<engine, log, world, clients, history>>

\* Fault: the counter read and not advanced.
PlanNewIDStuck(c) ==
    /\ Goto(c, "newID", [call[c] EXCEPT !.pc = "store", !.snap.PlanID = idseq + 1])
    /\ UNCHANGED <<engine, log, world, clients, history>>

\* newID("pln"), in a critical section of its own.
PlanNewID(c) ==
    /\ Goto(c, "newID", [call[c] EXCEPT !.pc = "store", !.snap.PlanID = idseq + 1])
    /\ idseq' = idseq + 1
    /\ UNCHANGED <<plans, tokens, log, world, clients, history>>

\* Fault: a plan over its bound answered and not stored.
PlanStoreExecutable(c) ==
    LET s == call[c].snap
    IN  /\ plans' = IF Executable(s.WithinBound, s.Verdict) THEN With(plans, s.PlanID, s)
                    ELSE plans
        /\ Goto(c, "store", [call[c] EXCEPT !.pc = "auditPlan"])
        /\ UNCHANGED <<idseq, tokens, log, world, clients, history>>

\* Fault: room for one plan, and the next one waits for it to go.
PlanStoreWaits(c) ==
    /\ plans = << >>
    /\ Goto(c, "store", [call[c] EXCEPT !.pc = "auditPlan"])
    /\ plans' = With(plans, call[c].snap.PlanID, call[c].snap)
    /\ UNCHANGED <<idseq, tokens, log, world, clients, history>>

PlanStore(c) ==
    /\ Goto(c, "store", [call[c] EXCEPT !.pc = "auditPlan"])
    /\ plans' = With(plans, call[c].snap.PlanID, call[c].snap)
    /\ UNCHANGED <<idseq, tokens, log, world, clients, history>>

\* The plan row; Plan ignores the error and returns the plan either way.
PlanAudit(c) ==
    LET s == call[c].snap
    IN  /\ Goto(c, "auditPlan", Idle)
        /\ \E ok \in BOOLEAN :
              AuditAppend(AuditRow("plan", s, call[c].reach, NoPrincipal), ok)
        /\ shown' = shown \cup {[PlanID |-> s.PlanID, PlanHash |-> s.PlanHash]}
        /\ UNCHANGED <<engine, world, handed, reported, history>>

---------------------------------------------------------------------------
(* Approve.                                                                *)

\* The stored plan is read and, off the lock, the supplied hash, the verdict
\* and the separation of duties are checked on that copy.  A plan id that is
\* not stored returns an error and changes nothing.
ApproveCheck(c, id, hash, who) ==
    /\ id \in DOMAIN plans
    /\ LET s == plans[id]
           passes == /\ hash = s.PlanHash
                     /\ Executable(s.WithinBound, s.Verdict)
                     /\ CheckSoD(s.Proposer, who)
       IN  Begin(c, [Idle EXCEPT !.pc = IF passes THEN "mint" ELSE "refuse",
                                 !.snap = s, !.actor = who,
                                 !.reach = s.Tuple.ComputedReach])
    /\ UNCHANGED <<engine, log, world, clients, history>>

\* TokenStore.Mint.
ApproveMint(c) ==
    LET t == Len(minted) + 1
        s == call[c].snap
    IN  /\ Goto(c, "mint", [call[c] EXCEPT !.pc = "auditApprove", !.tok = t])
        /\ tokens' = With(tokens, t, [planHash  |-> s.PlanHash,
                                      approver  |-> call[c].actor,
                                      expiresAt |-> now + TTL,
                                      consumed  |-> FALSE])
        /\ minted' = Append(minted, [plan |-> s, approver |-> call[c].actor])
        /\ UNCHANGED <<idseq, plans, log, world, clients, mutations>>

\* The random source fails: an error, no token and no row.
ApproveMintFails(c) ==
    /\ Goto(c, "mint", Idle)
    /\ UNCHANGED <<engine, log, world, clients, history>>

\* Fault: the token given out whether its row was written or not.
ApproveAuditBlind(c) ==
    /\ Goto(c, "auditApprove", Idle)
    /\ \E ok \in BOOLEAN :
          AuditAppend(AuditRow("approve", call[c].snap, call[c].reach, call[c].actor), ok)
    /\ handed' = handed \cup {call[c].tok}
    /\ UNCHANGED <<engine, world, shown, reported, history>>

\* The approve row; only when Append returns nil is the token given out.
ApproveAudit(c) ==
    /\ Goto(c, "auditApprove", Idle)
    /\ \E ok \in BOOLEAN :
          /\ AuditAppend(AuditRow("approve", call[c].snap, call[c].reach, call[c].actor), ok)
          /\ handed' = IF ok THEN handed \cup {call[c].tok} ELSE handed
    /\ UNCHANGED <<engine, world, shown, reported, history>>

---------------------------------------------------------------------------
(* Execute.                                                                *)

\* The stored plan is read; a token nobody minted is 0.
ExecuteLookup(c, id, t) ==
    /\ id \in DOMAIN plans
    /\ Begin(c, [Idle EXCEPT !.pc = "consume", !.snap = plans[id], !.tok = t,
                             !.reach = plans[id].Tuple.ComputedReach])
    /\ UNCHANGED <<engine, log, world, clients, history>>

\* Fault: the consumed flag not tested.
AcceptableAgain(t, hash) ==
    t \in DOMAIN tokens /\ now <= tokens[t].expiresAt /\ tokens[t].planHash = hash

\* Fault: the plan hash not compared.
AcceptableElsewhere(t, hash) ==
    t \in DOMAIN tokens /\ ~tokens[t].consumed /\ now <= tokens[t].expiresAt

\* Fault: the expiry not compared.
AcceptableLate(t, hash) ==
    t \in DOMAIN tokens /\ ~tokens[t].consumed /\ tokens[t].planHash = hash

\* Consume accepts a known, unconsumed, unexpired token of this plan hash.
Acceptable(t, hash) ==
    /\ t \in DOMAIN tokens
    /\ ~tokens[t].consumed
    /\ now <= tokens[t].expiresAt
    /\ tokens[t].planHash = hash

\* TokenStore.Consume: from here on the token is spent, whatever follows.
ExecuteConsume(c) ==
    LET t == call[c].tok
    IN  \/ /\ Acceptable(t, call[c].snap.PlanHash)
           /\ tokens' = [tokens EXCEPT ![t].consumed = TRUE]
           /\ Goto(c, "consume", [call[c] EXCEPT !.pc = "recheck",
                                                 !.actor = tokens[t].approver])
           /\ UNCHANGED <<idseq, plans, log, world, clients, history>>
        \/ /\ ~Acceptable(t, call[c].snap.PlanHash)
           /\ Goto(c, "consume", [call[c] EXCEPT !.pc = "refuse"])
           /\ UNCHANGED <<engine, log, world, clients, history>>

\* Fault: the new reach audited but the approved one compared.
ExecuteRecheckStale(c) ==
    LET tuple == call[c].snap.Tuple
        found == Resolve(topo, tuple.Action, tuple.Params)
    IN  /\ Goto(c, "recheck",
                [call[c] EXCEPT !.pc = IF found.ok /\ Within(tuple.DeclaredBound, call[c].reach)
                                       THEN "mutate" ELSE "refuse",
                                !.reach = IF found.ok THEN found.reach ELSE @])
        /\ UNCHANGED <<engine, log, world, clients, history>>

\* Fault: a failed resolution returns at once, with no refuse row.
ExecuteRecheckQuiet(c) ==
    LET tuple == call[c].snap.Tuple
        found == Resolve(topo, tuple.Action, tuple.Params)
    IN  /\ Goto(c, "recheck",
                IF ~found.ok THEN Idle
                ELSE [call[c] EXCEPT !.pc = IF Within(tuple.DeclaredBound, found.reach)
                                            THEN "mutate" ELSE "refuse",
                                     !.reach = found.reach])
        /\ UNCHANGED <<engine, log, world, clients, history>>

\* The reach is resolved again and compared with the declared bound.
ExecuteRecheck(c) ==
    LET tuple == call[c].snap.Tuple
        found == Resolve(topo, tuple.Action, tuple.Params)
        passes == /\ found.ok
                  /\ Evaluate(tuple.DeclaredBound, found.reach, Modes) # "BLOCK"
                  /\ Within(tuple.DeclaredBound, found.reach)
    IN  /\ Goto(c, "recheck",
                [call[c] EXCEPT !.pc = IF passes THEN "mutate" ELSE "refuse",
                                !.reach = IF found.ok THEN found.reach ELSE @])
        /\ UNCHANGED <<engine, log, world, clients, history>>

\* The actuator touches the service, as it is deployed by now.
Touch(c) ==
    LET k == call[c]
        found == Resolve(topo, k.snap.Tuple.Action, k.snap.Tuple.Params)
    IN  mutations' = Append(mutations,
            [token |-> k.tok, ran |-> k.snap, approver |-> k.actor,
             checked |-> k.reach, live |-> found.reach, row |-> 0])

\* Action.Execute returns an outcome.
ExecuteMutate(c) ==
    /\ Goto(c, "mutate", [call[c] EXCEPT !.pc = "auditExecute",
                                         !.mut = Len(mutations) + 1])
    /\ Touch(c)
    /\ UNCHANGED <<engine, log, world, clients, minted>>

\* Fault: the error returned at once, with no refuse row.
ExecuteFailsQuiet(c) ==
    /\ Touch(c) \/ UNCHANGED mutations
    /\ Goto(c, "mutate", Idle)
    /\ UNCHANGED <<engine, log, world, clients, minted>>

\* Action.Execute returns an error, the service touched or not.
ExecuteFails(c) ==
    /\ Goto(c, "mutate", [call[c] EXCEPT !.pc = "refuse"])
    /\ Touch(c) \/ UNCHANGED mutations
    /\ UNCHANGED <<engine, log, world, clients, minted>>

\* Resolve or Action.Execute panics, the service touched or not: the request is
\* answered (recoverPanic) and no row is written.
Panic(c) ==
    /\ MayPanic
    /\ \/ Goto(c, "recheck", Idle) /\ UNCHANGED mutations
       \/ Goto(c, "mutate", Idle) /\ (Touch(c) \/ UNCHANGED mutations)
    /\ UNCHANGED <<engine, log, world, clients, minted>>

\* Fault: the row carries the reach that was approved, not the one rechecked.
ExecuteAuditApprovedReach(c) ==
    /\ \E ok \in BOOLEAN :
          /\ AuditAppend(AuditRow("execute", call[c].snap,
                                  call[c].snap.Tuple.ComputedReach, call[c].actor), ok)
          /\ Goto(c, "auditExecute", IF ok THEN [call[c] EXCEPT !.pc = "exeID"] ELSE Idle)
    /\ mutations' = IF log' = log THEN mutations
                    ELSE [mutations EXCEPT ![call[c].mut].row = Len(log')]
    /\ UNCHANGED <<engine, world, clients, minted>>

\* Fault: success reported whether the row was written or not.
ExecuteAuditBlind(c) ==
    /\ Goto(c, "auditExecute", [call[c] EXCEPT !.pc = "exeID"])
    /\ \E ok \in BOOLEAN :
          AuditAppend(AuditRow("execute", call[c].snap, call[c].reach, call[c].actor), ok)
    /\ mutations' = IF log' = log THEN mutations
                    ELSE [mutations EXCEPT ![call[c].mut].row = Len(log')]
    /\ UNCHANGED <<engine, world, clients, minted>>

\* The execute row: without it no success is reported.
ExecuteAudit(c) ==
    /\ \E ok \in BOOLEAN :
          /\ Goto(c, "auditExecute",
                  IF ok THEN [call[c] EXCEPT !.pc = "exeID"] ELSE Idle)
          /\ AuditAppend(AuditRow("execute", call[c].snap, call[c].reach, call[c].actor), ok)
    /\ mutations' = IF log' = log THEN mutations
                    ELSE [mutations EXCEPT ![call[c].mut].row = Len(log')]
    /\ UNCHANGED <<engine, world, clients, minted>>

\* newID("exe") and the answer.
ExecuteReport(c) ==
    /\ Goto(c, "exeID", Idle)
    /\ idseq' = idseq + 1
    /\ reported' = reported \cup {call[c].mut}
    /\ UNCHANGED <<plans, tokens, log, world, shown, handed, history>>

\* The refuse row of any of the three; its error is ignored.
Refuse(c) ==
    /\ Goto(c, "refuse", Idle)
    /\ \E ok \in BOOLEAN :
          AuditAppend(AuditRow("refuse", call[c].snap, call[c].reach, call[c].actor), ok)
    /\ UNCHANGED <<engine, world, clients, history>>

---------------------------------------------------------------------------
(* The environment.                                                        *)

ChangeTopology ==
    /\ topo' \in Topologies \ {topo}
    /\ UNCHANGED <<engine, call, log, now, crashes, clients, history, started>>

Tick ==
    /\ now < MaxNow
    /\ now' = now + 1
    /\ UNCHANGED <<engine, call, log, topo, crashes, clients, history, started>>

\* The process dies and is started again.
Crash ==
    /\ crashes < MaxCrashes
    /\ crashes' = crashes + 1
    /\ idseq' = 0 /\ plans' = << >> /\ tokens' = << >>
    /\ call' = [c \in Calls |-> Idle]
    /\ UNCHANGED <<log, now, topo, clients, history, started>>

---------------------------------------------------------------------------
\* A client sends a request.  Plan ids are numbers in order and anybody can compute
\* a hash: it may name any stored plan, shown to it or not, with that plan's hash or
\* a wrong one.  A token it was handed, or is one nobody minted.
Request(c) ==
    \/ \E req \in Requests : PlanRefused(c, req) \/ PlanResolved(c, req)
    \/ \E id \in DOMAIN plans, who \in Approvers :
          \E hash \in {plans[id].PlanHash, NoHash} : ApproveCheck(c, id, hash, who)
    \/ \E id \in DOMAIN plans, t \in handed \cup {0} : ExecuteLookup(c, id, t)

\* The engine serves it, step by step.
Step(c) ==
    \/ PlanNewID(c) \/ PlanStore(c) \/ PlanAudit(c)
    \/ ApproveMint(c) \/ ApproveMintFails(c) \/ ApproveAudit(c)
    \/ ExecuteConsume(c) \/ ExecuteRecheck(c)
    \/ ExecuteMutate(c) \/ ExecuteFails(c)
    \/ ExecuteAudit(c) \/ ExecuteReport(c)
    \/ Refuse(c)

Environment == ChangeTopology \/ Tick \/ Crash

Next == (\E c \in Calls : Request(c) \/ Step(c) \/ Panic(c)) \/ Environment

Spec == Init /\ [][Next]_vars

\* The Go scheduler runs every goroutine that can run; nothing makes one panic.
FairSpec == Spec /\ \A c \in Calls : WF_vars(Step(c))

---------------------------------------------------------------------------
(* Properties.                                                             *)

\* A token is good for one execution: no two mutations were made with the same
\* token, whatever raced, failed in between or was restarted (token.go: the
\* consumed flag is tested and set in one critical section).
TokenUsedOnce ==
    \A i, j \in DOMAIN mutations :
        mutations[i].token = mutations[j].token => i = j

\* Nothing is done to a service without an approval on record: each mutation
\* used a token that was handed out, and the log already holds an approve row
\* with the hash of the plan that ran and the approver of the token
\* (engine.go: Approve returns no token whose row was not written).
MutationApproved ==
    \A i \in DOMAIN mutations :
        LET m == mutations[i]
        IN  /\ m.token \in handed
            /\ \E r \in DOMAIN log :
                  /\ log[r].Event = "approve"
                  /\ log[r].PlanHash = m.ran.PlanHash
                  /\ log[r].Approver = m.approver

\* What ran is what was approved: the plan a mutation ran agrees with the plan
\* its token was minted for on the action, the parameters (the image with
\* them), the bound, the target and the reach (hash.go: what the hash covers).
RanWhatWasApproved ==
    \A i \in DOMAIN mutations :
        LET m == mutations[i]
        IN  m.ran.Tuple = minted[m.token].plan.Tuple

\* Every approver is a human other than the proposer of the plan the approver
\* looked at, and that plan was inside its bound, for every token there is:
\* also the ones whose approve row failed (Approve checks before Mint).
TokensSeparateDuties ==
    \A t \in DOMAIN minted :
        LET s == minted[t].plan
            who == minted[t].approver
        IN  /\ who \in Humans /\ Canon[who] \notin {NoPrincipal, Canon[s.Proposer]}
            /\ Within(s.Tuple.DeclaredBound, s.Tuple.ComputedReach)

\* However the fleet moved in between, the reach that was approved and the one read
\* again at execute time are both inside the bound of the plan that ran, whichever
\* plan of that hash it was, and whatever the modes: also where every axis is on
\* warn (Approve and Execute test Within beside the verdict; WarnProceeds below is
\* what the documents say of warn).
RecheckedWithinBound ==
    \A i \in DOMAIN mutations :
        LET m == mutations[i]
            bound == m.ran.Tuple.DeclaredBound
        IN  /\ Within(bound, minted[m.token].plan.Tuple.ComputedReach)
            /\ Within(bound, m.checked)

\* A mutation and the execute row that records it.
Records(r, i) ==
    /\ mutations[i].row = r
    /\ log[r].PlanHash = mutations[i].ran.PlanHash
    /\ log[r].ComputedReach = mutations[i].checked
    /\ log[r].Approver = mutations[i].approver

\* The execute rows are true: each records exactly one mutation that has
\* happened, with its plan, the reach of its recheck and its approver.
ExecuteRowsAreTrue ==
    \A r \in DOMAIN log : log[r].Event = "execute" =>
        /\ \E i \in DOMAIN mutations : Records(r, i)
        /\ \A i, j \in DOMAIN mutations : Records(r, i) /\ Records(r, j) => i = j

\* A client that is told its plan ran can find that in the log: each reported
\* mutation has its execute row (engine.go, AuditSink: no success is returned
\* without a durable audit record).
ReportedIsRecorded ==
    \A i \in reported :
        /\ i \in DOMAIN mutations
        /\ mutations[i].row \in DOMAIN log
        /\ log[mutations[i].row].Event = "execute"
        /\ Records(mutations[i].row, i)

\* The plan a client was shown is the plan its id names until a restart: a
\* stored plan is never replaced by one another goroutine stores.
PlansNeverReplaced ==
    [][crashes' = crashes =>
          \A id \in DOMAIN plans : id \in DOMAIN plans' /\ plans'[id] = plans[id]]_vars

\* The plan row of this hash is written, or a Plan that has stored its plan is about
\* to write it.
PlanTold(hash) ==
    \/ \E p \in DOMAIN log : log[p].Event = "plan" /\ log[p].PlanHash = hash
    \/ \E c \in Calls : call[c].pc = "auditPlan" /\ call[c].snap.PlanHash = hash

\* With a sink that never fails the log leaves out no part of the story.  An execute
\* row comes after an approve row of the same hash and approver.  A plan is stored
\* before its row is written, so who guesses its id and computes its hash may have
\* an approve row written first: but, without a restart, the plan row is there or is
\* on its way (engine.go, Plan and Approve).
LogTellsTheStory ==
    \A r \in DOMAIN log :
        /\ log[r].Event = "approve" /\ crashes = 0 => PlanTold(log[r].PlanHash)
        /\ log[r].Event = "execute" =>
              \E a \in 1..(r - 1) : /\ log[a].Event = "approve"
                                    /\ log[a].PlanHash = log[r].PlanHash
                                    /\ log[a].Approver = log[r].Approver

\* With a sink that never fails no token disappears unnoticed: a consumed
\* token is held by a call that is still at work, or the log has the execute
\* or the refuse row that says what became of it.
SpentTokensAccountedFor ==
    \A t \in DOMAIN tokens : tokens[t].consumed =>
        \/ \E c \in Calls : call[c].tok = t /\ call[c].pc # "consume"
        \/ \E r \in DOMAIN log : /\ log[r].Event \in {"execute", "refuse"}
                                 /\ log[r].PlanHash = tokens[t].planHash
                                 /\ log[r].Approver = tokens[t].approver

\* The log knows of mutation i: its execute row, the refuse row of a failed
\* execution with its hash and approver, or its call still on the way there.
AccountedFor(i) ==
    LET m == mutations[i]
    IN  \/ m.row # 0
        \/ \E r \in DOMAIN log : /\ log[r].Event = "refuse"
                                 /\ log[r].PlanHash = m.ran.PlanHash
                                 /\ log[r].Approver = m.approver
        \/ \E c \in Calls : call[c].tok = m.token /\ call[c].pc \in {"auditExecute", "refuse"}

\* With a sink that never fails and no panic, what was done to a service is in the
\* log, but for what was under way when the process died: one mutation at most for
\* each goroutine and restart (engine.go: a failed execution has its refuse row).
MutationsAccountedFor ==
    Cardinality({i \in DOMAIN mutations : ~AccountedFor(i)})
        <= crashes * Cardinality(Calls)

\* Every request that is being served is answered, or the process dies: no
\* order of the critical sections leaves a goroutine waiting for ever.
CallsReturn ==
    \A c \in Calls : (call[c].pc # "idle") ~> (call[c].pc = "idle")

---------------------------------------------------------------------------
(* What the documents say of the loop and the code does not do.            *)

\* docs/mutation-loop.md, FC5: "Approver # proposer", for the rows of the
\* execute events, which carry both.
ApproverIsNotProposer ==
    \A r \in DOMAIN log : log[r].Event = "execute" =>
        Canon[log[r].Approver] # Canon[log[r].Proposer]

\* within.go, ModeWarn: "over-reach recorded/surfaced but permitted (default)": the
\* recheck stops an execution of a target that resolves only for a breach of an axis
\* that is on block.
WarnProceeds ==
    [][\A c \in Calls : call[c].pc = "recheck" /\ call'[c].pc = "refuse" =>
          LET tuple == call[c].snap.Tuple
              found == Resolve(topo, tuple.Action, tuple.Params)
          IN  found.ok => Evaluate(tuple.DeclaredBound, found.reach, Modes) = "BLOCK"]_vars

\* docs/mutation-loop.md: any drift in computed reach invalidates the token; a
\* human approves exactly the reach they saw.
RanAtTheReachApproved ==
    \A i \in DOMAIN mutations :
        mutations[i].checked = minted[mutations[i].token].plan.Tuple.ComputedReach
=============================================================================
