---------------------------- MODULE EngineProofs ----------------------------
(***************************************************************************)
(* The promises of the approval gate, for every value of the constants:    *)
(* the types are kept, IInv is inductive, and the safety properties of     *)
(* Engine follow from it.                                                  *)
(***************************************************************************)
EXTENDS EngineInv, BlastProofs

---------------------------------------------------------------------------
(* Types.                                                                  *)

\* Resolving a target gives a reach and a target, or says it cannot.
LEMMA ResolveType ==
    ASSUME NEW t \in Topology, NEW action, NEW params \in Params
    PROVE  /\ Resolve(t, action, params).ok \in BOOLEAN
           /\ Resolve(t, action, params).reach \in ReachSet
           /\ Resolve(t, action, params).target \in Target
<1> DEFINE key == <<Trimmed[params.project], Trimmed[params.service]>>
           answer == t[key]
<1>1. /\ Trimmed[params.project] \in Names
      /\ Trimmed[params.service] \in Names
      /\ Trimmed[params.image_ref] \in Names
  BY NamesAssumption DEF Params
<1>2. answer \in Answer
  BY <1>1 DEF Topology
<1>3. answer.matched \in Seq(Container(Names)) /\ answer.inventory \in Nat
  BY <1>2 DEF Answer
<1>4. Reach(answer.matched, answer.inventory) \in ReachSet
  BY <1>3, ReachType
<1>5. TargetOf(action, params) \in Target
  BY <1>1, NamesAssumption DEF TargetOf, Target
<1>6. NoReach \in ReachSet /\ NoTarget \in Target
  BY NamesAssumption DEF NoReach, ReachSet, Percent, NoTarget, Target
<1>7. CASE ParamsComplete(action, params) /\ answer.ok /\ answer.matched # << >>
  BY <1>7, <1>4, <1>5 DEF Resolve
<1>8. CASE ~(ParamsComplete(action, params) /\ answer.ok /\ answer.matched # << >>)
  BY <1>8, <1>6 DEF Resolve, Unresolved
<1> QED BY <1>7, <1>8

LEMMA NullTypes == /\ NoReach \in ReachSet /\ NoTarget \in Target
                   /\ NoHash \in HashTuple /\ NoStored \in Stored
                   /\ Idle \in Call
<1>1. NoReach \in ReachSet /\ NoTarget \in Target
  BY NamesAssumption DEF NoReach, ReachSet, Percent, NoTarget, Target
<1>2. NoHash \in HashTuple
  <2>1. [service |-> NoName, project |-> NoName, image_ref |-> NoName] \in Params
    BY NamesAssumption DEF Params
  <2>2. [MaxHosts |-> 0, Service |-> NoName, FleetPct |-> 0] \in DeclaredBound(Names)
    BY NamesAssumption DEF DeclaredBound
  <2> QED BY <1>1, <2>1, <2>2, NamesAssumption DEF NoHash, HashTuple
<1>3. NoStored \in Stored
  BY <1>2, EngineAssumption DEF NoStored, Stored, Verdict
<1>4. Idle \in Call
  BY <1>1, <1>3, EngineAssumption DEF Idle, Call, PC
<1> QED BY <1>1, <1>2, <1>3, <1>4

\* A hash stands for exactly one tuple: equal hashes mean equal tuples.
LEMMA HashIsInjective ==
    ASSUME NEW x \in HashTuple
    PROVE  PlanHash(x) = x
BY DEF PlanHash, HashTuple

LEMMA WithinIsBoolean ==
    ASSUME NEW d, NEW r
    PROVE  Within(d, r) \in BOOLEAN
BY DEF Within

\* A plan is built from a request as a well-formed stored plan.
LEMMA NewPlanType ==
    ASSUME NEW req \in PlanRequest, NEW reach \in ReachSet, NEW target \in Target
    PROVE  NewPlan(req, reach, target) \in Stored
<1> DEFINE tuple == [Action        |-> req.Action,
                     Backend       |-> req.Backend,
                     Project       |-> req.Project,
                     Params        |-> req.Params,
                     DeclaredBound |-> req.DeclaredBound,
                     ComputedReach |-> reach,
                     Target        |-> target]
<1>1. tuple \in HashTuple
  BY DEF PlanRequest, HashTuple
<1>2. PlanHash(tuple) \in HashTuple
  BY <1>1, HashIsInjective
<1>3. Evaluate(req.DeclaredBound, reach, Modes) \in Verdict
  BY EvaluateType
<1>4. Within(req.DeclaredBound, reach) \in BOOLEAN
  BY WithinIsBoolean
<1>5. req.ProposerKeyID \in Principals
  BY DEF PlanRequest
<1> HIDE DEF tuple
<1>6. NewPlan(req, reach, target) =
        [PlanID |-> 0, Tuple |-> tuple, PlanHash |-> PlanHash(tuple),
         Verdict |-> Evaluate(req.DeclaredBound, reach, Modes),
         WithinBound |-> Within(req.DeclaredBound, reach),
         Proposer |-> req.ProposerKeyID]
  BY DEF NewPlan, tuple
<1> QED BY <1>1, <1>2, <1>3, <1>4, <1>5, <1>6 DEF Stored

\* A row is a row.
LEMMA AuditRowType ==
    ASSUME NEW event \in {"plan", "approve", "refuse", "execute"}, NEW s \in Stored,
           NEW reach \in ReachSet, NEW approver \in Principals
    PROVE  AuditRow(event, s, reach, approver) \in Row
BY DEF AuditRow, Row, Stored

\* Appending a row, or failing to, leaves a sequence of rows.
LEMMA AuditAppendType ==
    ASSUME log \in Seq(Row), NEW row \in Row, NEW ok, AuditAppend(row, ok)
    PROVE  log' \in Seq(Row)
BY DEF AuditAppend

LEMMA TypeInit == Init => TypeOK
<1> SUFFICES ASSUME Init PROVE TypeOK
  OBVIOUS
<1>1. call \in [Calls -> Call]
  BY NullTypes DEF Init
<1>2. DOMAIN plans = {} /\ DOMAIN tokens = {}
  BY DEF Init
<1>3. plans \in [DOMAIN plans -> Stored] /\ tokens \in [DOMAIN tokens -> Token]
  BY <1>2 DEF Init
<1> QED BY <1>1, <1>2, <1>3 DEF Init, TypeOK
\* The two ways a call moves keep the calls well formed.
LEMMA GotoType ==
    ASSUME TypeOK, NEW c \in Calls, NEW from, NEW next \in Call, Goto(c, from, next)
    PROVE  call' \in [Calls -> Call] /\ started' \in Nat
BY DEF Goto, TypeOK

LEMMA BeginType ==
    ASSUME TypeOK, NEW c \in Calls, NEW next \in Call, Begin(c, next)
    PROVE  call' \in [Calls -> Call] /\ started' \in Nat
BY DEF Begin, TypeOK

\* Adding an entry to a map keeps it a map of such entries.
LEMMA WithType ==
    ASSUME NEW S, NEW f, f \in [DOMAIN f -> S], DOMAIN f \subseteq Nat,
           NEW k \in Nat, NEW v \in S
    PROVE  /\ DOMAIN With(f, k, v) = DOMAIN f \cup {k}
           /\ DOMAIN With(f, k, v) \subseteq Nat
           /\ With(f, k, v) \in [DOMAIN With(f, k, v) -> S]
           /\ With(f, k, v)[k] = v
           /\ \A x \in DOMAIN f : x # k => With(f, k, v)[x] = f[x]
BY DEF With

LEMMA TypePlan ==
    ASSUME TypeOK, NEW c \in Calls,
           \/ \E req \in Requests : PlanRefused(c, req) \/ PlanResolved(c, req)
           \/ PlanNewID(c) \/ PlanStore(c) \/ PlanAudit(c)
    PROVE  TypeOK'
<1>0. call[c] \in Call
  BY DEF TypeOK
<1>1. ASSUME NEW req \in Requests, PlanRefused(c, req) PROVE TypeOK'
  <2> DEFINE next == [Idle EXCEPT !.pc = "refuse", !.snap.Proposer = req.ProposerKeyID]
  <2>1. req.ProposerKeyID \in Principals
    BY EngineAssumption DEF PlanRequest
  <2>2. [NoStored EXCEPT !.Proposer = req.ProposerKeyID] \in Stored
    BY <2>1, NullTypes DEF Stored
  <2>3. next \in Call
    BY <2>2, NullTypes DEF Call, Idle, PC
  <2>4. call' \in [Calls -> Call] /\ started' \in Nat
    BY <1>1, <2>3, BeginType DEF PlanRefused
  <2> QED BY <1>1, <2>4 DEF PlanRefused, TypeOK, engine, world, clients, history
<1>2. ASSUME NEW req \in Requests, PlanResolved(c, req) PROVE TypeOK'
  <2> DEFINE found == Resolve(topo, req.Action, req.Params)
             next == [Idle EXCEPT !.pc = "newID",
                                  !.snap = NewPlan(req, found.reach, found.target),
                                  !.reach = found.reach]
  <2>1. req \in PlanRequest /\ topo \in Topology
    BY EngineAssumption DEF TypeOK
  <2>2. req.Params \in Params
    BY <2>1 DEF PlanRequest
  <2>3. found.reach \in ReachSet /\ found.target \in Target
    BY <2>1, <2>2, ResolveType
  <2>4. NewPlan(req, found.reach, found.target) \in Stored
    BY <2>1, <2>3, NewPlanType
  <2> HIDE DEF found
  <2>5. next \in Call
    BY <2>3, <2>4, NullTypes DEF Call, Idle, PC
  <2>6. Begin(c, next)
    BY <1>2 DEF PlanResolved, found
  <2>7. call' \in [Calls -> Call] /\ started' \in Nat
    BY <2>5, <2>6, BeginType
  <2> QED BY <1>2, <2>7 DEF PlanResolved, TypeOK, engine, world, clients, history
<1>3. ASSUME PlanNewID(c) PROVE TypeOK'
  <2> DEFINE next == [call[c] EXCEPT !.pc = "store", !.snap.PlanID = idseq + 1]
  <2>1. [call[c].snap EXCEPT !.PlanID = idseq + 1] \in Stored
    <3>1. idseq + 1 \in Nat
      BY DEF TypeOK
    <3>2. call[c].snap \in Stored
      BY <1>0 DEF Call
    <3> QED BY <3>1, <3>2 DEF Stored
  <2>2. next \in Call
    BY <1>0, <2>1 DEF Call, PC
  <2>3. call' \in [Calls -> Call] /\ started' \in Nat
    BY <1>3, <2>2, GotoType DEF PlanNewID
  <2> QED BY <1>3, <2>3 DEF PlanNewID, TypeOK, world, clients, history
<1>4. ASSUME PlanStore(c) PROVE TypeOK'
  <2>1. [call[c] EXCEPT !.pc = "auditPlan"] \in Call
    BY <1>0 DEF Call, PC
  <2>2. call' \in [Calls -> Call] /\ started' \in Nat
    BY <1>4, <2>1, GotoType DEF PlanStore
  <2>3. call[c].snap \in Stored /\ call[c].snap.PlanID \in Nat
    BY <1>0 DEF Call, Stored
  <2>4. DOMAIN plans' \subseteq Nat /\ plans' \in [DOMAIN plans' -> Stored]
    <3>1. DOMAIN plans \subseteq Nat /\ plans \in [DOMAIN plans -> Stored]
      BY DEF TypeOK
    <3>2. plans' = With(plans, call[c].snap.PlanID, call[c].snap)
      BY <1>4 DEF PlanStore
    <3> DEFINE w == With(plans, call[c].snap.PlanID, call[c].snap)
    <3>3. DOMAIN w \subseteq Nat /\ w \in [DOMAIN w -> Stored]
      BY <2>3, <3>1, WithType
    <3> HIDE DEF w
    <3> QED BY <3>2, <3>3 DEF w
  <2> QED BY <1>4, <2>2, <2>4 DEF PlanStore, TypeOK, world, clients, history
<1>5. ASSUME PlanAudit(c) PROVE TypeOK'
  <2>1. call' \in [Calls -> Call] /\ started' \in Nat
    BY <1>5, NullTypes, GotoType DEF PlanAudit
  <2>2. call[c].snap \in Stored /\ call[c].reach \in ReachSet /\ NoPrincipal \in Principals
    BY <1>0, EngineAssumption DEF Call
  <2> DEFINE row == AuditRow("plan", call[c].snap, call[c].reach, NoPrincipal)
  <2>3. log' \in Seq(Row)
    <3>1. row \in Row
      BY <2>2, AuditRowType
    <3>2. PICK ok \in BOOLEAN : AuditAppend(row, ok)
      BY <1>5 DEF PlanAudit
    <3> HIDE DEF row
    <3> QED BY <3>1, <3>2, AuditAppendType DEF TypeOK
  <2>4. [PlanID |-> call[c].snap.PlanID, PlanHash |-> call[c].snap.PlanHash] \in Shown
    BY <2>2 DEF Stored, Shown
  <2>5. shown' \subseteq Shown
    BY <1>5, <2>4 DEF PlanAudit, TypeOK
  <2> QED BY <1>5, <2>1, <2>3, <2>5 DEF PlanAudit, TypeOK, engine, world, history
<1> QED BY <1>1, <1>2, <1>3, <1>4, <1>5

LEMMA TypeApprove ==
    ASSUME TypeOK, NEW c \in Calls,
           \/ \E id \in DOMAIN plans, who \in Approvers :
                 \E hash \in {plans[id].PlanHash, NoHash} : ApproveCheck(c, id, hash, who)
           \/ ApproveMint(c) \/ ApproveMintFails(c) \/ ApproveAudit(c)
    PROVE  TypeOK'
<1>0. call[c] \in Call
  BY DEF TypeOK
<1>1. ASSUME NEW id, NEW hash, NEW who \in Approvers, ApproveCheck(c, id, hash, who)
      PROVE  TypeOK'
  <2> DEFINE s == plans[id]
             passes == /\ hash = s.PlanHash
                       /\ Executable(s.WithinBound, s.Verdict)
                       /\ CheckSoD(s.Proposer, who)
             next == [Idle EXCEPT !.pc = IF passes THEN "mint" ELSE "refuse",
                                  !.snap = s, !.actor = who,
                                  !.reach = s.Tuple.ComputedReach]
  <2>1. s \in Stored /\ who \in Principals
    BY <1>1, EngineAssumption DEF ApproveCheck, TypeOK
  <2>2. s.Tuple.ComputedReach \in ReachSet
    BY <2>1 DEF Stored, HashTuple
  <2>3. Begin(c, next)
    BY <1>1 DEF ApproveCheck
  <2> HIDE DEF s, passes
  <2>4. next \in Call
    BY <2>1, <2>2, NullTypes DEF Call, Idle, PC
  <2>5. call' \in [Calls -> Call] /\ started' \in Nat
    BY <2>3, <2>4, BeginType
  <2> QED BY <1>1, <2>5 DEF ApproveCheck, TypeOK, engine, world, clients, history
<1>2. ASSUME ApproveMint(c) PROVE TypeOK'
  <2> DEFINE t == Len(minted) + 1
             token == [planHash  |-> call[c].snap.PlanHash, approver |-> call[c].actor,
                       expiresAt |-> now + TTL, consumed |-> FALSE]
             mint == [plan |-> call[c].snap, approver |-> call[c].actor]
             next == [call[c] EXCEPT !.pc = "auditApprove", !.tok = t]
  <2>1. t \in Nat
    BY DEF TypeOK
  <2>2. call[c].snap \in Stored /\ call[c].actor \in Principals
    BY <1>0 DEF Call
  <2>3. token \in Token
    BY <2>2, EngineAssumption DEF Token, Stored, TypeOK
  <2>4. mint \in Minted
    BY <2>2 DEF Minted
  <2>5. next \in Call
    BY <1>0, <2>1 DEF Call, PC
  <2>6. tokens' = With(tokens, t, token) /\ minted' = Append(minted, mint) /\ Goto(c, "mint", next)
    BY <1>2 DEF ApproveMint
  <2> HIDE DEF token, mint, next, t
  <2>7. call' \in [Calls -> Call] /\ started' \in Nat
    BY <2>5, <2>6, GotoType
  <2>8. DOMAIN tokens' \subseteq Nat /\ tokens' \in [DOMAIN tokens' -> Token]
    BY <2>1, <2>3, <2>6, WithType DEF TypeOK
  <2>9. minted' \in Seq(Minted)
    BY <2>4, <2>6 DEF TypeOK
  <2> QED BY <1>2, <2>7, <2>8, <2>9 DEF ApproveMint, TypeOK, world, clients
<1>3. ASSUME ApproveMintFails(c) PROVE TypeOK'
  <2>1. call' \in [Calls -> Call] /\ started' \in Nat
    BY <1>3, NullTypes, GotoType DEF ApproveMintFails
  <2> QED BY <1>3, <2>1 DEF ApproveMintFails, TypeOK, engine, world, clients, history
<1>4. ASSUME ApproveAudit(c) PROVE TypeOK'
  <2>1. call' \in [Calls -> Call] /\ started' \in Nat
    BY <1>4, NullTypes, GotoType DEF ApproveAudit
  <2>2. call[c].snap \in Stored /\ call[c].reach \in ReachSet /\ call[c].actor \in Principals
    BY <1>0 DEF Call
  <2> DEFINE row == AuditRow("approve", call[c].snap, call[c].reach, call[c].actor)
  <2>3. log' \in Seq(Row)
    <3>1. row \in Row
      BY <2>2, AuditRowType
    <3>2. PICK ok \in BOOLEAN : AuditAppend(row, ok)
      BY <1>4 DEF ApproveAudit
    <3> HIDE DEF row
    <3> QED BY <3>1, <3>2, AuditAppendType DEF TypeOK
  <2>4. handed' \subseteq Nat
    BY <1>0, <1>4 DEF ApproveAudit, TypeOK, Call
  <2> QED BY <1>4, <2>1, <2>3, <2>4 DEF ApproveAudit, TypeOK, engine, world, history
<1> QED BY <1>1, <1>2, <1>3, <1>4
LEMMA TypeExecute ==
    ASSUME TypeOK, NEW c \in Calls,
           \/ \E id \in DOMAIN plans, t \in handed \cup {0} : ExecuteLookup(c, id, t)
           \/ ExecuteConsume(c) \/ ExecuteRecheck(c) \/ ExecuteMutate(c)
           \/ ExecuteFails(c) \/ Panic(c)
           \/ ExecuteAudit(c) \/ ExecuteReport(c) \/ Refuse(c)
    PROVE  TypeOK'
<1>0. /\ call[c] \in Call
      /\ call[c].snap \in Stored /\ call[c].reach \in ReachSet
      /\ call[c].actor \in Principals /\ call[c].tok \in Nat /\ call[c].mut \in Nat
  BY DEF TypeOK, Call
<1>a. ASSUME NEW i \in DOMAIN mutations, NEW r \in Nat
      PROVE  [mutations EXCEPT ![i].row = r] \in Seq(Mutation)
  <2>1. mutations \in Seq(Mutation)
    BY DEF TypeOK
  <2>2. mutations[i] \in Mutation
    BY <2>1
  <2>3. [mutations[i] EXCEPT !.row = r] \in Mutation
    BY <2>2 DEF Mutation
  <2> QED BY <2>1, <2>3
<1>1. ASSUME NEW id, NEW t \in handed \cup {0}, ExecuteLookup(c, id, t)
      PROVE  TypeOK'
  <2> DEFINE s == plans[id]
             next == [Idle EXCEPT !.pc = "consume", !.snap = s, !.tok = t,
                                  !.reach = s.Tuple.ComputedReach]
  <2>1. s \in Stored /\ t \in Nat
    <3>1. id \in DOMAIN plans
      BY <1>1 DEF ExecuteLookup
    <3>2. plans \in [DOMAIN plans -> Stored] /\ handed \subseteq Nat
      BY DEF TypeOK
    <3> QED BY <3>1, <3>2
  <2>2. s.Tuple.ComputedReach \in ReachSet
    BY <2>1 DEF Stored, HashTuple
  <2>3. Begin(c, next)
    BY <1>1 DEF ExecuteLookup
  <2> HIDE DEF s
  <2>4. next \in Call
    BY <2>1, <2>2, NullTypes DEF Call, Idle, PC
  <2>5. call' \in [Calls -> Call] /\ started' \in Nat
    BY <2>3, <2>4, BeginType
  <2> QED BY <1>1, <2>5 DEF ExecuteLookup, TypeOK, engine, world, clients, history
<1>2. ASSUME ExecuteConsume(c) PROVE TypeOK'
  <2>1. CASE Acceptable(call[c].tok, call[c].snap.PlanHash)
    <3>1. /\ tokens[call[c].tok] \in Token /\ call[c].tok \in DOMAIN tokens
      BY <2>1 DEF Acceptable, TypeOK
    <3>2. [call[c] EXCEPT !.pc = "recheck", !.actor = tokens[call[c].tok].approver] \in Call
      BY <1>0, <3>1 DEF Call, PC, Token
    <3>3. call' \in [Calls -> Call] /\ started' \in Nat
      BY <1>2, <2>1, <3>2, GotoType DEF ExecuteConsume
    <3>4. [tokens[call[c].tok] EXCEPT !.consumed = TRUE] \in Token
      BY <3>1 DEF Token
    <3>5. DOMAIN tokens' \subseteq Nat /\ tokens' \in [DOMAIN tokens' -> Token]
      BY <1>2, <2>1, <3>1, <3>4 DEF ExecuteConsume, TypeOK
    <3> QED BY <1>2, <2>1, <3>3, <3>5 DEF ExecuteConsume, TypeOK, world, clients, history
  <2>2. CASE ~Acceptable(call[c].tok, call[c].snap.PlanHash)
    <3>1. [call[c] EXCEPT !.pc = "refuse"] \in Call
      BY <1>0 DEF Call, PC
    <3>2. call' \in [Calls -> Call] /\ started' \in Nat
      BY <1>2, <2>2, <3>1, GotoType DEF ExecuteConsume
    <3> QED BY <1>2, <2>2, <3>2 DEF ExecuteConsume, TypeOK, engine, world, clients, history
  <2> QED BY <2>1, <2>2
<1>3. ASSUME ExecuteRecheck(c) PROVE TypeOK'
  <2> DEFINE tuple == call[c].snap.Tuple
             found == Resolve(topo, tuple.Action, tuple.Params)
             passes == /\ found.ok
                       /\ Evaluate(tuple.DeclaredBound, found.reach, Modes) # "BLOCK"
                       /\ Within(tuple.DeclaredBound, found.reach)
             next == [call[c] EXCEPT !.pc = IF passes THEN "mutate" ELSE "refuse",
                                     !.reach = IF found.ok THEN found.reach ELSE @]
  <2>1. topo \in Topology /\ tuple.Params \in Params
    BY <1>0, EngineAssumption DEF TypeOK, Stored, HashTuple
  <2>2. found.reach \in ReachSet
    BY <2>1, ResolveType
  <2>3. Goto(c, "recheck", next)
    BY <1>3 DEF ExecuteRecheck
  <2> HIDE DEF found, passes
  <2>4. next \in Call
    BY <1>0, <2>2 DEF Call, PC
  <2>5. call' \in [Calls -> Call] /\ started' \in Nat
    BY <2>3, <2>4, GotoType
  <2> QED BY <1>3, <2>5 DEF ExecuteRecheck, TypeOK, engine, world, clients, history
<1>b. ASSUME Touch(c) PROVE mutations' \in Seq(Mutation)
  <2> DEFINE tuple == call[c].snap.Tuple
             found == Resolve(topo, tuple.Action, tuple.Params)
             m == [token |-> call[c].tok, ran |-> call[c].snap,
                   approver |-> call[c].actor, checked |-> call[c].reach,
                   live |-> found.reach, row |-> 0]
  <2>1. topo \in Topology /\ tuple.Params \in Params
    BY <1>0, EngineAssumption DEF TypeOK, Stored, HashTuple
  <2>2. found.reach \in ReachSet
    BY <2>1, ResolveType
  <2>3. mutations' = Append(mutations, m)
    BY <1>b DEF Touch
  <2> HIDE DEF found
  <2>4. m \in Mutation
    BY <1>0, <2>2 DEF Mutation
  <2> HIDE DEF m
  <2> QED BY <2>3, <2>4 DEF TypeOK
<1>4. ASSUME ExecuteMutate(c) PROVE TypeOK'
  <2>1. [call[c] EXCEPT !.pc = "auditExecute", !.mut = Len(mutations) + 1] \in Call
    <3>1. Len(mutations) + 1 \in Nat
      BY DEF TypeOK
    <3> QED BY <1>0, <3>1 DEF Call, PC
  <2>2. call' \in [Calls -> Call] /\ started' \in Nat
    BY <1>4, <2>1, GotoType DEF ExecuteMutate
  <2>3. mutations' \in Seq(Mutation)
    BY <1>4, <1>b DEF ExecuteMutate
  <2> QED BY <1>4, <2>2, <2>3 DEF ExecuteMutate, TypeOK, engine, world, clients
<1>5. ASSUME ExecuteFails(c) PROVE TypeOK'
  <2>1. [call[c] EXCEPT !.pc = "refuse"] \in Call
    BY <1>0 DEF Call, PC
  <2>2. call' \in [Calls -> Call] /\ started' \in Nat
    BY <1>5, <2>1, GotoType DEF ExecuteFails
  <2>3. mutations' \in Seq(Mutation)
    BY <1>5, <1>b DEF ExecuteFails, TypeOK
  <2> QED BY <1>5, <2>2, <2>3 DEF ExecuteFails, TypeOK, engine, world, clients
<1>6. ASSUME ExecuteAudit(c) PROVE TypeOK'
  <2> DEFINE row == AuditRow("execute", call[c].snap, call[c].reach, call[c].actor)
  <2>1. row \in Row
    BY <1>0, AuditRowType
  <2>2. PICK ok \in BOOLEAN :
            /\ AuditAppend(row, ok)
            /\ Goto(c, "auditExecute", IF ok THEN [call[c] EXCEPT !.pc = "exeID"] ELSE Idle)
    BY <1>6 DEF ExecuteAudit
  <2> HIDE DEF row
  <2>3. log' \in Seq(Row)
    BY <2>1, <2>2, AuditAppendType DEF TypeOK
  <2>4. [call[c] EXCEPT !.pc = "exeID"] \in Call
    BY <1>0 DEF Call, PC
  <2>5. call' \in [Calls -> Call] /\ started' \in Nat
    BY <2>2, <2>4, NullTypes, GotoType
  <2>6. mutations' \in Seq(Mutation)
    <3>1. CASE log' = log
      BY <1>6, <3>1 DEF ExecuteAudit, TypeOK
    <3>2. CASE log' # log /\ call[c].mut \in DOMAIN mutations
      <4>1. Len(log') \in Nat
        BY <2>3
      <4> QED BY <1>6, <1>a, <3>2, <4>1 DEF ExecuteAudit
    <3>3. CASE log' # log /\ call[c].mut \notin DOMAIN mutations
      <4>1. mutations' = [mutations EXCEPT ![call[c].mut].row = Len(log')]
        BY <1>6, <3>3 DEF ExecuteAudit
      <4>2. mutations' = mutations
        BY <3>3, <4>1 DEF TypeOK
      <4> QED BY <4>2 DEF TypeOK
    <3> QED BY <3>1, <3>2, <3>3
  <2> QED BY <1>6, <2>3, <2>5, <2>6 DEF ExecuteAudit, TypeOK, engine, world, clients
<1>7. ASSUME ExecuteReport(c) PROVE TypeOK'
  <2>1. call' \in [Calls -> Call] /\ started' \in Nat
    BY <1>7, NullTypes, GotoType DEF ExecuteReport
  <2>2. reported' \subseteq Nat
    BY <1>0, <1>7 DEF ExecuteReport, TypeOK
  <2> QED BY <1>7, <2>1, <2>2 DEF ExecuteReport, TypeOK, world, history
<1>8. ASSUME Refuse(c) PROVE TypeOK'
  <2> DEFINE row == AuditRow("refuse", call[c].snap, call[c].reach, call[c].actor)
  <2>1. call' \in [Calls -> Call] /\ started' \in Nat
    BY <1>8, NullTypes, GotoType DEF Refuse
  <2>2. row \in Row
    BY <1>0, AuditRowType
  <2>3. PICK ok \in BOOLEAN : AuditAppend(row, ok)
    BY <1>8 DEF Refuse
  <2> HIDE DEF row
  <2>4. log' \in Seq(Row)
    BY <2>2, <2>3, AuditAppendType DEF TypeOK
  <2> QED BY <1>8, <2>1, <2>4 DEF Refuse, TypeOK, engine, world, clients, history
<1>9. ASSUME Panic(c) PROVE TypeOK'
  <2>1. call' \in [Calls -> Call] /\ started' \in Nat
    BY <1>9, NullTypes, GotoType DEF Panic
  <2>2. mutations' \in Seq(Mutation)
    <3>1. CASE UNCHANGED mutations
      BY <3>1 DEF TypeOK
    <3>2. CASE call[c].pc = "mutate" /\ Touch(c)
      BY <3>2, <1>b
    <3> QED BY <1>9, <3>1, <3>2 DEF Panic, Goto
  <2> QED BY <1>9, <2>1, <2>2 DEF Panic, TypeOK, engine, world, clients
<1> QED BY <1>1, <1>2, <1>3, <1>4, <1>5, <1>6, <1>7, <1>8, <1>9

LEMMA TypeEnvironment ==
    ASSUME TypeOK, Environment \/ UNCHANGED vars
    PROVE  TypeOK'
<1>1. ASSUME ChangeTopology PROVE TypeOK'
  BY <1>1 DEF ChangeTopology, TypeOK, engine, clients, history
<1>2. ASSUME Tick PROVE TypeOK'
  BY <1>2 DEF Tick, TypeOK, engine, clients, history
<1>3. ASSUME Crash PROVE TypeOK'
  <2>1. call' \in [Calls -> Call]
    BY <1>3, NullTypes DEF Crash
  <2>2. DOMAIN plans' = {} /\ DOMAIN tokens' = {}
    BY <1>3 DEF Crash
  <2>3. plans' \in [DOMAIN plans' -> Stored] /\ tokens' \in [DOMAIN tokens' -> Token]
    BY <1>3, <2>2 DEF Crash
  <2> QED BY <1>3, <2>1, <2>2, <2>3 DEF Crash, TypeOK, clients, history
<1>4. ASSUME UNCHANGED vars PROVE TypeOK'
  BY <1>4 DEF vars, TypeOK, engine, world, clients, history
<1> QED BY <1>1, <1>2, <1>3, <1>4 DEF Environment

\* Every variable keeps its type in every step.
LEMMA TypeNext == TypeOK /\ [Next]_vars => TypeOK'
BY TypePlan, TypeApprove, TypeExecute, TypeEnvironment DEF Next, Request, Step

\* The state of the engine, the calls, the log and what happened are well
\* formed in every reachable state.
THEOREM TypeCorrect == Spec => []TypeOK
BY TypeInit, TypeNext, PTL DEF Spec

---------------------------------------------------------------------------
(* Tokens, approvals and mutations.                                        *)

\* Writing a row, or not, keeps the rows that are there.
LEMMA LogGrows ==
    ASSUME TypeOK, log' = log \/ \E row \in Row : log' = Append(log, row)
    PROVE  \A r \in DOMAIN log : r \in DOMAIN log' /\ log'[r] = log[r]
<1>1. log \in Seq(Row)
  BY DEF TypeOK
<1>2. CASE log' = log
  BY <1>2
<1>3. CASE \E row \in Row : log' = Append(log, row)
  <2>1. PICK row \in Row : log' = Append(log, row)
    BY <1>3
  <2> QED
    BY <1>1, <2>1
<1> QED
  BY <1>2, <1>3

\* Approvals stay on record.
LEMMA RecordStays ==
    ASSUME TypeOK, log' = log \/ \E row \in Row : log' = Append(log, row),
           NEW t \in DOMAIN minted, OnRecord(t),
           t \in DOMAIN minted', minted'[t] = minted[t]
    PROVE  OnRecord(t)'
BY LogGrows DEF OnRecord

LEMMA AppendOutcome ==
    ASSUME TypeOK, NEW row \in Row, NEW ok \in BOOLEAN, AuditAppend(row, ok)
    PROVE  log' = log \/ \E x \in Row : log' = Append(log, x)
BY DEF AuditAppend

\* Most steps only move a call that holds nothing to where it still holds
\* nothing; they cannot disturb the invariant.
LEMMA QuietStep ==
    ASSUME TypeOK, IInv, NEW c \in Calls, NEW next \in Call,
           call' = [call EXCEPT ![c] = next],
           SoundPlan(next.snap),
           next.pc \notin {"mint", "auditApprove", "recheck", "mutate"},
           next.pc = "consume" => next.tok \in handed \cup {0},
           \A id \in DOMAIN plans' : SoundPlan(plans'[id]),
           log' = log \/ \E row \in Row : log' = Append(log, row),
           tokens' = tokens, minted' = minted, handed' = handed,
           DOMAIN mutations' = DOMAIN mutations,
           \A i \in DOMAIN mutations :
               /\ mutations'[i].token = mutations[i].token
               /\ mutations'[i].ran = mutations[i].ran
               /\ mutations'[i].approver = mutations[i].approver
               /\ mutations'[i].checked = mutations[i].checked
    PROVE  IInv'
<1>0. /\ call \in [Calls -> Call]
      /\ call'[c] = next
      /\ \A d \in Calls : d # c => call'[d] = call[d]
  BY DEF TypeOK
<1>1. PlansSound'
  BY <1>0 DEF IInv, PlansSound, SoundPlan
<1>2. DutiesSound'
  BY <1>0 DEF IInv, DutiesSound
<1>3. TokensSound'
  BY DEF IInv, TokensSound
<1>4. HandedSound'
  <2>1. \A t \in handed : OnRecord(t)'
    BY RecordStays DEF IInv, HandedSound
  <2>2. \A d \in Calls : call'[d].pc = "auditApprove" =>
          /\ call'[d].tok \in DOMAIN minted
          /\ minted[call'[d].tok].plan = call'[d].snap
          /\ minted[call'[d].tok].approver = call'[d].actor
    BY <1>0 DEF IInv, HandedSound
  <2>3. \A d \in Calls : call'[d].pc = "consume" => call'[d].tok \in handed \cup {0}
    BY <1>0 DEF IInv, HandedSound
  <2> QED BY <2>1, <2>2, <2>3 DEF IInv, HandedSound
<1>5. \A d \in Calls : Holding(d)' => d # c /\ Holding(d) /\ call'[d] = call[d]
  BY <1>0 DEF Holding
<1>6. HoldersSound'
  BY <1>5 DEF IInv, HoldersSound, Spent
<1>7. MutationsSound'
  BY DEF IInv, MutationsSound, Spent, SoundPlan
<1> QED BY <1>1, <1>2, <1>3, <1>4, <1>6, <1>7 DEF IInv
LEMMA InitSound == Init => IInv
<1> SUFFICES ASSUME Init PROVE IInv
  OBVIOUS
<1>1. \A c \in Calls : call[c] = Idle
  BY DEF Init
<1>2. SoundPlan(NoStored)
  BY NullTypes, HashIsInjective DEF SoundPlan, NoStored
<1>3. \A c \in Calls : call[c].snap = NoStored /\ call[c].pc = "idle"
  BY <1>1 DEF Idle
<1>4. /\ DOMAIN plans = {} /\ DOMAIN tokens = {} /\ DOMAIN minted = {}
      /\ DOMAIN mutations = {} /\ handed = {}
  BY DEF Init
<1> QED
  BY <1>2, <1>3, <1>4
  DEF IInv, PlansSound, DutiesSound, TokensSound, HandedSound, HoldersSound,
      MutationsSound, Holding

\* A plan just built is sound: its hash is its own, and Executable looks at
\* what Within said.
LEMMA NewPlanSound ==
    ASSUME NEW req, NEW reach, NEW target
    PROVE  SoundPlan(NewPlan(req, reach, target))
BY DEF SoundPlan, NewPlan

\* Sending a call back to idle is quiet.
LEMMA IdleSound == SoundPlan(Idle.snap) /\ Idle.pc = "idle"
BY NullTypes, HashIsInjective DEF SoundPlan, NoStored, Idle

LEMMA PlanSteps ==
    ASSUME TypeOK, IInv, NEW c \in Calls,
           \/ \E req \in Requests : PlanRefused(c, req) \/ PlanResolved(c, req)
           \/ PlanNewID(c) \/ PlanStore(c) \/ PlanAudit(c)
    PROVE  IInv'
<1>0. /\ call[c] \in Call /\ call[c].snap \in Stored
      /\ SoundPlan(call[c].snap)
      /\ \A id \in DOMAIN plans : SoundPlan(plans[id])
  BY DEF TypeOK, Call, IInv, PlansSound
<1>1. ASSUME NEW req \in Requests, PlanRefused(c, req) PROVE IInv'
  <2> DEFINE next == [Idle EXCEPT !.pc = "refuse", !.snap.Proposer = req.ProposerKeyID]
  <2>1. req.ProposerKeyID \in Principals
    BY EngineAssumption DEF PlanRequest
  <2>2. [NoStored EXCEPT !.Proposer = req.ProposerKeyID] \in Stored
    BY <2>1, NullTypes DEF Stored
  <2>3. next \in Call
    BY <2>2, NullTypes DEF Call, Idle, PC
  <2>4. SoundPlan(next.snap) /\ next.pc = "refuse"
    BY NullTypes, HashIsInjective DEF SoundPlan, NoStored, Idle
  <2>5. call' = [call EXCEPT ![c] = next]
    BY <1>1 DEF PlanRefused, Begin
  <2> HIDE DEF next
  <2> QED BY <1>0, <1>1, <2>3, <2>4, <2>5, QuietStep
          DEF PlanRefused, engine, clients, history
<1>2. ASSUME NEW req \in Requests, PlanResolved(c, req) PROVE IInv'
  <2> DEFINE found == Resolve(topo, req.Action, req.Params)
             next == [Idle EXCEPT !.pc = "newID",
                                  !.snap = NewPlan(req, found.reach, found.target),
                                  !.reach = found.reach]
  <2>1. req \in PlanRequest /\ topo \in Topology
    BY EngineAssumption DEF TypeOK
  <2>2. req.Params \in Params
    BY <2>1 DEF PlanRequest
  <2>3. found.reach \in ReachSet /\ found.target \in Target
    BY <2>1, <2>2, ResolveType
  <2>4. NewPlan(req, found.reach, found.target) \in Stored
    BY <2>1, <2>3, NewPlanType
  <2>5. call' = [call EXCEPT ![c] = next]
    BY <1>2 DEF PlanResolved, Begin
  <2> HIDE DEF found
  <2>6. next \in Call
    BY <2>3, <2>4, NullTypes DEF Call, Idle, PC
  <2>7. SoundPlan(next.snap) /\ next.pc = "newID"
    BY NewPlanSound DEF Idle
  <2> HIDE DEF next
  <2> QED BY <1>0, <1>2, <2>5, <2>6, <2>7, QuietStep
          DEF PlanResolved, engine, clients, history
<1>3. ASSUME PlanNewID(c) PROVE IInv'
  <2> DEFINE next == [call[c] EXCEPT !.pc = "store", !.snap.PlanID = idseq + 1]
  <2>1. [call[c].snap EXCEPT !.PlanID = idseq + 1] \in Stored
    <3>1. idseq + 1 \in Nat
      BY DEF TypeOK
    <3> QED BY <1>0, <3>1 DEF Stored
  <2>2. next \in Call
    BY <1>0, <2>1 DEF Call, PC
  <2>3. SoundPlan(next.snap) /\ next.pc = "store"
    BY <1>0 DEF SoundPlan, Stored, Call
  <2>4. call' = [call EXCEPT ![c] = next]
    BY <1>3 DEF PlanNewID, Goto
  <2> HIDE DEF next
  <2> QED BY <1>0, <1>3, <2>2, <2>3, <2>4, QuietStep DEF PlanNewID, clients, history
<1>4. ASSUME PlanStore(c) PROVE IInv'
  <2> DEFINE next == [call[c] EXCEPT !.pc = "auditPlan"]
  <2>1. next \in Call /\ next.pc = "auditPlan" /\ next.snap = call[c].snap
    BY <1>0 DEF Call, PC
  <2>2. call' = [call EXCEPT ![c] = next]
    BY <1>4 DEF PlanStore, Goto
  <2>3. \A id \in DOMAIN plans' : SoundPlan(plans'[id])
    BY <1>0, <1>4 DEF PlanStore, With
  <2> HIDE DEF next
  <2> QED BY <1>0, <1>4, <2>1, <2>2, <2>3, QuietStep DEF PlanStore, clients, history
<1>5. ASSUME PlanAudit(c) PROVE IInv'
  <2> DEFINE row == AuditRow("plan", call[c].snap, call[c].reach, NoPrincipal)
  <2>1. row \in Row
    BY <1>0, AuditRowType, EngineAssumption DEF Call
  <2>2. log' = log \/ \E x \in Row : log' = Append(log, x)
    <3>1. PICK ok \in BOOLEAN : AuditAppend(row, ok)
      BY <1>5 DEF PlanAudit
    <3> HIDE DEF row
    <3> QED BY <2>1, <3>1, AppendOutcome
  <2>3. call' = [call EXCEPT ![c] = Idle]
    BY <1>5 DEF PlanAudit, Goto
  <2> QED BY <1>0, <1>5, <2>2, <2>3, IdleSound, NullTypes, QuietStep
          DEF PlanAudit, engine, history
<1> QED BY <1>1, <1>2, <1>3, <1>4, <1>5
LEMMA ApproveSteps ==
    ASSUME TypeOK, IInv, NEW c \in Calls,
           \/ \E id \in DOMAIN plans, who \in Approvers :
                 \E hash \in {plans[id].PlanHash, NoHash} : ApproveCheck(c, id, hash, who)
           \/ ApproveMint(c) \/ ApproveMintFails(c) \/ ApproveAudit(c)
    PROVE  IInv'
<1>0. /\ call \in [Calls -> Call]
      /\ call[c] \in Call /\ call[c].snap \in Stored
      /\ SoundPlan(call[c].snap)
      /\ \A id \in DOMAIN plans : SoundPlan(plans[id])
  BY DEF TypeOK, Call, IInv, PlansSound
<1>1. ASSUME NEW id, NEW hash, NEW who \in Approvers, ApproveCheck(c, id, hash, who)
      PROVE  IInv'
  <2> DEFINE s == plans[id]
             passes == /\ hash = s.PlanHash
                       /\ Executable(s.WithinBound, s.Verdict)
                       /\ CheckSoD(s.Proposer, who)
             next == [Idle EXCEPT !.pc = IF passes THEN "mint" ELSE "refuse",
                                  !.snap = s, !.actor = who,
                                  !.reach = s.Tuple.ComputedReach]
  <2>1. s \in Stored /\ who \in Principals /\ SoundPlan(s)
    BY <1>0, <1>1, EngineAssumption DEF ApproveCheck, TypeOK
  <2>2. s.Tuple.ComputedReach \in ReachSet
    BY <2>1 DEF Stored, HashTuple
  <2>3. call' = [call EXCEPT ![c] = next]
    BY <1>1 DEF ApproveCheck, Begin
  <2>4. passes => s.WithinBound /\ CheckSoD(s.Proposer, who)
    BY DEF Executable
  <2> HIDE DEF s, passes
  <2>5. next \in Call
    BY <2>1, <2>2, NullTypes DEF Call, Idle, PC
  <2>6. next.snap = s /\ next.actor = who /\ next.pc = IF passes THEN "mint" ELSE "refuse"
    BY DEF Idle
  <2> HIDE DEF next
  <2>7. CASE ~passes
    BY <1>0, <1>1, <2>1, <2>3, <2>5, <2>6, <2>7, QuietStep
    DEF ApproveCheck, engine, clients, history
  <2>8. CASE passes
    <3>1. /\ call'[c] = next /\ next.pc = "mint"
          /\ \A d \in Calls : d # c => call'[d] = call[d]
      BY <1>0, <2>3, <2>6, <2>8
    <3>2. UNCHANGED <<plans, tokens, minted, mutations, handed, log>>
      BY <1>1 DEF ApproveCheck, engine, clients, history
    <3>3. PlansSound'
      BY <2>1, <2>6, <3>1, <3>2 DEF IInv, PlansSound, SoundPlan
    <3>4. DutiesSound'
      <4>1. next.snap.WithinBound /\ CheckSoD(next.snap.Proposer, next.actor)
        BY <2>4, <2>6, <2>8
      <4> QED BY <3>1, <3>2, <4>1 DEF IInv, DutiesSound, CheckSoD
    <3>5. TokensSound'
      BY <3>2 DEF IInv, TokensSound
    <3>6. HandedSound'
      BY <3>1, <3>2 DEF IInv, HandedSound, OnRecord
    <3>7. \A d \in Calls : Holding(d)' => d # c /\ Holding(d) /\ call'[d] = call[d]
      BY <3>1 DEF Holding
    <3>8. HoldersSound'
      BY <3>2, <3>7 DEF IInv, HoldersSound, Spent
    <3>9. MutationsSound'
      BY <3>2 DEF IInv, MutationsSound, Spent, SoundPlan
    <3> QED BY <3>3, <3>4, <3>5, <3>6, <3>8, <3>9 DEF IInv
  <2> QED BY <2>7, <2>8
<1>2. ASSUME ApproveMint(c) PROVE IInv'
  <2> DEFINE t == Len(minted) + 1
             token == [planHash  |-> call[c].snap.PlanHash, approver |-> call[c].actor,
                       expiresAt |-> now + TTL, consumed |-> FALSE]
             mint == [plan |-> call[c].snap, approver |-> call[c].actor]
             next == [call[c] EXCEPT !.pc = "auditApprove", !.tok = t]
  <2>1. /\ tokens' = With(tokens, t, token) /\ minted' = Append(minted, mint)
        /\ call' = [call EXCEPT ![c] = next] /\ call[c].pc = "mint"
    BY <1>2 DEF ApproveMint, Goto
  <2>2. UNCHANGED <<plans, mutations, handed, log>>
    BY <1>2 DEF ApproveMint, clients
  <2>3. /\ next.pc = "auditApprove" /\ next.tok = t
        /\ next.snap = call[c].snap /\ next.actor = call[c].actor
    BY <1>0 DEF Call
  <2>4. /\ call'[c] = next
        /\ \A d \in Calls : d # c => call'[d] = call[d]
    BY <1>0, <2>1
  <2>5. /\ DOMAIN minted' = DOMAIN minted \cup {t} /\ t \notin DOMAIN minted
        /\ minted'[t] = mint
        /\ \A x \in DOMAIN minted : minted'[x] = minted[x]
    BY <2>1 DEF TypeOK
  <2>6. /\ DOMAIN tokens' = DOMAIN tokens \cup {t} /\ tokens'[t] = token
        /\ \A x \in DOMAIN tokens : x # t => tokens'[x] = tokens[x]
    BY <2>1 DEF With
  <2>7. /\ mint.plan = call[c].snap /\ mint.approver = call[c].actor
        /\ token.planHash = call[c].snap.PlanHash /\ token.approver = call[c].actor
    OBVIOUS
  <2>8. /\ t \notin DOMAIN tokens /\ t \notin handed
    BY <2>5 DEF IInv, TokensSound, HandedSound
  <2> HIDE DEF t, token, mint, next
  <2>9. PlansSound'
    BY <1>0, <2>2, <2>3, <2>4, <2>5, <2>7 DEF IInv, PlansSound, SoundPlan
  <2>10. DutiesSound'
    BY <2>1, <2>3, <2>4, <2>5, <2>7 DEF IInv, DutiesSound, CheckSoD
  <2>11. TokensSound'
    BY <2>5, <2>6, <2>7, <2>8 DEF IInv, TokensSound
  <2>12. HandedSound'
    <3>1. \A x \in handed : x \in DOMAIN minted' /\ OnRecord(x)'
      BY <2>2, <2>5 DEF IInv, HandedSound, OnRecord
    <3>2. \A d \in Calls : call'[d].pc = "auditApprove" =>
            /\ call'[d].tok \in DOMAIN minted'
            /\ minted'[call'[d].tok].plan = call'[d].snap
            /\ minted'[call'[d].tok].approver = call'[d].actor
      BY <2>3, <2>4, <2>5, <2>7 DEF IInv, HandedSound
    <3>3. \A d \in Calls : call'[d].pc = "consume" => call'[d].tok \in handed' \cup {0}
      BY <2>2, <2>3, <2>4 DEF IInv, HandedSound
    <3> QED BY <2>2, <3>1, <3>2, <3>3 DEF HandedSound
  <2>13. \A d \in Calls : Holding(d)' => d # c /\ Holding(d) /\ call'[d] = call[d]
    BY <2>3, <2>4 DEF Holding
  <2>14. \A x \in handed : x \in DOMAIN minted /\ x # t /\ minted'[x] = minted[x]
    BY <2>5, <2>8 DEF IInv, HandedSound
  <2>15. \A x \in handed : Spent(x) => Spent(x)'
    BY <2>6, <2>14 DEF Spent
  <2>16. HoldersSound'
    BY <2>2, <2>13, <2>14, <2>15 DEF IInv, HoldersSound
  <2>17. MutationsSound'
    BY <2>2, <2>14, <2>15 DEF IInv, MutationsSound, SoundPlan
  <2> QED BY <2>9, <2>10, <2>11, <2>12, <2>16, <2>17 DEF IInv
<1>3. ASSUME ApproveMintFails(c) PROVE IInv'
  <2>1. call' = [call EXCEPT ![c] = Idle]
    BY <1>3 DEF ApproveMintFails, Goto
  <2> QED BY <1>0, <1>3, <2>1, IdleSound, NullTypes, QuietStep
          DEF ApproveMintFails, engine, clients, history
<1>4. ASSUME ApproveAudit(c) PROVE IInv'
  <2> DEFINE row == AuditRow("approve", call[c].snap, call[c].reach, call[c].actor)
  <2>1. row \in Row
    BY <1>0, AuditRowType DEF Call
  <2>2. call' = [call EXCEPT ![c] = Idle] /\ call[c].pc = "auditApprove"
    BY <1>4 DEF ApproveAudit, Goto
  <2>3. PICK ok \in BOOLEAN :
            /\ AuditAppend(row, ok)
            /\ handed' = IF ok THEN handed \cup {call[c].tok} ELSE handed
    BY <1>4 DEF ApproveAudit
  <2>4. UNCHANGED <<plans, tokens, minted, mutations>>
    BY <1>4 DEF ApproveAudit, engine, history
  <2>5. row.Event = "approve" /\ row.PlanHash = call[c].snap.PlanHash /\ row.Approver = call[c].actor
    BY DEF AuditRow
  <2> HIDE DEF row
  <2>6. log' = log \/ \E x \in Row : log' = Append(log, x)
    BY <2>1, <2>3, AppendOutcome
  <2>7. CASE ~ok
    BY <1>0, <2>2, <2>3, <2>4, <2>6, <2>7, IdleSound, NullTypes, QuietStep
  <2>8. CASE ok
    <3>a. PICK t \in Nat : t = call[c].tok
      BY <1>0 DEF Call
    <3>1. /\ t \in DOMAIN minted /\ minted[t].plan = call[c].snap
          /\ minted[t].approver = call[c].actor
      BY <2>2, <3>a DEF IInv, HandedSound
    <3>2. log' = Append(log, row)
      BY <2>3, <2>8 DEF AuditAppend
    <3>3. OnRecord(t)'
      <4>1. Len(log) + 1 \in DOMAIN log' /\ log'[Len(log) + 1] = row
        BY <2>1, <3>2 DEF TypeOK
      <4> QED BY <2>4, <2>5, <3>1, <4>1 DEF OnRecord
    <3>4. \A x \in handed : x \in DOMAIN minted /\ OnRecord(x)'
      BY <2>4, <2>6, RecordStays DEF IInv, HandedSound
    <3>5. handed' = handed \cup {t}
      BY <2>3, <2>8, <3>a
    <3>6. /\ call'[c] = Idle /\ Idle.pc = "idle" /\ SoundPlan(Idle.snap)
          /\ \A d \in Calls : d # c => call'[d] = call[d]
      BY <1>0, <2>2, IdleSound
    <3>7. PlansSound'
      BY <2>4, <3>6 DEF IInv, PlansSound, SoundPlan
    <3>8. DutiesSound'
      BY <2>4, <3>6 DEF IInv, DutiesSound, CheckSoD
    <3>9. TokensSound'
      BY <2>4 DEF IInv, TokensSound
    <3>10. HandedSound'
      BY <2>4, <3>1, <3>3, <3>4, <3>5, <3>6 DEF IInv, HandedSound
    <3>11. \A d \in Calls : Holding(d)' => d # c /\ Holding(d) /\ call'[d] = call[d]
      BY <3>6 DEF Holding
    <3>12. HoldersSound'
      BY <2>4, <3>5, <3>11 DEF IInv, HoldersSound, Spent
    <3>13. MutationsSound'
      BY <2>4, <3>5 DEF IInv, MutationsSound, Spent, SoundPlan
    <3> QED BY <3>7, <3>8, <3>9, <3>10, <3>12, <3>13 DEF IInv
  <2> QED BY <2>7, <2>8
<1> QED BY <1>1, <1>2, <1>3, <1>4
\* The actuator's step: the token held becomes the token used.
LEMMA MutateStep ==
    ASSUME TypeOK, IInv, NEW c \in Calls, NEW next \in Call,
           call[c].pc = "mutate", Touch(c),
           call' = [call EXCEPT ![c] = next],
           SoundPlan(next.snap), next.pc \in {"auditExecute", "refuse", "idle"},
           UNCHANGED <<plans, tokens, log, minted, handed>>
    PROVE  IInv'
<1>0. /\ call \in [Calls -> Call]
      /\ call'[c] = next
      /\ \A d \in Calls : d # c => call'[d] = call[d]
  BY DEF TypeOK
<1>1. PICK m : /\ mutations' = Append(mutations, m)
               /\ m.token = call[c].tok /\ m.ran = call[c].snap
               /\ m.approver = call[c].actor /\ m.checked = call[c].reach
  <2>1. PICK live : mutations' = Append(mutations,
            [token |-> call[c].tok, ran |-> call[c].snap, approver |-> call[c].actor,
             checked |-> call[c].reach, live |-> live, row |-> 0])
    BY DEF Touch
  <2> QED BY <2>1
<1>2. PICK k \in Nat : /\ k \notin DOMAIN mutations
                       /\ DOMAIN mutations' = DOMAIN mutations \cup {k}
                       /\ mutations'[k] = m
                       /\ \A i \in DOMAIN mutations : mutations'[i] = mutations[i]
  <2>1. mutations \in Seq(Mutation)
    BY DEF TypeOK
  <2>2. /\ Len(mutations) + 1 \in Nat
        /\ Len(mutations) + 1 \notin DOMAIN mutations
        /\ DOMAIN mutations' = DOMAIN mutations \cup {Len(mutations) + 1}
        /\ mutations'[Len(mutations) + 1] = m
        /\ \A i \in DOMAIN mutations : mutations'[i] = mutations[i]
    BY <1>1, <2>1
  <2> QED BY <2>2
<1>3. /\ m.token \in handed /\ Spent(m.token) /\ SoundPlan(m.ran)
      /\ m.ran.PlanHash = minted[m.token].plan.PlanHash
      /\ m.approver = minted[m.token].approver
      /\ Within(m.ran.Tuple.DeclaredBound, m.checked)
      /\ \A i \in DOMAIN mutations : mutations[i].token # m.token
  BY <1>1 DEF IInv, PlansSound, HoldersSound, Holding
<1>4. PlansSound'
  BY <1>0 DEF IInv, PlansSound, SoundPlan
<1>5. DutiesSound'
  BY <1>0 DEF IInv, DutiesSound, CheckSoD
<1>6. TokensSound'
  BY DEF IInv, TokensSound
<1>7. HandedSound'
  BY <1>0 DEF IInv, HandedSound, OnRecord
<1>8. \A d \in Calls : Holding(d)' => /\ d # c /\ Holding(d) /\ call'[d] = call[d]
                                      /\ call[d].tok # m.token
  BY <1>0, <1>1 DEF Holding, IInv, HoldersSound
<1>9. HoldersSound'
  BY <1>2, <1>8 DEF IInv, HoldersSound, Spent
<1>10. \A i \in DOMAIN mutations :
          /\ mutations[i].token \in handed /\ Spent(mutations[i].token)
          /\ SoundPlan(mutations[i].ran)
          /\ mutations[i].ran.PlanHash = minted[mutations[i].token].plan.PlanHash
          /\ mutations[i].approver = minted[mutations[i].token].approver
          /\ Within(mutations[i].ran.Tuple.DeclaredBound, mutations[i].checked)
          /\ mutations[i].token # m.token
          /\ \A j \in DOMAIN mutations :
                mutations[j].token = mutations[i].token => j = i
  BY <1>3 DEF IInv, MutationsSound
<1>11. \A i \in DOMAIN mutations' :
          /\ mutations'[i].token \in handed /\ Spent(mutations'[i].token)
          /\ SoundPlan(mutations'[i].ran)
          /\ mutations'[i].ran.PlanHash = minted[mutations'[i].token].plan.PlanHash
          /\ mutations'[i].approver = minted[mutations'[i].token].approver
          /\ Within(mutations'[i].ran.Tuple.DeclaredBound, mutations'[i].checked)
          /\ \A j \in DOMAIN mutations' :
                mutations'[j].token = mutations'[i].token => j = i
  BY <1>2, <1>3, <1>10
<1>12. MutationsSound'
  BY <1>11 DEF MutationsSound, Spent, SoundPlan
<1> QED BY <1>12, <1>4, <1>5, <1>6, <1>7, <1>9 DEF IInv

LEMMA ConsumeStep ==
    ASSUME TypeOK, IInv, NEW c \in Calls, ExecuteConsume(c),
           Acceptable(call[c].tok, call[c].snap.PlanHash)
    PROVE  IInv'
<1> PICK t \in Nat : t = call[c].tok
  BY DEF TypeOK, Call
<1> DEFINE next == [call[c] EXCEPT !.pc = "recheck", !.actor = tokens[t].approver]
<1>1. /\ t \in DOMAIN tokens /\ ~tokens[t].consumed
      /\ tokens[t].planHash = call[c].snap.PlanHash
      /\ tokens' = [tokens EXCEPT ![t].consumed = TRUE]
      /\ call' = [call EXCEPT ![c] = next] /\ call[c].pc = "consume"
      /\ UNCHANGED <<plans, log, minted, mutations, handed>>
  BY DEF ExecuteConsume, Acceptable, Goto, clients, history
<1>2. /\ next.pc = "recheck" /\ next.tok = t /\ next.snap = call[c].snap
      /\ next.actor = tokens[t].approver
  BY DEF TypeOK, Call
<1> HIDE DEF next
<1>3. /\ call'[c] = next
      /\ \A d \in Calls : d # c => call'[d] = call[d]
  BY <1>1 DEF TypeOK
<1>4. /\ t \in handed /\ t \in DOMAIN minted
      /\ tokens[t].planHash = minted[t].plan.PlanHash
      /\ tokens[t].approver = minted[t].approver
  <2>1. t \in DOMAIN minted /\ tokens[t].planHash = minted[t].plan.PlanHash
        /\ tokens[t].approver = minted[t].approver
    BY <1>1 DEF IInv, TokensSound
  <2>2. t # 0
    BY <2>1 DEF TypeOK
  <2>3. t \in handed
    BY <1>1, <2>2 DEF IInv, HandedSound
  <2> QED BY <2>1, <2>3
<1>5. ~Spent(t)
  BY <1>1 DEF Spent
<1>6. /\ \A i \in DOMAIN mutations : mutations[i].token # t
      /\ \A d \in Calls : Holding(d) => call[d].tok # t
  BY <1>5 DEF IInv, MutationsSound, HoldersSound
<1>7. /\ DOMAIN tokens' = DOMAIN tokens
      /\ tokens'[t].consumed
      /\ \A x \in DOMAIN tokens : /\ x # t => tokens'[x] = tokens[x]
                                  /\ tokens'[x].planHash = tokens[x].planHash
                                  /\ tokens'[x].approver = tokens[x].approver
  <2>1. tokens \in [DOMAIN tokens -> Token]
    BY DEF TypeOK
  <2>2. tokens[t] \in Token
    BY <1>1, <2>1
  <2>3. tokens'[t] = [tokens[t] EXCEPT !.consumed = TRUE]
    BY <1>1, <2>1
  <2>4. tokens'[t].consumed /\ tokens'[t].planHash = tokens[t].planHash
        /\ tokens'[t].approver = tokens[t].approver
    BY <2>2, <2>3 DEF Token
  <2>5. DOMAIN tokens' = DOMAIN tokens /\ \A x \in DOMAIN tokens : x # t => tokens'[x] = tokens[x]
    BY <1>1, <2>1
  <2> QED BY <2>4, <2>5
<1>8. \A x : Spent(x) => Spent(x)'
  BY <1>7 DEF Spent
<1>9. Spent(t)'
  BY <1>7 DEF Spent
<1>10. PlansSound'
  BY <1>1, <1>2, <1>3 DEF IInv, PlansSound, SoundPlan
<1>11. DutiesSound'
  BY <1>1, <1>2, <1>3 DEF IInv, DutiesSound, CheckSoD
<1>12. TokensSound'
  BY <1>1, <1>7 DEF IInv, TokensSound
<1>13. HandedSound'
  BY <1>1, <1>2, <1>3 DEF IInv, HandedSound, OnRecord
<1>14. \A d \in Calls : d # c => (Holding(d)' <=> Holding(d)) /\ call'[d] = call[d]
  BY <1>3 DEF Holding
<1>15. HoldersSound'
  <2> SUFFICES ASSUME NEW d \in Calls, Holding(d)'
               PROVE  /\ call'[d].tok \in handed'
                      /\ Spent(call[d].tok)'
                      /\ call'[d].snap.PlanHash = minted'[call'[d].tok].plan.PlanHash
                      /\ call'[d].actor = minted'[call'[d].tok].approver
                      /\ \A i \in DOMAIN mutations' : mutations'[i].token # call'[d].tok
                      /\ \A e \in Calls : Holding(e)' /\ call'[e].tok = call'[d].tok => e = d
                      /\ call'[d].pc = "mutate" =>
                            Within(call'[d].snap.Tuple.DeclaredBound, call'[d].reach)
    BY DEF HoldersSound
  <2>1. CASE d = c
    <3>1. \A e \in Calls : Holding(e)' /\ call'[e].tok = t => e = c
      BY <1>6, <1>14
    <3>2. Spent(call[d].tok)'
      BY <1>2, <1>3, <1>9, <2>1 DEF Spent
    <3>3. call'[d].tok = t /\ call'[d].pc # "mutate"
      BY <1>2, <1>3, <2>1
    <3>4. call'[d].tok \in handed' /\ \A i \in DOMAIN mutations' : mutations'[i].token # call'[d].tok
      BY <1>1, <1>4, <1>6, <3>3
    <3>5. /\ call'[d].snap.PlanHash = minted'[call'[d].tok].plan.PlanHash
          /\ call'[d].actor = minted'[call'[d].tok].approver
      BY <1>1, <1>2, <1>3, <1>4, <2>1, <3>3
    <3>6. \A e \in Calls : Holding(e)' /\ call'[e].tok = call'[d].tok => e = d
      BY <2>1, <3>1, <3>3
    <3> QED BY <3>2, <3>3, <3>4, <3>5, <3>6
  <2>2. CASE d # c
    <3>1. Holding(d) /\ call'[d] = call[d] /\ call[d].tok # t
      BY <1>6, <1>14, <2>2
    <3>2. \A e \in Calls : Holding(e)' /\ call'[e].tok = call'[d].tok => e = d
      BY <1>2, <1>3, <1>14, <3>1 DEF IInv, HoldersSound
    <3>3. Spent(call[d].tok) /\ call'[d].tok = call[d].tok
      BY <3>1 DEF IInv, HoldersSound
    <3>4. Spent(call[d].tok)'
      BY <1>7, <3>3 DEF Spent
    <3> QED BY <1>1, <3>1, <3>2, <3>4 DEF IInv, HoldersSound
  <2> QED BY <2>1, <2>2
<1>16. MutationsSound'
  BY <1>1, <1>8 DEF IInv, MutationsSound, SoundPlan
<1> QED BY <1>10, <1>11, <1>12, <1>13, <1>15, <1>16 DEF IInv
LEMMA ExecuteSteps ==
    ASSUME TypeOK, IInv, NEW c \in Calls,
           \/ \E id \in DOMAIN plans, t \in handed \cup {0} : ExecuteLookup(c, id, t)
           \/ ExecuteConsume(c) \/ ExecuteRecheck(c) \/ ExecuteMutate(c)
           \/ ExecuteFails(c) \/ Panic(c)
           \/ ExecuteAudit(c) \/ ExecuteReport(c) \/ Refuse(c)
    PROVE  IInv'
<1>0. /\ call \in [Calls -> Call]
      /\ call[c] \in Call /\ call[c].snap \in Stored /\ call[c].reach \in ReachSet
      /\ call[c].actor \in Principals
      /\ SoundPlan(call[c].snap)
      /\ \A id \in DOMAIN plans : SoundPlan(plans[id])
  BY DEF TypeOK, Call, IInv, PlansSound
<1>1. ASSUME NEW id, NEW t \in handed \cup {0}, ExecuteLookup(c, id, t)
      PROVE  IInv'
  <2> DEFINE s == plans[id]
             next == [Idle EXCEPT !.pc = "consume", !.snap = s, !.tok = t,
                                  !.reach = s.Tuple.ComputedReach]
  <2>1. s \in Stored /\ t \in Nat /\ SoundPlan(s)
    <3>1. id \in DOMAIN plans
      BY <1>1 DEF ExecuteLookup
    <3>2. plans \in [DOMAIN plans -> Stored] /\ handed \subseteq Nat
      BY DEF TypeOK
    <3> QED BY <1>0, <3>1, <3>2
  <2>2. s.Tuple.ComputedReach \in ReachSet
    BY <2>1 DEF Stored, HashTuple
  <2>3. call' = [call EXCEPT ![c] = next]
    BY <1>1 DEF ExecuteLookup, Begin
  <2> HIDE DEF s
  <2>4. next \in Call
    BY <2>1, <2>2, NullTypes DEF Call, Idle, PC
  <2>5. next.pc = "consume" /\ next.tok = t /\ next.snap = s
    BY DEF Idle
  <2> HIDE DEF next
  <2> QED BY <1>0, <1>1, <2>1, <2>3, <2>4, <2>5, QuietStep
          DEF ExecuteLookup, engine, clients, history
<1>2. ASSUME ExecuteConsume(c) PROVE IInv'
  <2>1. CASE Acceptable(call[c].tok, call[c].snap.PlanHash)
    BY <1>2, <2>1, ConsumeStep
  <2>2. CASE ~Acceptable(call[c].tok, call[c].snap.PlanHash)
    <3> DEFINE next == [call[c] EXCEPT !.pc = "refuse"]
    <3>1. next \in Call /\ next.pc = "refuse" /\ next.snap = call[c].snap
      BY <1>0 DEF Call, PC
    <3>2. call' = [call EXCEPT ![c] = next]
      BY <1>2, <2>2 DEF ExecuteConsume, Goto
    <3> HIDE DEF next
    <3> QED BY <1>0, <1>2, <2>2, <3>1, <3>2, QuietStep
            DEF ExecuteConsume, engine, clients, history
  <2> QED BY <2>1, <2>2
<1>3. ASSUME ExecuteRecheck(c) PROVE IInv'
  <2> DEFINE tuple == call[c].snap.Tuple
             found == Resolve(topo, tuple.Action, tuple.Params)
             passes == /\ found.ok
                       /\ Evaluate(tuple.DeclaredBound, found.reach, Modes) # "BLOCK"
                       /\ Within(tuple.DeclaredBound, found.reach)
             next == [call[c] EXCEPT !.pc = IF passes THEN "mutate" ELSE "refuse",
                                     !.reach = IF found.ok THEN found.reach ELSE @]
  <2>1. topo \in Topology /\ tuple.Params \in Params
    BY <1>0, EngineAssumption DEF TypeOK, Stored, HashTuple
  <2>2. found.reach \in ReachSet
    BY <2>1, ResolveType
  <2>3. call' = [call EXCEPT ![c] = next] /\ call[c].pc = "recheck"
    BY <1>3 DEF ExecuteRecheck, Goto
  <2>4. passes => found.ok /\ Within(tuple.DeclaredBound, found.reach)
    OBVIOUS
  <2>5. UNCHANGED <<plans, tokens, log, minted, mutations, handed>>
    BY <1>3 DEF ExecuteRecheck, engine, clients, history
  <2> HIDE DEF found, passes
  <2>6. next \in Call
    BY <1>0, <2>2 DEF Call, PC
  <2>7. /\ next.snap = call[c].snap /\ next.tok = call[c].tok /\ next.actor = call[c].actor
        /\ next.pc = IF passes THEN "mutate" ELSE "refuse"
        /\ passes => Within(next.snap.Tuple.DeclaredBound, next.reach)
    BY <1>0, <2>4 DEF Call
  <2> HIDE DEF next
  <2>8. CASE ~passes
    BY <1>0, <2>3, <2>5, <2>6, <2>7, <2>8, QuietStep
  <2>9. CASE passes
    <3>1. /\ call'[c] = next /\ next.pc = "mutate"
          /\ \A d \in Calls : d # c => call'[d] = call[d]
      BY <1>0, <2>3, <2>7, <2>9
    <3>2. PlansSound'
      BY <1>0, <2>5, <2>7, <3>1 DEF IInv, PlansSound, SoundPlan
    <3>3. DutiesSound'
      BY <2>5, <3>1 DEF IInv, DutiesSound, CheckSoD
    <3>4. TokensSound'
      BY <2>5 DEF IInv, TokensSound
    <3>5. HandedSound'
      BY <2>5, <3>1 DEF IInv, HandedSound, OnRecord
    <3>6. \A d \in Calls : /\ Holding(d)' <=> Holding(d)
                           /\ call'[d].tok = call[d].tok
                           /\ call'[d].snap = call[d].snap
                           /\ call'[d].actor = call[d].actor
      BY <2>3, <2>7, <3>1 DEF Holding
    <3>7. \A d \in Calls : call'[d].pc = "mutate" =>
              Within(call'[d].snap.Tuple.DeclaredBound, call'[d].reach)
      BY <2>7, <2>9, <3>1 DEF IInv, HoldersSound, Holding
    <3>8. HoldersSound'
      BY <2>5, <3>6, <3>7 DEF IInv, HoldersSound, Spent
    <3>9. MutationsSound'
      BY <2>5 DEF IInv, MutationsSound, Spent, SoundPlan
    <3> QED BY <3>2, <3>3, <3>4, <3>5, <3>8, <3>9 DEF IInv
  <2> QED BY <2>8, <2>9
<1>4. ASSUME ExecuteMutate(c) PROVE IInv'
  <2> DEFINE next == [call[c] EXCEPT !.pc = "auditExecute", !.mut = Len(mutations) + 1]
  <2>1. call' = [call EXCEPT ![c] = next] /\ call[c].pc = "mutate" /\ Touch(c)
    BY <1>4 DEF ExecuteMutate, Goto
  <2>2. next \in Call /\ next.pc = "auditExecute" /\ next.snap = call[c].snap
    <3>1. mutations \in Seq(Mutation)
      BY DEF TypeOK
    <3>2. Len(mutations) + 1 \in Nat
      BY <3>1
    <3> QED BY <1>0, <3>2 DEF Call, PC
  <2> HIDE DEF next
  <2>3. UNCHANGED <<plans, tokens, log, minted, handed>>
    BY <1>4 DEF ExecuteMutate, engine, clients
  <2> QED BY <1>0, <2>1, <2>2, <2>3, MutateStep
<1>5. ASSUME ExecuteFails(c) PROVE IInv'
  <2> DEFINE next == [call[c] EXCEPT !.pc = "refuse"]
  <2>1. call' = [call EXCEPT ![c] = next] /\ call[c].pc = "mutate"
    BY <1>5 DEF ExecuteFails, Goto
  <2>2. next \in Call /\ next.pc = "refuse" /\ next.snap = call[c].snap
    BY <1>0 DEF Call, PC
  <2>3. UNCHANGED <<plans, tokens, log, minted, handed>>
    BY <1>5 DEF ExecuteFails, engine, clients
  <2> HIDE DEF next
  <2>4. CASE Touch(c)
    BY <1>0, <2>1, <2>2, <2>3, <2>4, MutateStep
  <2>5. CASE mutations' = mutations
    BY <1>0, <2>1, <2>2, <2>3, <2>5, QuietStep
  <2> QED BY <1>5, <2>4, <2>5 DEF ExecuteFails
<1>6. ASSUME ExecuteAudit(c) PROVE IInv'
  <2> DEFINE row == AuditRow("execute", call[c].snap, call[c].reach, call[c].actor)
             next(ok) == IF ok THEN [call[c] EXCEPT !.pc = "exeID"] ELSE Idle
  <2>1. row \in Row
    BY <1>0, AuditRowType
  <2>2. PICK ok \in BOOLEAN :
            AuditAppend(row, ok) /\ call' = [call EXCEPT ![c] = next(ok)]
    BY <1>6 DEF ExecuteAudit, Goto
  <2> HIDE DEF row
  <2>3. log' = log \/ \E x \in Row : log' = Append(log, x)
    BY <2>1, <2>2, AppendOutcome
  <2>4. next(ok) \in Call /\ next(ok).pc \in {"exeID", "idle"} /\ SoundPlan(next(ok).snap)
    BY <1>0, NullTypes, IdleSound DEF Call, PC
  <2>5. /\ DOMAIN mutations' = DOMAIN mutations
        /\ \A i \in DOMAIN mutations :
               /\ mutations'[i].token = mutations[i].token
               /\ mutations'[i].ran = mutations[i].ran
               /\ mutations'[i].approver = mutations[i].approver
               /\ mutations'[i].checked = mutations[i].checked
    <3>1. mutations \in Seq(Mutation)
      BY DEF TypeOK
    <3>2. \A i \in DOMAIN mutations : mutations[i] \in Mutation
      BY <3>1
    <3>3. CASE log' = log
      BY <1>6, <3>3 DEF ExecuteAudit
    <3>4. CASE log' # log
      <4>1. mutations' = [mutations EXCEPT ![call[c].mut].row = Len(log')]
        BY <1>6, <3>4 DEF ExecuteAudit
      <4> QED BY <3>1, <3>2, <4>1 DEF Mutation
    <3> QED BY <3>3, <3>4
  <2>6. UNCHANGED <<plans, tokens, minted, handed>>
    BY <1>6 DEF ExecuteAudit, engine, clients
  <2> HIDE DEF next
  <2> QED BY <1>0, <2>2, <2>3, <2>4, <2>5, <2>6, QuietStep
<1>7. ASSUME ExecuteReport(c) PROVE IInv'
  <2>1. call' = [call EXCEPT ![c] = Idle]
    BY <1>7 DEF ExecuteReport, Goto
  <2> QED BY <1>0, <1>7, <2>1, IdleSound, NullTypes, QuietStep DEF ExecuteReport, history
<1>8. ASSUME Refuse(c) PROVE IInv'
  <2> DEFINE row == AuditRow("refuse", call[c].snap, call[c].reach, call[c].actor)
  <2>1. row \in Row
    BY <1>0, AuditRowType
  <2>2. PICK ok \in BOOLEAN : AuditAppend(row, ok)
    BY <1>8 DEF Refuse
  <2> HIDE DEF row
  <2>3. log' = log \/ \E x \in Row : log' = Append(log, x)
    BY <2>1, <2>2, AppendOutcome
  <2>4. call' = [call EXCEPT ![c] = Idle]
    BY <1>8 DEF Refuse, Goto
  <2>5. UNCHANGED <<plans, tokens, handed, minted, mutations>>
    BY <1>8 DEF Refuse, engine, clients, history
  <2> QED BY <1>0, <2>3, <2>4, <2>5, IdleSound, NullTypes, QuietStep
<1>9. ASSUME Panic(c) PROVE IInv'
  <2>1. /\ call' = [call EXCEPT ![c] = Idle]
        /\ UNCHANGED <<plans, tokens, log, minted, handed>>
    BY <1>9 DEF Panic, Goto, engine, clients
  <2>2. CASE mutations' = mutations
    BY <1>0, <2>1, <2>2, IdleSound, NullTypes, QuietStep
  <2>3. CASE call[c].pc = "mutate" /\ Touch(c)
    BY <2>1, <2>3, IdleSound, NullTypes, MutateStep
  <2> QED BY <1>9, <2>2, <2>3 DEF Panic, Goto
<1> QED BY <1>1, <1>2, <1>3, <1>4, <1>5, <1>6, <1>7, <1>8, <1>9

LEMMA EnvironmentSteps ==
    ASSUME TypeOK, IInv, Environment \/ UNCHANGED vars
    PROVE  IInv'
<1>1. ASSUME UNCHANGED <<plans, tokens, call, log, minted, mutations, handed>> PROVE IInv'
  BY <1>1 DEF IInv, PlansSound, SoundPlan, DutiesSound, CheckSoD, TokensSound,
              HandedSound, OnRecord, HoldersSound, Holding, Spent, MutationsSound
<1>2. ASSUME Crash PROVE IInv'
  <2>1. /\ DOMAIN plans' = {} /\ DOMAIN tokens' = {}
        /\ \A c \in Calls : call'[c] = Idle
        /\ UNCHANGED <<log, minted, mutations, handed>>
    BY <1>2 DEF Crash, clients, history
  <2>2. Idle.pc = "idle" /\ SoundPlan(Idle.snap)
    BY IdleSound
  <2>3. PlansSound'
    BY <2>1, <2>2 DEF IInv, PlansSound, SoundPlan
  <2>4. DutiesSound'
    BY <2>1, <2>2 DEF IInv, DutiesSound, CheckSoD
  <2>5. TokensSound'
    BY <2>1 DEF TokensSound
  <2>6. HandedSound'
    BY <2>1, <2>2 DEF IInv, HandedSound, OnRecord
  <2>7. HoldersSound'
    BY <2>1, <2>2 DEF HoldersSound, Holding
  <2>8. MutationsSound'
    BY <2>1 DEF IInv, MutationsSound, Spent, SoundPlan
  <2> QED BY <2>3, <2>4, <2>5, <2>6, <2>7, <2>8 DEF IInv
<1> QED BY <1>1, <1>2
        DEF Environment, ChangeTopology, Tick, vars, engine, clients, history

LEMMA NextSound == TypeOK /\ IInv /\ [Next]_vars => IInv'
BY PlanSteps, ApproveSteps, ExecuteSteps, EnvironmentSteps DEF Next, Request, Step

\* The invariant holds in every reachable state.
THEOREM InvariantHolds == Spec => []IInv
BY TypeCorrect, InitSound, NextSound, PTL DEF Spec

---------------------------------------------------------------------------
(* What follows from it.                                                   *)

\* No token is ever used for two mutations, whatever calls race for it, fail
\* half way or are cut off by a restart.
THEOREM TokenIsUsedOnce == Spec => []TokenUsedOnce
<1>1. IInv => TokenUsedOnce
  BY DEF IInv, MutationsSound, TokenUsedOnce
<1> QED BY <1>1, InvariantHolds, PTL

\* Every mutation used a token that was handed out after its approve row was
\* written, and that row is for the plan that ran.
THEOREM MutationIsApproved == Spec => []MutationApproved
<1>1. IInv => MutationApproved
  BY DEF IInv, MutationsSound, HandedSound, OnRecord, MutationApproved
<1> QED BY <1>1, InvariantHolds, PTL

\* Two plans of one hash are one tuple: a mutation ran what its token was minted for.
LEMMA RanIsApproved ==
    ASSUME TypeOK, IInv
    PROVE  RanWhatWasApproved
<1> SUFFICES ASSUME NEW i \in DOMAIN mutations
             PROVE  mutations[i].ran.Tuple = minted[mutations[i].token].plan.Tuple
  BY DEF RanWhatWasApproved
<1> DEFINE t == mutations[i].token
<1>1. t \in DOMAIN minted /\ SoundPlan(mutations[i].ran) /\ SoundPlan(minted[t].plan)
      /\ mutations[i].ran.PlanHash = minted[t].plan.PlanHash
  BY DEF IInv, MutationsSound, HandedSound, PlansSound
<1>2. mutations[i].ran.Tuple \in HashTuple /\ minted[t].plan.Tuple \in HashTuple
  <2>1. mutations[i] \in Mutation /\ minted[t] \in Minted
    BY <1>1 DEF TypeOK
  <2> QED BY <2>1 DEF Mutation, Minted, Stored
<1> QED BY <1>1, <1>2, HashIsInjective DEF SoundPlan

\* What ran is, in every detail the hash covers, what was approved.
THEOREM RunIsWhatWasApproved == Spec => []RanWhatWasApproved
<1>1. TypeOK /\ IInv => RanWhatWasApproved
  BY RanIsApproved
<1> QED BY <1>1, TypeCorrect, InvariantHolds, PTL

\* What Approve checked of a token's plan and approver is still true of the token.
LEMMA DutiesKept == IInv => TokensSeparateDuties
BY DEF IInv, DutiesSound, PlansSound, SoundPlan, CheckSoD, TokensSeparateDuties

\* Every token was minted for a plan within its bound by a human who is not
\* the plan's proposer.
THEOREM DutiesAreSeparate == Spec => []TokensSeparateDuties
BY DutiesKept, InvariantHolds, PTL

\* The reach that was approved and the one read again at execute time were both within
\* the bound of the plan that ran.
THEOREM RecheckIsWithinBound == Spec => []RecheckedWithinBound
<1>1. ASSUME TypeOK, IInv PROVE RecheckedWithinBound
  <2>1. SUFFICES ASSUME NEW i \in DOMAIN mutations
                 PROVE  /\ Within(mutations[i].ran.Tuple.DeclaredBound,
                                  minted[mutations[i].token].plan.Tuple.ComputedReach)
                        /\ Within(mutations[i].ran.Tuple.DeclaredBound, mutations[i].checked)
    BY DEF RecheckedWithinBound
  <2>2. RanWhatWasApproved /\ TokensSeparateDuties
    BY <1>1, RanIsApproved, DutiesKept
  <2>3. mutations[i].ran.Tuple = minted[mutations[i].token].plan.Tuple
    BY <2>2 DEF RanWhatWasApproved
  <2>4. mutations[i].token \in DOMAIN minted
    BY <1>1 DEF IInv, MutationsSound, HandedSound
  <2>5. Within(minted[mutations[i].token].plan.Tuple.DeclaredBound,
               minted[mutations[i].token].plan.Tuple.ComputedReach)
    BY <2>2, <2>4 DEF TokensSeparateDuties
  <2>6. Within(mutations[i].ran.Tuple.DeclaredBound, mutations[i].checked)
    BY <1>1 DEF IInv, MutationsSound
  <2> QED BY <2>3, <2>5, <2>6
<1> QED BY <1>1, TypeCorrect, InvariantHolds, PTL
=============================================================================
