---------------------------- MODULE EngineStory ----------------------------
(***************************************************************************)
(* What the log and the clients are told, for every value of the           *)
(* constants: the execute rows are true and what is reported has one, a    *)
(* plan id keeps its plan, and with a sink that never fails the log tells  *)
(* the whole story, in order, of every token and every mutation.           *)
(***************************************************************************)
EXTENDS EngineProofs

---------------------------------------------------------------------------
(* What a step of a call does, field by field.  The invariants below need  *)
(* no more of the actions than this.                                       *)

\* The call works on with the plan, the token and the approver it has.
Keeps(c) ==
    /\ call'[c].snap = call[c].snap
    /\ call'[c].tok = call[c].tok
    /\ call'[c].actor = call[c].actor

\* It goes from one place to another.
Hops(c, from, to) == call[c].pc \in from /\ call'[c].pc \in to

\* It writes a row about its plan, or fails to.
Writes(c, event, approver) ==
    \/ \E row \in Row : /\ row.Event = event
                        /\ row.PlanHash = call[c].snap.PlanHash
                        /\ row.ComputedReach = call[c].reach
                        /\ row.Approver = approver
                        /\ log' = Append(log, row)
    \/ SinkMayFail /\ log' = log

rest == <<plans, tokens, log, shown, reported, mutations>>

PlanMoves(c) ==
    \/ Hops(c, {"idle"}, {"newID", "refuse"}) /\ UNCHANGED <<idseq, rest>>
    \/ /\ Hops(c, {"newID"}, {"store"}) /\ call'[c].snap.PlanID = idseq + 1
       /\ idseq' = idseq + 1 /\ UNCHANGED rest
    \/ /\ Hops(c, {"store"}, {"auditPlan"}) /\ Keeps(c)
       /\ plans' = With(plans, call[c].snap.PlanID, call[c].snap)
       /\ UNCHANGED <<idseq, tokens, log, shown, reported, mutations>>
    \/ /\ Hops(c, {"auditPlan"}, {"idle"}) /\ Writes(c, "plan", NoPrincipal)
       /\ shown' = shown \cup {[PlanID |-> call[c].snap.PlanID, PlanHash |-> call[c].snap.PlanHash]}
       /\ UNCHANGED <<idseq, plans, tokens, reported, mutations>>

ApproveMoves(c) ==
    \/ /\ Hops(c, {"idle"}, {"mint", "refuse"})
       /\ call'[c].pc = "mint" => \E id \in DOMAIN plans : call'[c].snap = plans[id]
       /\ UNCHANGED <<idseq, rest>>
    \/ /\ Hops(c, {"mint"}, {"auditApprove"}) /\ call'[c].snap = call[c].snap
       /\ \E record \in Token : /\ ~record.consumed
                                /\ tokens' = With(tokens, Len(minted) + 1, record)
       /\ UNCHANGED <<idseq, plans, log, shown, reported, mutations>>
    \/ Hops(c, {"mint"}, {"idle"}) /\ UNCHANGED <<idseq, rest>>
    \/ /\ Hops(c, {"auditApprove"}, {"idle"}) /\ Writes(c, "approve", call[c].actor)
       /\ UNCHANGED <<idseq, plans, tokens, shown, reported, mutations>>

ExecuteMoves(c) ==
    \/ Hops(c, {"idle"}, {"consume"}) /\ UNCHANGED <<idseq, rest>>
    \/ /\ Hops(c, {"consume"}, {"recheck"})
       /\ call'[c].snap = call[c].snap /\ call'[c].tok = call[c].tok
       /\ call'[c].actor = tokens[call[c].tok].approver
       /\ Acceptable(call[c].tok, call[c].snap.PlanHash)
       /\ tokens' = [tokens EXCEPT ![call[c].tok].consumed = TRUE]
       /\ UNCHANGED <<idseq, plans, log, shown, reported, mutations>>
    \/ Hops(c, {"consume"}, {"refuse"}) /\ UNCHANGED <<idseq, rest>>
    \/ Hops(c, {"recheck"}, {"mutate", "refuse"}) /\ Keeps(c) /\ UNCHANGED <<idseq, rest>>
    \/ /\ Hops(c, {"mutate"}, {"auditExecute"}) /\ Keeps(c)
       /\ Touch(c) /\ call'[c].mut = Len(mutations) + 1 /\ call'[c].reach = call[c].reach
       /\ UNCHANGED <<idseq, plans, tokens, log, shown, reported>>
    \/ /\ Hops(c, {"mutate"}, {"refuse"}) /\ Keeps(c)
       /\ Touch(c) \/ UNCHANGED mutations
       /\ UNCHANGED <<idseq, plans, tokens, log, shown, reported>>
    \/ /\ MayPanic /\ Hops(c, {"recheck", "mutate"}, {"idle"})
       /\ Touch(c) \/ UNCHANGED mutations
       /\ UNCHANGED <<idseq, plans, tokens, log, shown, reported>>
    \/ /\ Hops(c, {"auditExecute"}, {"exeID", "idle"}) /\ Writes(c, "execute", call[c].actor)
       /\ call'[c].pc = "exeID" => call'[c].mut = call[c].mut /\ log' # log
       /\ mutations' = IF log' = log THEN mutations
                       ELSE [mutations EXCEPT ![call[c].mut].row = Len(log')]
       /\ UNCHANGED <<idseq, plans, tokens, shown, reported>>
    \/ /\ Hops(c, {"exeID"}, {"idle"}) /\ idseq' = idseq + 1
       /\ reported' = reported \cup {call[c].mut}
       /\ UNCHANGED <<plans, tokens, log, shown, mutations>>
    \/ /\ Hops(c, {"refuse"}, {"idle"}) /\ Writes(c, "refuse", call[c].actor)
       /\ UNCHANGED <<idseq, plans, tokens, shown, reported, mutations>>

\* The other calls stay where they are, and nothing restarts.
Alone(c) ==
    /\ call'[c] \in Call
    /\ \A d \in Calls : d # c => call'[d] = call[d]
    /\ crashes' = crashes

LEMMA PlanMovesAre ==
    ASSUME TypeOK, TypeOK', NEW c \in Calls,
           \/ \E req \in Requests : PlanRefused(c, req) \/ PlanResolved(c, req)
           \/ PlanNewID(c) \/ PlanStore(c) \/ PlanAudit(c)
    PROVE  PlanMoves(c) /\ Alone(c)
<1>0. call[c] \in Call /\ call'[c] \in Call /\ call \in [Calls -> Call] /\ Idle.pc = "idle"
  BY IdleSound DEF TypeOK
<1> USE DEF Hops, Keeps
<1>1. ASSUME NEW req \in Requests, PlanRefused(c, req) PROVE PlanMoves(c) /\ Alone(c)
  <2>1. [Idle EXCEPT !.pc = "refuse", !.snap.Proposer = req.ProposerKeyID].pc = "refuse"
    BY DEF Idle
  <2> QED BY <1>0, <1>1, <2>1 DEF PlanRefused, Begin, PlanMoves, Alone, engine, world, clients, history, rest
<1>2. ASSUME NEW req \in Requests, PlanResolved(c, req) PROVE PlanMoves(c) /\ Alone(c)
  <2>1. PICK s, r : call' = [call EXCEPT ![c] = [Idle EXCEPT !.pc = "newID", !.snap = s, !.reach = r]]
    BY <1>2 DEF PlanResolved, Begin
  <2>2. call'[c].pc = "newID"
    BY <1>0, <2>1 DEF Idle
  <2>3. call[c].pc = "idle" /\ UNCHANGED <<engine, log, world, clients, history>>
    BY <1>2 DEF PlanResolved, Begin
  <2> QED BY <1>0, <2>1, <2>2, <2>3 DEF PlanMoves, Alone, engine, world, clients, history, rest
<1>3. ASSUME PlanNewID(c) PROVE PlanMoves(c) /\ Alone(c)
  <2>1. call'[c] = [call[c] EXCEPT !.pc = "store", !.snap.PlanID = idseq + 1]
    BY <1>0, <1>3 DEF PlanNewID, Goto
  <2>2. call'[c].pc = "store" /\ call'[c].snap.PlanID = idseq + 1
    BY <1>0, <2>1 DEF Call, Stored
  <2> QED BY <1>0, <1>3, <2>2 DEF PlanNewID, Goto, PlanMoves, Alone, world, clients, history, rest
<1>4. ASSUME PlanStore(c) PROVE PlanMoves(c) /\ Alone(c)
  <2>1. call'[c] = [call[c] EXCEPT !.pc = "auditPlan"]
    BY <1>0, <1>4 DEF PlanStore, Goto
  <2>2. call'[c].pc = "auditPlan" /\ Keeps(c)
    BY <1>0, <2>1 DEF Call
  <2> QED BY <1>0, <1>4, <2>2 DEF PlanStore, Goto, PlanMoves, Alone, world, clients, history, rest
<1>5. ASSUME PlanAudit(c) PROVE PlanMoves(c) /\ Alone(c)
  <2>1. AuditRow("plan", call[c].snap, call[c].reach, NoPrincipal) \in Row
    BY <1>0, AuditRowType, EngineAssumption DEF Call
  <2>2. Writes(c, "plan", NoPrincipal)
    BY <1>5, <2>1 DEF PlanAudit, AuditAppend, Writes, AuditRow
  <2>3. call'[c] = Idle
    BY <1>0, <1>5 DEF PlanAudit, Goto
  <2> QED BY <1>0, <1>5, <2>2, <2>3 DEF PlanAudit, Goto, PlanMoves, Alone, engine, world, history
<1> QED BY <1>1, <1>2, <1>3, <1>4, <1>5

LEMMA ApproveMovesAre ==
    ASSUME TypeOK, TypeOK', NEW c \in Calls,
           \/ \E id \in DOMAIN plans, who \in Approvers :
                 \E hash \in {plans[id].PlanHash, NoHash} : ApproveCheck(c, id, hash, who)
           \/ ApproveMint(c) \/ ApproveMintFails(c) \/ ApproveAudit(c)
    PROVE  ApproveMoves(c) /\ Alone(c)
<1>0. call[c] \in Call /\ call'[c] \in Call /\ call \in [Calls -> Call] /\ Idle.pc = "idle"
  BY IdleSound DEF TypeOK
<1> USE DEF Hops, Keeps
<1>1. ASSUME NEW id, NEW hash, NEW who, ApproveCheck(c, id, hash, who)
      PROVE  ApproveMoves(c) /\ Alone(c)
  <2> DEFINE s == plans[id]
             passes == /\ hash = s.PlanHash
                       /\ Executable(s.WithinBound, s.Verdict)
                       /\ CheckSoD(s.Proposer, who)
             next == [Idle EXCEPT !.pc = IF passes THEN "mint" ELSE "refuse",
                                  !.snap = s, !.actor = who,
                                  !.reach = s.Tuple.ComputedReach]
  <2>1. /\ call' = [call EXCEPT ![c] = next] /\ call[c].pc = "idle"
        /\ UNCHANGED <<engine, log, world, clients, history>>
    BY <1>1 DEF ApproveCheck, Begin
  <2>2. \E i \in DOMAIN plans : s = plans[i]
    BY <1>1 DEF ApproveCheck
  <2> HIDE DEF s, passes
  <2>3. next.pc \in {"mint", "refuse"} /\ next.snap = s
    BY DEF Idle
  <2> HIDE DEF next
  <2>4. call'[c] = next
    BY <1>0, <2>1
  <2> QED BY <1>0, <2>1, <2>2, <2>3, <2>4 DEF ApproveMoves, Alone, engine, world, clients, history, rest
<1>2. ASSUME ApproveMint(c) PROVE ApproveMoves(c) /\ Alone(c)
  <2> DEFINE record == [planHash  |-> call[c].snap.PlanHash, approver  |-> call[c].actor,
                        expiresAt |-> now + TTL, consumed  |-> FALSE]
  <2>1. record \in Token /\ ~record.consumed
    <3>1. call[c].snap.PlanHash \in HashTuple /\ call[c].actor \in Principals
      BY <1>0 DEF Call, Stored
    <3>2. now \in Nat /\ TTL \in Nat
      BY EngineAssumption DEF TypeOK
    <3> QED BY <3>1, <3>2 DEF Token
  <2>2. tokens' = With(tokens, Len(minted) + 1, record)
    BY <1>2 DEF ApproveMint
  <2> HIDE DEF record
  <2>3. call'[c] = [call[c] EXCEPT !.pc = "auditApprove", !.tok = Len(minted) + 1]
    BY <1>0, <1>2 DEF ApproveMint, Goto
  <2>4. call'[c].pc = "auditApprove" /\ call'[c].snap = call[c].snap
    BY <1>0, <2>3 DEF Call
  <2> QED BY <1>0, <1>2, <2>1, <2>2, <2>4 DEF ApproveMint, Goto, ApproveMoves, Alone, world, clients
<1>3. ASSUME ApproveMintFails(c) PROVE ApproveMoves(c) /\ Alone(c)
  BY <1>0, <1>3 DEF ApproveMintFails, Goto, ApproveMoves, Alone, engine, world, clients, history, rest
<1>4. ASSUME ApproveAudit(c) PROVE ApproveMoves(c) /\ Alone(c)
  <2>1. AuditRow("approve", call[c].snap, call[c].reach, call[c].actor) \in Row
    BY <1>0, AuditRowType DEF Call
  <2>2. Writes(c, "approve", call[c].actor)
    BY <1>4, <2>1 DEF ApproveAudit, AuditAppend, Writes, AuditRow
  <2>3. call'[c] = Idle
    BY <1>0, <1>4 DEF ApproveAudit, Goto
  <2> QED BY <1>0, <1>4, <2>2, <2>3 DEF ApproveAudit, Goto, ApproveMoves, Alone, engine, world, history
<1> QED BY <1>1, <1>2, <1>3, <1>4

LEMMA ExecuteMovesAre ==
    ASSUME TypeOK, TypeOK', NEW c \in Calls,
           \/ \E id \in DOMAIN plans, t \in handed \cup {0} : ExecuteLookup(c, id, t)
           \/ ExecuteConsume(c) \/ ExecuteRecheck(c) \/ ExecuteMutate(c)
           \/ ExecuteFails(c) \/ Panic(c)
           \/ ExecuteAudit(c) \/ ExecuteReport(c) \/ Refuse(c)
    PROVE  ExecuteMoves(c) /\ Alone(c)
<1>0. call[c] \in Call /\ call'[c] \in Call /\ call \in [Calls -> Call] /\ Idle.pc = "idle"
  BY IdleSound DEF TypeOK
<1> USE DEF Hops, Keeps
<1>1. ASSUME NEW id, NEW t, ExecuteLookup(c, id, t) PROVE ExecuteMoves(c) /\ Alone(c)
  <2>1. call'[c] = [Idle EXCEPT !.pc = "consume", !.snap = plans[id], !.tok = t,
                                !.reach = plans[id].Tuple.ComputedReach]
    BY <1>0, <1>1 DEF ExecuteLookup, Begin
  <2>2. call'[c].pc = "consume"
    BY <2>1 DEF Idle
  <2> QED BY <1>0, <1>1, <2>2 DEF ExecuteLookup, Begin, ExecuteMoves, Alone,
                                  engine, world, clients, history, rest
<1>2. ASSUME ExecuteConsume(c) PROVE ExecuteMoves(c) /\ Alone(c)
  <2> DEFINE go == [call[c] EXCEPT !.pc = "recheck", !.actor = tokens[call[c].tok].approver]
             stop == [call[c] EXCEPT !.pc = "refuse"]
  <2>1. /\ go.pc = "recheck" /\ go.snap = call[c].snap /\ go.tok = call[c].tok
        /\ go.actor = tokens[call[c].tok].approver
        /\ stop.pc = "refuse"
    BY <1>0 DEF Call
  <2>2. CASE Acceptable(call[c].tok, call[c].snap.PlanHash)
    <3>1. /\ call[c].pc = "consume" /\ call' = [call EXCEPT ![c] = go]
          /\ tokens' = [tokens EXCEPT ![call[c].tok].consumed = TRUE]
          /\ UNCHANGED <<idseq, plans, log, world, clients, history>>
      BY <1>2, <2>2 DEF ExecuteConsume, Goto
    <3> HIDE DEF go
    <3> QED BY <1>0, <2>1, <2>2, <3>1 DEF ExecuteMoves, Alone, world, clients, history
  <2>3. CASE ~Acceptable(call[c].tok, call[c].snap.PlanHash)
    <3>1. /\ call[c].pc = "consume" /\ call' = [call EXCEPT ![c] = stop]
          /\ UNCHANGED <<engine, log, world, clients, history>>
      BY <1>2, <2>3 DEF ExecuteConsume, Goto
    <3> HIDE DEF stop
    <3> QED BY <1>0, <2>1, <3>1 DEF ExecuteMoves, Alone, engine, world, clients, history, rest
  <2> QED BY <2>2, <2>3
<1>3. ASSUME ExecuteRecheck(c) PROVE ExecuteMoves(c) /\ Alone(c)
  <2>1. PICK ok, r : call' = [call EXCEPT ![c] =
                                  [call[c] EXCEPT !.pc = IF ok THEN "mutate" ELSE "refuse", !.reach = r]]
    BY <1>3 DEF ExecuteRecheck, Goto
  <2>2. call'[c].pc \in {"mutate", "refuse"} /\ Keeps(c)
    BY <1>0, <2>1 DEF Call
  <2>3. call[c].pc = "recheck" /\ UNCHANGED <<engine, log, world, clients, history>>
    BY <1>3 DEF ExecuteRecheck, Goto
  <2> QED BY <1>0, <2>1, <2>2, <2>3 DEF ExecuteMoves, Alone, engine, world, clients, history, rest
<1>4. ASSUME ExecuteMutate(c) PROVE ExecuteMoves(c) /\ Alone(c)
  <2>1. call'[c] = [call[c] EXCEPT !.pc = "auditExecute", !.mut = Len(mutations) + 1]
    BY <1>0, <1>4 DEF ExecuteMutate, Goto
  <2>2. /\ call'[c].pc = "auditExecute" /\ Keeps(c)
        /\ call'[c].mut = Len(mutations) + 1 /\ call'[c].reach = call[c].reach
    BY <1>0, <2>1 DEF Call
  <2>3. /\ call[c].pc = "mutate" /\ call' = [call EXCEPT ![c] = call'[c]]
        /\ Touch(c) /\ UNCHANGED <<engine, log, world, clients>>
    BY <1>4, <2>1 DEF ExecuteMutate, Goto
  <2> QED BY <1>0, <2>2, <2>3 DEF ExecuteMoves, Alone, engine, world, clients
<1>5. ASSUME ExecuteFails(c) PROVE ExecuteMoves(c) /\ Alone(c)
  <2>1. call'[c] = [call[c] EXCEPT !.pc = "refuse"]
    BY <1>0, <1>5 DEF ExecuteFails, Goto
  <2>2. call'[c].pc = "refuse" /\ Keeps(c)
    BY <1>0, <2>1 DEF Call
  <2>3. /\ call[c].pc = "mutate" /\ call' = [call EXCEPT ![c] = call'[c]]
        /\ Touch(c) \/ UNCHANGED mutations
        /\ UNCHANGED <<engine, log, world, clients>>
    BY <1>5, <2>1 DEF ExecuteFails, Goto
  <2> QED BY <1>0, <2>2, <2>3 DEF ExecuteMoves, Alone, engine, world, clients
<1>6. ASSUME Panic(c) PROVE ExecuteMoves(c) /\ Alone(c)
  <2>1. /\ call[c].pc \in {"recheck", "mutate"} /\ call' = [call EXCEPT ![c] = Idle]
        /\ MayPanic
        /\ Touch(c) \/ UNCHANGED mutations
        /\ UNCHANGED <<engine, log, world, clients>>
    BY <1>6 DEF Panic, Goto
  <2> QED BY <1>0, <2>1 DEF ExecuteMoves, Alone, engine, world, clients
<1>7. ASSUME ExecuteAudit(c) PROVE ExecuteMoves(c) /\ Alone(c)
  <2> DEFINE row == AuditRow("execute", call[c].snap, call[c].reach, call[c].actor)
             next(ok) == IF ok THEN [call[c] EXCEPT !.pc = "exeID"] ELSE Idle
  <2>1. row \in Row
    BY <1>0, AuditRowType DEF Call
  <2>2. PICK ok \in BOOLEAN : AuditAppend(row, ok) /\ call' = [call EXCEPT ![c] = next(ok)]
    BY <1>7 DEF ExecuteAudit, Goto
  <2>3. Writes(c, "execute", call[c].actor)
    BY <2>1, <2>2 DEF AuditAppend, Writes, AuditRow
  <2>4. /\ call'[c].pc \in {"exeID", "idle"}
        /\ call'[c].pc = "exeID" => call'[c].mut = call[c].mut /\ ok
    BY <1>0, <2>2 DEF Call
  <2>6. ok => log' # log
    <3>1. Append(log, row) # log
      BY <2>1 DEF TypeOK
    <3> QED BY <2>2, <3>1 DEF AuditAppend
  <2>5. /\ call[c].pc = "auditExecute"
        /\ mutations' = IF log' = log THEN mutations
                        ELSE [mutations EXCEPT ![call[c].mut].row = Len(log')]
        /\ UNCHANGED <<engine, world, clients>>
    BY <1>7 DEF ExecuteAudit, Goto
  <2> HIDE DEF row, next
  <2> QED BY <1>0, <2>2, <2>3, <2>4, <2>5, <2>6 DEF ExecuteMoves, Alone, engine, world, clients
<1>8. ASSUME ExecuteReport(c) PROVE ExecuteMoves(c) /\ Alone(c)
  BY <1>0, <1>8 DEF ExecuteReport, Goto, ExecuteMoves, Alone, world, history, rest
<1>9. ASSUME Refuse(c) PROVE ExecuteMoves(c) /\ Alone(c)
  <2>1. AuditRow("refuse", call[c].snap, call[c].reach, call[c].actor) \in Row
    BY <1>0, AuditRowType DEF Call
  <2>2. Writes(c, "refuse", call[c].actor)
    BY <1>9, <2>1 DEF Refuse, AuditAppend, Writes, AuditRow
  <2>3. call'[c] = Idle
    BY <1>0, <1>9 DEF Refuse, Goto
  <2> QED BY <1>0, <1>9, <2>2, <2>3 DEF Refuse, Goto, ExecuteMoves, Alone, engine, world, clients, history
<1> QED BY <1>1, <1>2, <1>3, <1>4, <1>5, <1>6, <1>7, <1>8, <1>9

Moves(c) == PlanMoves(c) \/ ApproveMoves(c) \/ ExecuteMoves(c)

\* A restart, and the steps that leave all of this alone.
Restarts ==
    /\ \A c \in Calls : call'[c].pc = "idle"
    /\ DOMAIN plans' = {} /\ DOMAIN tokens' = {}
    /\ crashes' = crashes + 1
    /\ UNCHANGED <<log, shown, reported, mutations>>

Idles == UNCHANGED <<idseq, call, rest, crashes>>

\* Every step is one of these.
LEMMA StepsAre ==
    ASSUME TypeOK, TypeOK', [Next]_vars
    PROVE  \/ \E c \in Calls : Moves(c) /\ Alone(c)
           \/ Restarts
           \/ Idles
<1>1. CASE \E c \in Calls : Request(c) \/ Step(c) \/ Panic(c)
  BY <1>1, PlanMovesAre, ApproveMovesAre, ExecuteMovesAre DEF Moves, Request, Step
<1>2. CASE Crash
  BY <1>2, IdleSound DEF Crash, Restarts, clients, history
<1>3. CASE ChangeTopology \/ Tick \/ UNCHANGED vars
  BY <1>3 DEF ChangeTopology, Tick, vars, engine, world, clients, history, rest, Idles
<1> QED BY <1>1, <1>2, <1>3 DEF Next, Environment

---------------------------------------------------------------------------
(* The rows of the execute events.                                         *)

LEMMA RowsInit == Init => RowsInv
<1> SUFFICES ASSUME Init PROVE RowsInv
  OBVIOUS
<1>1. \A c \in Calls : call[c].pc = "idle"
  BY IdleSound DEF Init
<1>2. DOMAIN log = {} /\ DOMAIN mutations = {} /\ reported = {}
  BY DEF Init
<1> QED BY <1>1, <1>2 DEF RowsInv, RowsTold, RowsNamed, WritersSound, ReportsSound

\* Most steps leave the mutations alone and write no execute row; the call that
\* takes one is then neither about to write such a row nor past it.
LEMMA QuietRows ==
    ASSUME TypeOK, RowsInv, NEW c \in Calls, Alone(c),
           call'[c].pc \notin {"auditExecute", "exeID"},
           log' = log \/ \E row \in Row : row.Event # "execute" /\ log' = Append(log, row),
           mutations' = mutations,
           reported' = reported \/ (call[c].pc = "exeID" /\ reported' = reported \cup {call[c].mut})
    PROVE  RowsInv'
<1>1. \A d \in Calls : d # c => call'[d] = call[d]
  BY DEF Alone
<1>2. /\ \A r \in DOMAIN log : r \in DOMAIN log' /\ log'[r] = log[r]
      /\ \A r \in DOMAIN log' : log'[r].Event = "execute" => r \in DOMAIN log
  <2>1. log \in Seq(Row)
    BY DEF TypeOK
  <2>2. CASE log' = log
    BY <2>2
  <2>3. CASE \E row \in Row : row.Event # "execute" /\ log' = Append(log, row)
    <3>1. PICK row \in Row : row.Event # "execute" /\ log' = Append(log, row)
      BY <2>3
    <3> QED BY <2>1, <3>1
  <2> QED BY <2>2, <2>3
<1>3. RowsTold'
  BY <1>2 DEF RowsInv, RowsTold, Records
<1>4. RowsNamed'
  BY <1>2 DEF RowsInv, RowsNamed
<1>5. WritersSound'
  BY <1>1 DEF RowsInv, WritersSound
<1>6. ReportsSound'
  BY DEF RowsInv, WritersSound, ReportsSound
<1> QED BY <1>3, <1>4, <1>5, <1>6 DEF RowsInv

\* The actuator's step adds a mutation that names no row yet.
LEMMA TouchRows ==
    ASSUME TypeOK, RowsInv, NEW c \in Calls, Alone(c), Touch(c),
           call'[c].pc # "exeID",
           call'[c].pc = "auditExecute" =>
               Keeps(c) /\ call'[c].mut = Len(mutations) + 1 /\ call'[c].reach = call[c].reach,
           log' = log, reported' = reported
    PROVE  RowsInv'
<1>1. \A d \in Calls : d # c => call'[d] = call[d]
  BY DEF Alone
<1>2. PICK m : /\ mutations' = Append(mutations, m) /\ m.row = 0
               /\ m.ran = call[c].snap /\ m.checked = call[c].reach
               /\ m.approver = call[c].actor
  <2>1. PICK live : mutations' = Append(mutations,
                [token |-> call[c].tok, ran |-> call[c].snap, approver |-> call[c].actor,
                 checked |-> call[c].reach, live |-> live, row |-> 0])
    BY DEF Touch
  <2> QED BY <2>1
<1>3. PICK k \in Nat : k = Len(mutations) + 1
  <2>1. mutations \in Seq(Mutation)
    BY DEF TypeOK
  <2> QED BY <2>1
<1>4. /\ k \notin DOMAIN mutations /\ DOMAIN mutations' = DOMAIN mutations \cup {k}
      /\ mutations'[k] = m
      /\ \A i \in DOMAIN mutations : mutations'[i] = mutations[i]
  <2>1. mutations \in Seq(Mutation)
    BY DEF TypeOK
  <2> QED BY <1>2, <1>3, <2>1
<1>5. RowsTold'
  BY <1>2, <1>4 DEF RowsInv, RowsTold, Records
<1>6. RowsNamed'
  BY <1>2, <1>4 DEF RowsInv, RowsNamed
<1>7. \A d \in Calls : d # c /\ call'[d].pc = "auditExecute" => call'[d].mut \in DOMAIN mutations
  BY <1>1 DEF RowsInv, WritersSound
<1>8. WritersSound'
  BY <1>1, <1>2, <1>3, <1>4, <1>7 DEF RowsInv, WritersSound, Keeps
<1>9. ReportsSound'
  BY <1>4 DEF RowsInv, ReportsSound
<1> QED BY <1>5, <1>6, <1>8, <1>9 DEF RowsInv

\* The execute row: written and named by the mutation it tells of, or neither.
LEMMA AuditRows ==
    ASSUME TypeOK, RowsInv, NEW c \in Calls, Alone(c),
           Hops(c, {"auditExecute"}, {"exeID", "idle"}), Writes(c, "execute", call[c].actor),
           call'[c].pc = "exeID" => call'[c].mut = call[c].mut /\ log' # log,
           mutations' = IF log' = log THEN mutations
                        ELSE [mutations EXCEPT ![call[c].mut].row = Len(log')],
           reported' = reported
    PROVE  RowsInv'
<1>1. CASE log' = log
  BY <1>1, QuietRows DEF Hops
<1>2. CASE log' # log
  <2>0. log \in Seq(Row) /\ mutations \in Seq(Mutation)
    BY DEF TypeOK
  <2>1. PICK row \in Row : /\ row.Event = "execute"
                           /\ row.PlanHash = call[c].snap.PlanHash
                           /\ row.ComputedReach = call[c].reach
                           /\ row.Approver = call[c].actor
                           /\ log' = Append(log, row)
    BY <1>2 DEF Writes
  <2>2. PICK n \in Nat : n = Len(log) + 1
    BY <2>0
  <2>3. /\ n # 0 /\ n \notin DOMAIN log /\ DOMAIN log' = DOMAIN log \cup {n}
        /\ log'[n] = row /\ Len(log') = n
        /\ \A r \in DOMAIN log : log'[r] = log[r]
    BY <2>0, <2>1, <2>2
  <2>4. PICK k \in DOMAIN mutations : k = call[c].mut
    BY DEF RowsInv, WritersSound, Hops
  <2>5. /\ k \in DOMAIN mutations /\ mutations[k].row = 0
        /\ mutations[k].ran = call[c].snap /\ mutations[k].checked = call[c].reach
        /\ mutations[k].approver = call[c].actor
        /\ \A d \in Calls : call[d].pc = "auditExecute" /\ call[d].mut = k => d = c
    BY <2>4 DEF RowsInv, WritersSound, Hops
  <2>6. mutations' = [mutations EXCEPT ![k].row = n]
    BY <1>2, <2>3, <2>4
  <2>7. /\ DOMAIN mutations' = DOMAIN mutations /\ mutations'[k].row = n
        /\ mutations'[k].ran = mutations[k].ran /\ mutations'[k].checked = mutations[k].checked
        /\ mutations'[k].approver = mutations[k].approver
        /\ \A i \in DOMAIN mutations : i # k => mutations'[i] = mutations[i]
    <3>1. mutations[k] \in Mutation
      BY <2>0, <2>5
    <3> QED BY <2>0, <2>5, <2>6, <3>1 DEF Mutation
  <2>8. \A i \in DOMAIN mutations : mutations[i].row # n
    BY <2>3 DEF RowsInv, RowsTold
  <2>9. RowsTold'
    <3>1. \A i \in DOMAIN mutations : i # k /\ mutations[i].row # 0 =>
              /\ mutations'[i].row \in DOMAIN log'
              /\ log'[mutations'[i].row].Event = "execute"
              /\ log'[mutations'[i].row].PlanHash = mutations'[i].ran.PlanHash
              /\ log'[mutations'[i].row].ComputedReach = mutations'[i].checked
              /\ log'[mutations'[i].row].Approver = mutations'[i].approver
      <4> SUFFICES ASSUME NEW i \in DOMAIN mutations, i # k, mutations[i].row # 0
                   PROVE  /\ mutations'[i].row \in DOMAIN log'
                          /\ log'[mutations'[i].row].Event = "execute"
                          /\ log'[mutations'[i].row].PlanHash = mutations'[i].ran.PlanHash
                          /\ log'[mutations'[i].row].ComputedReach = mutations'[i].checked
                          /\ log'[mutations'[i].row].Approver = mutations'[i].approver
        OBVIOUS
      <4>1. /\ mutations[i].row \in DOMAIN log /\ log[mutations[i].row].Event = "execute"
            /\ log[mutations[i].row].PlanHash = mutations[i].ran.PlanHash
            /\ log[mutations[i].row].ComputedReach = mutations[i].checked
            /\ log[mutations[i].row].Approver = mutations[i].approver
        BY DEF RowsInv, RowsTold, Records
      <4>2. mutations'[i] = mutations[i]
        BY <2>7
      <4>3. log'[mutations[i].row] = log[mutations[i].row] /\ mutations[i].row \in DOMAIN log'
        BY <2>3, <4>1
      <4> QED BY <4>1, <4>2, <4>3
    <3>2. /\ mutations'[k].row \in DOMAIN log'
          /\ log'[mutations'[k].row].Event = "execute"
          /\ log'[mutations'[k].row].PlanHash = mutations'[k].ran.PlanHash
          /\ log'[mutations'[k].row].ComputedReach = mutations'[k].checked
          /\ log'[mutations'[k].row].Approver = mutations'[k].approver
      BY <2>1, <2>3, <2>5, <2>7
    <3>3. \A i \in DOMAIN mutations' : i # k /\ mutations'[i].row # 0 =>
              i \in DOMAIN mutations /\ mutations[i].row # 0 /\ mutations'[i].row = mutations[i].row
      BY <2>7
    <3>4. \A i \in DOMAIN mutations' : mutations'[i].row # 0 =>
              /\ mutations'[i].row \in DOMAIN log'
              /\ log'[mutations'[i].row].Event = "execute"
              /\ log'[mutations'[i].row].PlanHash = mutations'[i].ran.PlanHash
              /\ log'[mutations'[i].row].ComputedReach = mutations'[i].checked
              /\ log'[mutations'[i].row].Approver = mutations'[i].approver
      <4> SUFFICES ASSUME NEW i \in DOMAIN mutations', mutations'[i].row # 0
                   PROVE  /\ mutations'[i].row \in DOMAIN log'
                          /\ log'[mutations'[i].row].Event = "execute"
                          /\ log'[mutations'[i].row].PlanHash = mutations'[i].ran.PlanHash
                          /\ log'[mutations'[i].row].ComputedReach = mutations'[i].checked
                          /\ log'[mutations'[i].row].Approver = mutations'[i].approver
        OBVIOUS
      <4>1. CASE i = k
        BY <3>2, <4>1
      <4>2. CASE i # k
        <5>1. i \in DOMAIN mutations /\ mutations[i].row # 0 /\ mutations'[i].row = mutations[i].row
          BY <3>3, <4>2
        <5> QED BY <3>1, <4>2, <5>1
      <4> QED BY <4>1, <4>2
    <3> QED BY <3>4 DEF RowsTold, Records
  <2>10. RowsNamed'
    BY <2>3, <2>5, <2>7, <2>8 DEF RowsInv, RowsNamed
  <2>11. WritersSound'
    <3>0. \A d \in Calls : d # c => call'[d] = call[d]
      BY DEF Alone
    <3>1. ASSUME NEW d \in Calls, call'[d].pc = "auditExecute"
          PROVE  /\ call'[d].mut \in DOMAIN mutations'
                 /\ mutations'[call'[d].mut].row = 0
                 /\ mutations'[call'[d].mut].ran = call'[d].snap
                 /\ mutations'[call'[d].mut].checked = call'[d].reach
                 /\ mutations'[call'[d].mut].approver = call'[d].actor
                 /\ \A e \in Calls : call'[e].pc = "auditExecute" /\ call'[e].mut = call'[d].mut
                       => e = d
      <4>1. d # c /\ call'[d] = call[d] /\ call[d].mut # k
        BY <2>5, <3>0, <3>1 DEF Hops
      <4>2. \A e \in Calls : call'[e].pc = "auditExecute" => call'[e] = call[e]
        BY <3>0 DEF Hops
      <4>3. mutations'[call[d].mut] = mutations[call[d].mut]
        BY <2>7, <3>1, <4>1 DEF RowsInv, WritersSound
      <4>4. /\ call[d].mut \in DOMAIN mutations
            /\ mutations[call[d].mut].row = 0
            /\ mutations[call[d].mut].ran = call[d].snap
            /\ mutations[call[d].mut].checked = call[d].reach
            /\ mutations[call[d].mut].approver = call[d].actor
            /\ \A e \in Calls : call[e].pc = "auditExecute" /\ call[e].mut = call[d].mut => e = d
        BY <3>1, <4>1 DEF RowsInv, WritersSound
      <4> QED BY <2>7, <4>1, <4>2, <4>3, <4>4
    <3>2. ASSUME NEW d \in Calls, call'[d].pc = "exeID"
          PROVE  call'[d].mut \in DOMAIN mutations' /\ mutations'[call'[d].mut].row # 0
      <4>1. CASE d = c
        BY <2>3, <2>4, <2>5, <2>7, <3>2, <4>1
      <4>2. CASE d # c
        <5>1. call'[d] = call[d] /\ call[d].pc = "exeID"
          BY <3>0, <3>2, <4>2
        <5>2. call[d].mut \in DOMAIN mutations /\ mutations[call[d].mut].row # 0
          BY <5>1 DEF RowsInv, WritersSound
        <5> QED BY <2>3, <2>7, <5>1, <5>2
      <4> QED BY <4>1, <4>2
    <3> QED BY <3>1, <3>2 DEF WritersSound
  <2>12. ReportsSound'
    BY <2>3, <2>7 DEF RowsInv, ReportsSound
  <2> QED BY <2>9, <2>10, <2>11, <2>12 DEF RowsInv
<1> QED BY <1>1, <1>2

LEMMA RowsNext == TypeOK /\ TypeOK' /\ RowsInv /\ [Next]_vars => RowsInv'
<1> SUFFICES ASSUME TypeOK, TypeOK', RowsInv, [Next]_vars PROVE RowsInv'
  OBVIOUS
<1>1. ASSUME NEW c \in Calls, PlanMoves(c) \/ ApproveMoves(c), Alone(c) PROVE RowsInv'
  <2>1. /\ call'[c].pc \notin {"auditExecute", "exeID"}
        /\ log' = log \/ \E row \in Row : row.Event # "execute" /\ log' = Append(log, row)
        /\ mutations' = mutations /\ reported' = reported
    BY <1>1 DEF PlanMoves, ApproveMoves, Hops, Writes, rest
  <2> QED BY <1>1, <2>1, QuietRows
<1>2. ASSUME NEW c \in Calls, ExecuteMoves(c), Alone(c) PROVE RowsInv'
  <2>1. CASE call[c].pc = "auditExecute"
    BY <1>2, <2>1, AuditRows DEF ExecuteMoves, Hops
  <2>2. CASE Touch(c) /\ call[c].pc # "auditExecute"
    <3>1. /\ call'[c].pc # "exeID" /\ log' = log /\ reported' = reported
          /\ call'[c].pc = "auditExecute" =>
               Keeps(c) /\ call'[c].mut = Len(mutations) + 1 /\ call'[c].reach = call[c].reach
      <4>1. mutations' # mutations
        BY <2>2 DEF Touch, TypeOK
      <4> QED BY <1>2, <2>2, <4>1 DEF ExecuteMoves, Hops, rest
    <3> QED BY <1>2, <2>2, <3>1, TouchRows
  <2>3. CASE ~Touch(c) /\ call[c].pc # "auditExecute"
    <3>1. /\ call'[c].pc \notin {"auditExecute", "exeID"}
          /\ log' = log \/ \E row \in Row : row.Event # "execute" /\ log' = Append(log, row)
          /\ mutations' = mutations
          /\ reported' = reported \/ (call[c].pc = "exeID" /\ reported' = reported \cup {call[c].mut})
      BY <1>2, <2>3 DEF ExecuteMoves, Hops, Writes, rest
    <3> QED BY <1>2, <3>1, QuietRows
  <2> QED BY <2>1, <2>2, <2>3
<1>3. CASE Restarts
  <2>1. WritersSound'
    BY <1>3 DEF Restarts, WritersSound
  <2> QED BY <1>3, <2>1 DEF Restarts, RowsInv, RowsTold, RowsNamed, ReportsSound, Records
<1>4. CASE Idles
  BY <1>4 DEF Idles, rest, RowsInv, RowsTold, RowsNamed, WritersSound, ReportsSound, Records
<1> QED BY <1>1, <1>2, <1>3, <1>4, StepsAre DEF Moves

THEOREM RowsHold == Spec => []RowsInv
BY TypeCorrect, RowsInit, RowsNext, PTL DEF Spec

\* Every execute row tells of exactly one mutation that has happened, with its plan,
\* the reach of its recheck and its approver.
THEOREM ExecuteRowsTellTheTruth == Spec => []ExecuteRowsAreTrue
<1>1. ASSUME TypeOK, RowsInv PROVE ExecuteRowsAreTrue
  <2> SUFFICES ASSUME NEW r \in DOMAIN log, log[r].Event = "execute"
               PROVE  /\ \E i \in DOMAIN mutations : Records(r, i)
                      /\ \A i, j \in DOMAIN mutations : Records(r, i) /\ Records(r, j) => i = j
    BY DEF ExecuteRowsAreTrue
  <2>1. r \in Nat /\ r # 0
    BY <1>1 DEF TypeOK
  <2>2. PICK i \in DOMAIN mutations : mutations[i].row = r
    BY <1>1 DEF RowsInv, RowsNamed
  <2>3. Records(r, i)
    BY <1>1, <2>1, <2>2 DEF RowsInv, RowsTold
  <2>4. \A j, k \in DOMAIN mutations : Records(r, j) /\ Records(r, k) => j = k
    BY <1>1, <2>1 DEF RowsInv, RowsNamed, Records
  <2> QED BY <2>3, <2>4
<1> QED BY <1>1, TypeCorrect, RowsHold, PTL

\* Nobody is told that a plan ran whose execute row is not in the log.
THEOREM WhatIsReportedIsRecorded == Spec => []ReportedIsRecorded
<1>1. RowsInv => ReportedIsRecorded
  BY DEF RowsInv, ReportsSound, RowsTold, ReportedIsRecorded
<1> QED BY <1>1, RowsHold, PTL

---------------------------------------------------------------------------
(* The ids.                                                                *)

LEMMA IdsInit == Init => IdsInv
<1> SUFFICES ASSUME Init PROVE IdsInv
  OBVIOUS
<1>1. \A c \in Calls : call[c].pc = "idle"
  BY IdleSound DEF Init
<1>2. DOMAIN plans = {} /\ shown = {}
  BY DEF Init
<1> QED BY <1>1, <1>2 DEF IdsInv

LEMMA IdsNext == TypeOK /\ TypeOK' /\ IdsInv /\ [Next]_vars => IdsInv'
<1> SUFFICES ASSUME TypeOK, TypeOK', IdsInv, [Next]_vars PROVE IdsInv'
  OBVIOUS
<1>0. /\ idseq \in Nat /\ DOMAIN plans \subseteq Nat /\ crashes \in Nat
      /\ \A d \in Calls : call[d].snap.PlanID \in Nat
  BY DEF TypeOK, Call, Stored
<1>1. ASSUME NEW c \in Calls, PlanMoves(c), Alone(c) PROVE IdsInv'
  <2> USE DEF Alone, Hops
  <2>1. CASE call[c].pc = "idle"
    BY <1>1, <2>1 DEF PlanMoves, IdsInv, rest
  <2>2. CASE call[c].pc = "newID"
    <3>1. /\ call'[c].pc = "store" /\ call'[c].snap.PlanID = idseq + 1
          /\ idseq' = idseq + 1 /\ UNCHANGED rest
      BY <1>1, <2>2 DEF PlanMoves
    <3> QED BY <1>0, <1>1, <3>1 DEF IdsInv, rest
  <2>3. CASE call[c].pc = "store"
    <3> DEFINE id == call[c].snap.PlanID
    <3>1. /\ call'[c].pc = "auditPlan" /\ call'[c].snap = call[c].snap
          /\ plans' = With(plans, id, call[c].snap)
          /\ UNCHANGED <<idseq, shown>>
      BY <1>1, <2>3 DEF PlanMoves, Keeps
    <3>2. DOMAIN plans' = DOMAIN plans \cup {id}
      BY <3>1 DEF With
    <3>3. id <= idseq /\ \A d \in Calls : d # c /\ call[d].pc = "store" => call[d].snap.PlanID # id
      BY <2>3 DEF IdsInv
    <3> QED BY <1>1, <3>1, <3>2, <3>3 DEF IdsInv
  <2>4. CASE call[c].pc = "auditPlan"
    BY <1>1, <2>4 DEF PlanMoves, IdsInv
  <2> QED BY <1>1, <2>1, <2>2, <2>3, <2>4 DEF PlanMoves
<1>2. ASSUME NEW c \in Calls, ApproveMoves(c) \/ ExecuteMoves(c), Alone(c) PROVE IdsInv'
  <2>1. /\ call'[c].pc \notin {"store", "auditPlan"} /\ plans' = plans /\ shown' = shown
        /\ idseq' = idseq \/ idseq' = idseq + 1
    BY <1>2 DEF ApproveMoves, ExecuteMoves, Hops, rest
  <2> QED BY <1>0, <1>2, <2>1 DEF IdsInv, Alone
<1>3. CASE Restarts
  BY <1>0, <1>3 DEF Restarts, IdsInv
<1>4. CASE Idles
  BY <1>4 DEF Idles, rest, IdsInv
<1> QED BY <1>1, <1>2, <1>3, <1>4, StepsAre DEF Moves

THEOREM IdsHold == Spec => []IdsInv
BY TypeCorrect, IdsInit, IdsNext, PTL DEF Spec

\* No goroutine ever stores over a plan another one stored: what a plan id means
\* changes only with a restart (engine.go: newID and the plan map, two locks).
THEOREM PlansAreNeverReplaced == Spec => PlansNeverReplaced
<1> DEFINE Stay == crashes' = crashes =>
              \A id \in DOMAIN plans : id \in DOMAIN plans' /\ plans'[id] = plans[id]
<1>1. TypeOK /\ TypeOK' /\ IdsInv /\ [Next]_vars => Stay
  <2> SUFFICES ASSUME TypeOK, TypeOK', IdsInv, [Next]_vars, crashes' = crashes
               PROVE  \A id \in DOMAIN plans : id \in DOMAIN plans' /\ plans'[id] = plans[id]
    OBVIOUS
  <2>1. ASSUME NEW c \in Calls, Moves(c), plans' # plans
        PROVE  /\ call[c].pc = "store"
               /\ plans' = With(plans, call[c].snap.PlanID, call[c].snap)
    BY <2>1 DEF Moves, PlanMoves, ApproveMoves, ExecuteMoves, Hops, rest
  <2>2. ASSUME NEW c \in Calls, Moves(c)
        PROVE  \A id \in DOMAIN plans : id \in DOMAIN plans' /\ plans'[id] = plans[id]
    <3>1. CASE plans' = plans
      BY <3>1
    <3>2. CASE plans' # plans
      <4>1. call[c].snap.PlanID \notin DOMAIN plans
        BY <2>1, <2>2, <3>2 DEF IdsInv
      <4> QED BY <2>1, <2>2, <3>2, <4>1 DEF With
    <3> QED BY <3>1, <3>2
  <2>3. ~Restarts
    BY DEF Restarts, TypeOK
  <2> QED BY <2>2, <2>3, StepsAre DEF Idles, rest
<1> QED BY <1>1, TypeCorrect, IdsHold, PTL DEF Spec, PlansNeverReplaced

---------------------------------------------------------------------------
(* The story the log tells when the sink never fails.                      *)

\* What is on record stays on record.
LEMMA LogOnlyGrows ==
    ASSUME TypeOK, NEW c, NEW event, NEW who, Writes(c, event, who)
    PROVE  \A r \in DOMAIN log : r \in DOMAIN log' /\ log'[r] = log[r]
<1>1. log' = log \/ \E row \in Row : log' = Append(log, row)
  BY DEF Writes
<1> QED BY <1>1, LogGrows

\* A row that is written is the last one.
LEMMA LastRow ==
    ASSUME TypeOK, ~SinkMayFail, NEW c \in Calls,
           NEW event \in {"plan", "approve", "refuse", "execute"}, NEW who \in Principals,
           Writes(c, event, who), NEW n \in Nat, n = Len(log) + 1
    PROVE  /\ n \notin DOMAIN log /\ DOMAIN log' = DOMAIN log \cup {n}
           /\ 1..(n - 1) = DOMAIN log /\ Len(log') = n /\ log' # log
<1>1. PICK row \in Row : log' = Append(log, row)
  BY DEF Writes
<1>2. log \in Seq(Row)
  BY DEF TypeOK
<1> QED BY <1>1, <1>2

LEMMA LastRowSays ==
    ASSUME TypeOK, ~SinkMayFail, NEW c \in Calls,
           NEW event \in {"plan", "approve", "refuse", "execute"}, NEW who \in Principals,
           Writes(c, event, who), NEW n \in Nat, n = Len(log) + 1
    PROVE  /\ log'[n].Event = event /\ log'[n].Approver = who
           /\ log'[n].PlanHash = call[c].snap.PlanHash
<1>1. PICK row \in Row : /\ row.Event = event
                         /\ row.PlanHash = call[c].snap.PlanHash
                         /\ row.Approver = who
                         /\ log' = Append(log, row)
  BY DEF Writes
<1>2. log \in Seq(Row)
  BY DEF TypeOK
<1>3. log'[n] = row
  BY <1>1, <1>2
<1> QED BY <1>1, <1>3

LEMMA StoryInit == Init => StoryInv
<1> SUFFICES ASSUME Init PROVE StoryInv
  OBVIOUS
<1>1. \A c \in Calls : call[c].pc = "idle"
  BY IdleSound DEF Init
<1>2. DOMAIN log = {} /\ DOMAIN plans = {}
  BY DEF Init
<1> QED BY <1>1, <1>2 DEF StoryInv, LogTellsTheStory

\* A call writes no row, or the one of the place it is at.
Event(pc) ==
    CASE pc = "auditPlan"    -> "plan"
      [] pc = "auditApprove" -> "approve"
      [] pc = "auditExecute" -> "execute"
      [] pc = "refuse"       -> "refuse"

LEMMA MoveWrites ==
    ASSUME TypeOK, NEW c \in Calls, Moves(c)
    PROVE  \/ /\ log' = log
              /\ call[c].pc \notin {"auditPlan", "auditApprove", "auditExecute", "refuse"}
           \/ /\ call[c].pc \in {"auditPlan", "auditApprove", "auditExecute", "refuse"}
              /\ \E who \in Principals : /\ Writes(c, Event(call[c].pc), who)
                                         /\ call[c].pc = "auditExecute" => who = call[c].actor
              /\ call'[c].pc \notin {"mint", "auditApprove"} /\ plans' = plans
<1>1. NoPrincipal \in Principals /\ call[c].actor \in Principals
  BY EngineAssumption DEF TypeOK, Call
<1>2. CASE PlanMoves(c)
  BY <1>1, <1>2 DEF PlanMoves, Hops, rest, Event
<1>3. CASE ApproveMoves(c)
  BY <1>1, <1>3 DEF ApproveMoves, Hops, rest, Event
<1>4. CASE ExecuteMoves(c)
  BY <1>1, <1>4 DEF ExecuteMoves, Hops, rest, Event
<1> QED BY <1>2, <1>3, <1>4 DEF Moves

\* The row a call writes is the last one, and tells of its plan.
LEMMA MoveWritesLast ==
    ASSUME ~SinkMayFail, TypeOK, NEW c \in Calls, Moves(c), log' # log
    PROVE  /\ call[c].pc \in {"auditPlan", "auditApprove", "auditExecute", "refuse"}
           /\ \E n \in Nat : /\ DOMAIN log' = DOMAIN log \cup {n} /\ 1..(n - 1) = DOMAIN log
                             /\ log'[n].Event = Event(call[c].pc)
                             /\ log'[n].PlanHash = call[c].snap.PlanHash
                             /\ call[c].pc = "auditExecute" => log'[n].Approver = call[c].actor
<1>1. PICK who \in Principals : /\ Writes(c, Event(call[c].pc), who)
                                /\ call[c].pc = "auditExecute" => who = call[c].actor
  BY MoveWrites
<1>2. /\ call[c].pc \in {"auditPlan", "auditApprove", "auditExecute", "refuse"}
      /\ Event(call[c].pc) \in {"plan", "approve", "refuse", "execute"}
  BY MoveWrites DEF Event
<1>3. PICK n \in Nat : n = Len(log) + 1
  BY DEF TypeOK
<1>4. DOMAIN log' = DOMAIN log \cup {n} /\ 1..(n - 1) = DOMAIN log
  BY <1>1, <1>2, <1>3, LastRow
<1>5. /\ log'[n].Event = Event(call[c].pc) /\ log'[n].Approver = who
      /\ log'[n].PlanHash = call[c].snap.PlanHash
  BY <1>1, <1>2, <1>3, LastRowSays
<1> QED BY <1>1, <1>2, <1>4, <1>5

\* What is on record stays on record.
LEMMA MoveKeepsRows ==
    ASSUME TypeOK, NEW c \in Calls, Moves(c)
    PROVE  \A r \in DOMAIN log : r \in DOMAIN log' /\ log'[r] = log[r]
BY MoveWrites, LogOnlyGrows

\* A plan that is told of, or about to be, stays so: the call that owed the row
\* writes it.
LEMMA PlanToldStays ==
    ASSUME ~SinkMayFail, TypeOK, NEW c \in Calls, Moves(c), Alone(c), NEW hash, PlanTold(hash)
    PROVE  PlanTold(hash)'
<1>1. CASE \E p \in DOMAIN log : log[p].Event = "plan" /\ log[p].PlanHash = hash
  BY <1>1, MoveKeepsRows DEF PlanTold
<1>2. CASE \E d \in Calls : call[d].pc = "auditPlan" /\ call[d].snap.PlanHash = hash
  <2>1. PICK d \in Calls : call[d].pc = "auditPlan" /\ call[d].snap.PlanHash = hash
    BY <1>2
  <2>2. CASE d # c
    BY <2>1, <2>2 DEF PlanTold, Alone
  <2>3. CASE d = c
    <3>1. PICK who \in Principals : Writes(c, "plan", who)
      BY <2>1, <2>3, MoveWrites DEF Event
    <3>2. PICK n \in Nat : n = Len(log) + 1
      BY DEF TypeOK
    <3>3. n \in DOMAIN log'
      BY <3>1, <3>2, LastRow
    <3>4. log'[n].Event = "plan" /\ log'[n].PlanHash = hash
      BY <2>1, <2>3, <3>1, <3>2, LastRowSays
    <3> QED BY <3>3, <3>4 DEF PlanTold
  <2> QED BY <2>2, <2>3
<1> QED BY <1>1, <1>2 DEF PlanTold

\* A call about to write its execute row has an approve row behind it.
LEMMA ExecuteIsApproved ==
    ASSUME IInv, RowsInv, NEW c \in Calls, call[c].pc = "auditExecute"
    PROVE  \E a \in DOMAIN log : /\ log[a].Event = "approve"
                                 /\ log[a].PlanHash = call[c].snap.PlanHash
                                 /\ log[a].Approver = call[c].actor
<1> DEFINE i == call[c].mut
<1>1. i \in DOMAIN mutations /\ mutations[i].ran = call[c].snap /\ mutations[i].approver = call[c].actor
  BY DEF RowsInv, WritersSound
<1> HIDE DEF i
<1>2. /\ OnRecord(mutations[i].token)
      /\ mutations[i].ran.PlanHash = minted[mutations[i].token].plan.PlanHash
      /\ mutations[i].approver = minted[mutations[i].token].approver
  BY <1>1 DEF IInv, MutationsSound, HandedSound
<1> QED BY <1>1, <1>2 DEF OnRecord

\* An approve row has its plan row, or will have it, and an execute row its approve
\* row before it.
LEMMA MoveTellsRows ==
    ASSUME ~SinkMayFail, TypeOK, IInv, RowsInv, StoryInv,
           NEW c \in Calls, Moves(c), Alone(c), NEW r \in DOMAIN log'
    PROVE  /\ \A hash : /\ log'[r].Event = "approve" /\ crashes = 0
                        /\ log'[r].PlanHash = hash
                        => PlanTold(hash)'
           /\ log'[r].Event = "execute" =>
                 \E a \in 1..(r - 1) : /\ log'[a].Event = "approve"
                                       /\ log'[a].PlanHash = log'[r].PlanHash
                                       /\ log'[a].Approver = log'[r].Approver
<1>0. \A x \in DOMAIN log : x \in Nat /\ 1..(x - 1) \subseteq DOMAIN log
  <2>1. log \in Seq(Row)
    BY DEF TypeOK
  <2> QED BY <2>1
<1>a. \A hash : PlanTold(hash) => PlanTold(hash)'
  BY PlanToldStays
<1>1. CASE r \in DOMAIN log
  <2>1. /\ \A hash : /\ log[r].Event = "approve" /\ crashes = 0
                     /\ log[r].PlanHash = hash
                     => PlanTold(hash)
        /\ log[r].Event = "execute" =>
              \E a \in 1..(r - 1) : /\ log[a].Event = "approve"
                                    /\ log[a].PlanHash = log[r].PlanHash
                                    /\ log[a].Approver = log[r].Approver
    BY <1>1 DEF StoryInv, LogTellsTheStory
  <2>2. log'[r] = log[r] /\ \A a \in 1..(r - 1) : log'[a] = log[a]
    BY <1>0, <1>1, MoveKeepsRows
  <2> QED BY <1>a, <2>1, <2>2
<1>2. CASE r \notin DOMAIN log
  <2>1. /\ call[c].pc \in {"auditPlan", "auditApprove", "auditExecute", "refuse"}
        /\ 1..(r - 1) = DOMAIN log
        /\ log'[r].Event = Event(call[c].pc)
        /\ log'[r].PlanHash = call[c].snap.PlanHash
        /\ call[c].pc = "auditExecute" => log'[r].Approver = call[c].actor
    BY <1>2, MoveWritesLast
  <2>2. ASSUME NEW hash, log'[r].Event = "approve", crashes = 0, log'[r].PlanHash = hash
        PROVE  PlanTold(hash)'
    <3>1. call[c].pc = "auditApprove"
      BY <2>1, <2>2 DEF Event
    <3>2. PlanTold(call[c].snap.PlanHash)
      BY <2>2, <3>1 DEF StoryInv
    <3>3. call[c].snap.PlanHash = hash
      BY <2>1, <2>2
    <3> QED BY <1>a, <3>2, <3>3
  <2>3. ASSUME log'[r].Event = "execute"
        PROVE  \E a \in 1..(r - 1) : /\ log'[a].Event = "approve"
                                     /\ log'[a].PlanHash = log'[r].PlanHash
                                     /\ log'[a].Approver = log'[r].Approver
    <3>1. call[c].pc = "auditExecute"
      BY <2>1, <2>3 DEF Event
    <3> QED BY <2>1, <3>1, ExecuteIsApproved, MoveKeepsRows
  <2> QED BY <2>2, <2>3
<1> QED BY <1>1, <1>2

\* So does what the plan map and the calls about to approve hold.
LEMMA MoveKeepsTold ==
    ASSUME ~SinkMayFail, TypeOK, StoryInv, crashes = 0, NEW c \in Calls, Moves(c), Alone(c),
           NEW hash,
           \/ \E id \in DOMAIN plans' : plans'[id].PlanHash = hash
           \/ \E d \in Calls : /\ call'[d].pc \in {"mint", "auditApprove"}
                               /\ call'[d].snap.PlanHash = hash
    PROVE  PlanTold(hash)'
<1>1. PlanTold(hash) => PlanTold(hash)'
  BY PlanToldStays
<1>2. /\ \A id \in DOMAIN plans : plans[id].PlanHash = hash => PlanTold(hash)
      /\ \A d \in Calls : /\ call[d].pc \in {"mint", "auditApprove"}
                          /\ call[d].snap.PlanHash = hash
                          => PlanTold(hash)
  BY DEF StoryInv
<1>3. ASSUME NEW id \in DOMAIN plans', plans'[id].PlanHash = hash PROVE PlanTold(hash)'
  <2>1. CASE plans' = plans
    BY <1>1, <1>2, <1>3, <2>1
  <2>2. CASE plans' # plans
    <3>1. /\ plans' = With(plans, call[c].snap.PlanID, call[c].snap)
          /\ call'[c].pc = "auditPlan" /\ call'[c].snap = call[c].snap
      BY <2>2 DEF Moves, PlanMoves, ApproveMoves, ExecuteMoves, Hops, Keeps, rest
    <3>2. \/ id \in DOMAIN plans /\ plans[id].PlanHash = hash
          \/ call'[c].snap.PlanHash = hash
      BY <1>3, <3>1 DEF With
    <3> QED BY <1>1, <1>2, <3>1, <3>2 DEF PlanTold
  <2> QED BY <2>1, <2>2
<1>4. ASSUME NEW d \in Calls, call'[d].pc \in {"mint", "auditApprove"},
             call'[d].snap.PlanHash = hash
      PROVE  PlanTold(hash)'
  <2>1. CASE d # c
    <3>1. call'[d] = call[d]
      BY <2>1 DEF Alone
    <3> QED BY <1>1, <1>2, <1>4, <3>1
  <2>2. CASE d = c
    <3>1. \/ \E id \in DOMAIN plans : call'[c].snap = plans[id]
          \/ call[c].pc = "mint" /\ call'[c].snap = call[c].snap
      BY <1>4, <2>2 DEF Moves, PlanMoves, ApproveMoves, ExecuteMoves, Hops
    <3> QED BY <1>1, <1>2, <1>4, <2>2, <3>1
  <2> QED BY <2>1, <2>2
<1> QED BY <1>3, <1>4

LEMMA StoryNext ==
    ASSUME ~SinkMayFail, TypeOK, TypeOK', IInv, RowsInv, StoryInv, [Next]_vars
    PROVE  StoryInv'
<1>1. ASSUME NEW c \in Calls, Moves(c), Alone(c) PROVE StoryInv'
  <2>1. crashes' = crashes
    BY <1>1 DEF Alone
  <2>2. LogTellsTheStory'
    BY <1>1, <2>1, MoveTellsRows DEF LogTellsTheStory, PlanTold
  <2>3. ASSUME crashes' = 0 PROVE \A id \in DOMAIN plans' : PlanTold(plans[id].PlanHash)'
    BY <1>1, <2>1, <2>3, MoveKeepsTold DEF PlanTold
  <2>4. ASSUME crashes' = 0, NEW d \in Calls, call'[d].pc \in {"mint", "auditApprove"}
        PROVE  PlanTold(call[d].snap.PlanHash)'
    BY <1>1, <2>1, <2>4, MoveKeepsTold DEF PlanTold
  <2> QED BY <2>2, <2>3, <2>4 DEF StoryInv
<1>2. CASE Restarts
  <2>1. crashes' # 0 /\ log' = log
    BY <1>2 DEF Restarts, TypeOK
  <2> QED BY <2>1 DEF StoryInv, LogTellsTheStory
<1>3. CASE Idles
  BY <1>3 DEF Idles, rest, StoryInv, PlanTold, LogTellsTheStory
<1> QED BY <1>1, <1>2, <1>3, StepsAre

\* With a sink that never fails each execute row stands behind an approve row of its
\* hash and approver; and, until a restart, each approve row has a plan row of its
\* hash, or the Plan that stored the plan is about to write it: a client that guesses
\* a plan's id can get ahead of the row, not of the plan.
THEOREM LogTellsTheWholeStory ==
    ASSUME ~SinkMayFail
    PROVE  Spec => []LogTellsTheStory
<1>1. TypeOK /\ TypeOK' /\ IInv /\ RowsInv /\ StoryInv /\ [Next]_vars => StoryInv'
  BY StoryNext
<1>2. StoryInv => LogTellsTheStory
  BY DEF StoryInv
<1> QED BY <1>1, <1>2, StoryInit, TypeCorrect, InvariantHolds, RowsHold, PTL DEF Spec

---------------------------------------------------------------------------
(* What became of each token.                                              *)

\* There is an execute or a refuse row of this hash and approver.
ToldOf(hash, approver) ==
    \E r \in DOMAIN log : /\ log[r].Event \in {"execute", "refuse"}
                          /\ log[r].PlanHash = hash
                          /\ log[r].Approver = approver

\* A call holds token t and will write that row.
HeldFor(t, hash, approver) ==
    \E c \in Calls : /\ call[c].pc \in {"recheck", "mutate", "auditExecute", "refuse"}
                     /\ WillTell(c, t, hash, approver)

LEMMA SpentInit == Init => SpentInv
BY DEF Init, SpentInv

\* No step but a restart takes a token out of the hands of a call without a row.
LEMMA HeldUntilTold ==
    ASSUME ~SinkMayFail, ~MayPanic, TypeOK, NEW c \in Calls, Moves(c), Alone(c),
           NEW t, NEW hash, NEW approver,
           HeldFor(t, hash, approver) \/ ToldOf(hash, approver)
    PROVE  HeldFor(t, hash, approver)' \/ ToldOf(hash, approver)'
<1>0. call[c].actor \in Principals
  BY DEF TypeOK, Call
<1>1. \A event, who : Writes(c, event, who) => \A r \in DOMAIN log : r \in DOMAIN log' /\ log'[r] = log[r]
  BY LogOnlyGrows
<1>2. \A r \in DOMAIN log : r \in DOMAIN log' /\ log'[r] = log[r]
  BY <1>1 DEF Moves, PlanMoves, ApproveMoves, ExecuteMoves, rest
<1>3. CASE ToldOf(hash, approver)
  BY <1>2, <1>3 DEF ToldOf
<1>4. CASE HeldFor(t, hash, approver)
  <2>1. PICK d \in Calls : /\ call[d].pc \in {"recheck", "mutate", "auditExecute", "refuse"}
                           /\ WillTell(d, t, hash, approver)
    BY <1>4 DEF HeldFor
  <2>2. CASE d # c
    <3>1. call'[d] = call[d]
      BY <2>2 DEF Alone
    <3> QED BY <2>1, <3>1 DEF HeldFor, WillTell
  <2>3. CASE d = c /\ call[c].pc \in {"recheck", "mutate"}
    <3>1. call'[c].pc \in {"mutate", "auditExecute", "refuse"} /\ Keeps(c)
      BY <2>3 DEF Moves, PlanMoves, ApproveMoves, ExecuteMoves, Hops
    <3> QED BY <2>1, <2>3, <3>1 DEF HeldFor, WillTell, Keeps
  <2>4. CASE d = c /\ call[c].pc \in {"auditExecute", "refuse"}
    <3>1. PICK event \in {"execute", "refuse"} : Writes(c, event, call[c].actor)
      BY <2>4 DEF Moves, PlanMoves, ApproveMoves, ExecuteMoves, Hops
    <3>2. PICK n \in Nat : n = Len(log) + 1
      <4>1. log \in Seq(Row)
        BY DEF TypeOK
      <4> QED BY <4>1
    <3>3. n \in DOMAIN log'
      BY <1>0, <3>1, <3>2, LastRow
    <3>4. /\ log'[n].Event = event /\ log'[n].Approver = call[c].actor
          /\ log'[n].PlanHash = call[c].snap.PlanHash
      BY <1>0, <3>1, <3>2, LastRowSays
    <3> QED BY <2>1, <2>4, <3>1, <3>3, <3>4 DEF ToldOf, WillTell
  <2> QED BY <2>1, <2>2, <2>3, <2>4
<1> QED BY <1>3, <1>4

LEMMA SpentNext ==
    ASSUME ~SinkMayFail, ~MayPanic, TypeOK, TypeOK', IInv, SpentInv, [Next]_vars
    PROVE  SpentInv'
<1>0. SpentInv <=> \A t \in DOMAIN tokens : tokens[t].consumed =>
                      \/ HeldFor(t, tokens[t].planHash, tokens[t].approver)
                      \/ ToldOf(tokens[t].planHash, tokens[t].approver)
  BY DEF SpentInv, HeldFor, ToldOf
<1>1. ASSUME NEW c \in Calls, Moves(c), Alone(c),
             NEW t \in DOMAIN tokens', tokens'[t].consumed
      PROVE  \/ HeldFor(t, tokens[t].planHash, tokens[t].approver)'
             \/ ToldOf(tokens[t].planHash, tokens[t].approver)'
  <2> DEFINE hash == tokens'[t].planHash
             approver == tokens'[t].approver
  <2>1. CASE t \in DOMAIN tokens /\ tokens'[t] = tokens[t]
    <3>1. \A h, a : h = tokens[t].planHash /\ a = tokens[t].approver
                      => HeldFor(t, h, a)' \/ ToldOf(h, a)'
      BY <1>0, <1>1, <2>1, HeldUntilTold
    <3> QED BY <2>1, <3>1
  <2>2. CASE ~(t \in DOMAIN tokens /\ tokens'[t] = tokens[t])
    <3>1. CASE call[c].pc = "mint"
      <4>1. PICK record \in Token : ~record.consumed /\ tokens' = With(tokens, Len(minted) + 1, record)
        BY <1>1, <2>2, <3>1 DEF Moves, PlanMoves, ApproveMoves, ExecuteMoves, Hops, rest
      <4>2. tokens'[t] = record \/ (t \in DOMAIN tokens /\ tokens'[t] = tokens[t])
        BY <1>1, <4>1 DEF With
      <4> QED BY <1>1, <2>2, <4>1, <4>2
    <3>2. CASE call[c].pc = "consume"
      <4>1. /\ call'[c].pc = "recheck" /\ call'[c].snap = call[c].snap /\ call'[c].tok = call[c].tok
            /\ call'[c].actor = tokens[call[c].tok].approver
            /\ Acceptable(call[c].tok, call[c].snap.PlanHash)
            /\ tokens' = [tokens EXCEPT ![call[c].tok].consumed = TRUE]
        BY <1>1, <2>2, <3>2 DEF Moves, PlanMoves, ApproveMoves, ExecuteMoves, Hops, rest
      <4>2. t = call[c].tok /\ t \in DOMAIN tokens
        BY <1>1, <2>2, <4>1
      <4>3. tokens[t] \in Token
        BY <4>2 DEF TypeOK
      <4>4. tokens'[t].planHash = tokens[t].planHash /\ tokens'[t].approver = tokens[t].approver
        BY <4>1, <4>2, <4>3 DEF Token
      <4>5. call[c].snap.PlanHash = tokens[t].planHash
        BY <4>1, <4>2 DEF Acceptable
      <4> QED BY <4>1, <4>2, <4>4, <4>5 DEF HeldFor, WillTell
    <3>3. CASE call[c].pc \notin {"mint", "consume"}
      <4>1. tokens' = tokens
        BY <1>1, <3>3 DEF Moves, PlanMoves, ApproveMoves, ExecuteMoves, Hops, rest
      <4> QED BY <1>1, <2>2, <4>1
    <3> QED BY <3>1, <3>2, <3>3
  <2> QED BY <2>1, <2>2
<1>2. CASE \E c \in Calls : Moves(c) /\ Alone(c)
  BY <1>1, <1>2 DEF SpentInv, HeldFor, ToldOf
<1>3. CASE Restarts
  BY <1>3 DEF Restarts, SpentInv
<1>4. CASE Idles
  BY <1>4 DEF Idles, rest, SpentInv, WillTell
<1> QED BY <1>2, <1>3, <1>4, StepsAre

\* With a sink that never fails and nothing that panics, a spent token is in the
\* hands of a call at work or the log says what became of it.
THEOREM SpentTokensAreAccountedFor ==
    ASSUME ~SinkMayFail, ~MayPanic
    PROVE  Spec => []SpentTokensAccountedFor
<1>1. TypeOK /\ TypeOK' /\ IInv /\ SpentInv /\ [Next]_vars => SpentInv'
  BY SpentNext
<1>2. SpentInv => SpentTokensAccountedFor
  BY DEF SpentInv, SpentTokensAccountedFor, WillTell
<1> QED BY <1>1, <1>2, SpentInit, TypeCorrect, InvariantHolds, PTL DEF Spec

---------------------------------------------------------------------------
(* What became of each mutation.                                           *)

RefusalOf(hash, approver) ==
    \E r \in DOMAIN log : /\ log[r].Event = "refuse"
                          /\ log[r].PlanHash = hash
                          /\ log[r].Approver = approver

\* A call will write the execute row of mutation i or its refuse row.
WillTellOf(i, token, hash, approver) ==
    \E c \in Calls : /\ call[c].pc = "refuse" \/ (call[c].pc = "auditExecute" /\ call[c].mut = i)
                     /\ WillTell(c, token, hash, approver)

LEMMA ToldIs ==
    ASSUME NEW i
    PROVE  Told(i) <=> \/ mutations[i].row # 0
                       \/ RefusalOf(mutations[i].ran.PlanHash, mutations[i].approver)
                       \/ WillTellOf(i, mutations[i].token, mutations[i].ran.PlanHash,
                                     mutations[i].approver)
BY DEF Told, RefusalOf, WillTellOf

\* What a mutation was never changes; it only gains its row.
LEMMA MutationsStay ==
    ASSUME TypeOK, TypeOK', RowsInv, NEW c \in Calls, Moves(c)
    PROVE  \A i \in DOMAIN mutations :
             /\ i \in DOMAIN mutations'
             /\ mutations'[i].token = mutations[i].token
             /\ mutations'[i].ran = mutations[i].ran
             /\ mutations'[i].approver = mutations[i].approver
             /\ mutations[i].row # 0 => mutations'[i].row # 0
<1>1. mutations \in Seq(Mutation) /\ log' \in Seq(Row)
  BY DEF TypeOK
<1>2. \/ mutations' = mutations \/ Touch(c)
      \/ /\ call[c].pc = "auditExecute" /\ log' # log
         /\ Writes(c, "execute", call[c].actor)
         /\ mutations' = [mutations EXCEPT ![call[c].mut].row = Len(log')]
  BY DEF Moves, PlanMoves, ApproveMoves, ExecuteMoves, Hops, rest
<1>3. CASE mutations' = mutations
  BY <1>3
<1>4. CASE Touch(c)
  <2>1. PICK m : mutations' = Append(mutations, m)
    BY <1>4 DEF Touch
  <2> QED BY <1>1, <2>1
<1>5. CASE /\ call[c].pc = "auditExecute" /\ log' # log
           /\ Writes(c, "execute", call[c].actor)
           /\ mutations' = [mutations EXCEPT ![call[c].mut].row = Len(log')]
  <2> DEFINE k == call[c].mut
  <2>1. k \in DOMAIN mutations
    BY <1>5 DEF RowsInv, WritersSound
  <2>2. mutations[k] \in Mutation
    BY <1>1, <2>1
  <2>3. \E row \in Row : log' = Append(log, row)
    BY <1>5 DEF Writes
  <2>4. Len(log') # 0
    BY <2>3 DEF TypeOK
  <2> QED BY <1>1, <1>5, <2>1, <2>2, <2>4 DEF Mutation
<1> QED BY <1>2, <1>3, <1>4, <1>5

LEMMA ToldStays ==
    ASSUME ~SinkMayFail, ~MayPanic, TypeOK, TypeOK', RowsInv,
           NEW c \in Calls, Moves(c), Alone(c), NEW i \in DOMAIN mutations, Told(i)
    PROVE  Told(i)'
<1> DEFINE token == mutations[i].token
           hash == mutations[i].ran.PlanHash
           approver == mutations[i].approver
<1>0. call[c].actor \in Principals
  BY DEF TypeOK, Call
<1>1. /\ i \in DOMAIN mutations' /\ mutations'[i].token = token
      /\ mutations'[i].ran.PlanHash = hash /\ mutations'[i].approver = approver
      /\ mutations[i].row # 0 => mutations'[i].row # 0
  BY MutationsStay
<1>2. SUFFICES \/ mutations'[i].row # 0
               \/ \E h, a : h = hash /\ a = approver /\ RefusalOf(h, a)'
               \/ \E t, h, a : t = token /\ h = hash /\ a = approver /\ WillTellOf(i, t, h, a)'
  BY <1>1 DEF Told, RefusalOf, WillTellOf
<1>3. \A r \in DOMAIN log : r \in DOMAIN log' /\ log'[r] = log[r]
  <2>1. \A event, who : Writes(c, event, who) => \A r \in DOMAIN log : r \in DOMAIN log' /\ log'[r] = log[r]
    BY LogOnlyGrows
  <2> QED BY <2>1 DEF Moves, PlanMoves, ApproveMoves, ExecuteMoves, rest
<1>4. CASE mutations[i].row # 0
  BY <1>1, <1>4
<1>5. CASE RefusalOf(hash, approver)
  BY <1>3, <1>5 DEF RefusalOf
<1>6. CASE WillTellOf(i, token, hash, approver)
  <2>1. PICK d \in Calls : /\ call[d].pc = "refuse" \/ (call[d].pc = "auditExecute" /\ call[d].mut = i)
                           /\ WillTell(d, token, hash, approver)
    BY <1>6 DEF WillTellOf
  <2>2. CASE d # c
    <3>1. call'[d] = call[d]
      BY <2>2 DEF Alone
    <3> QED BY <2>1, <3>1 DEF WillTellOf, WillTell
  <2>3. CASE d = c /\ call[c].pc = "refuse"
    <3>1. Writes(c, "refuse", call[c].actor)
      BY <2>3 DEF Moves, PlanMoves, ApproveMoves, ExecuteMoves, Hops
    <3>2. PICK n \in Nat : n = Len(log) + 1
      <4>1. log \in Seq(Row)
        BY DEF TypeOK
      <4> QED BY <4>1
    <3>3. n \in DOMAIN log'
      BY <1>0, <3>1, <3>2, LastRow
    <3>4. /\ log'[n].Event = "refuse" /\ log'[n].Approver = call[c].actor
          /\ log'[n].PlanHash = call[c].snap.PlanHash
      BY <1>0, <3>1, <3>2, LastRowSays
    <3> QED BY <2>1, <2>3, <3>3, <3>4 DEF RefusalOf, WillTell
  <2>4. CASE d = c /\ call[c].pc = "auditExecute"
    <3>1. /\ Writes(c, "execute", call[c].actor)
          /\ mutations' = IF log' = log THEN mutations
                          ELSE [mutations EXCEPT ![call[c].mut].row = Len(log')]
      BY <2>4 DEF Moves, PlanMoves, ApproveMoves, ExecuteMoves, Hops
    <3>2. PICK n \in Nat : n = Len(log) + 1
      <4>1. log \in Seq(Row)
        BY DEF TypeOK
      <4> QED BY <4>1
    <3>3. Len(log') = n /\ log' # log
      BY <1>0, <3>1, <3>2, LastRow
    <3>4. n # 0
      <4>1. log \in Seq(Row)
        BY DEF TypeOK
      <4> QED BY <3>2, <4>1
    <3>5. mutations' = [mutations EXCEPT ![i].row = n]
      BY <2>1, <2>4, <3>1, <3>3
    <3>6. mutations[i] \in Mutation
      <4>1. mutations \in Seq(Mutation)
        BY DEF TypeOK
      <4> QED BY <4>1
    <3>7. mutations'[i].row = n
      BY <3>5, <3>6 DEF Mutation
    <3> QED BY <3>4, <3>7
  <2> QED BY <2>1, <2>2, <2>3, <2>4
<1> QED BY <1>4, <1>5, <1>6, ToldIs

\* The mutation a step makes is the business of the call that made it.
LEMMA NewMutationTold ==
    ASSUME ~MayPanic, TypeOK, TypeOK', NEW c \in Calls, Moves(c), Alone(c),
           NEW i \in DOMAIN mutations', i \notin DOMAIN mutations
    PROVE  Told(i)'
<1>1. mutations \in Seq(Mutation)
  BY DEF TypeOK
<1>2. /\ Touch(c) /\ Keeps(c)
      /\ \/ call'[c].pc = "refuse"
         \/ call'[c].pc = "auditExecute" /\ call'[c].mut = Len(mutations) + 1
  BY DEF Moves, PlanMoves, ApproveMoves, ExecuteMoves, Hops, rest
<1>3. PICK m : /\ mutations' = Append(mutations, m) /\ m.token = call[c].tok
               /\ m.ran = call[c].snap /\ m.approver = call[c].actor
  <2>1. PICK live : mutations' = Append(mutations,
            [token |-> call[c].tok, ran |-> call[c].snap, approver |-> call[c].actor,
             checked |-> call[c].reach, live |-> live, row |-> 0])
    BY <1>2 DEF Touch
  <2> QED BY <2>1
<1>4. i = Len(mutations) + 1 /\ mutations'[i] = m
  <2>1. PICK n \in Nat : n = Len(mutations) + 1
    BY <1>1
  <2>2. /\ DOMAIN mutations = 1..Len(mutations) /\ DOMAIN mutations' = 1..n
        /\ mutations'[n] = m
    BY <1>1, <1>3, <2>1
  <2>3. i = n
    BY <1>1, <2>1, <2>2
  <2> QED BY <2>1, <2>2, <2>3
<1> QED BY <1>2, <1>3, <1>4 DEF Told, WillTell, Keeps

LEMMA UntoldIsFinite ==
    ASSUME TypeOK
    PROVE  IsFiniteSet(DOMAIN mutations) /\ IsFiniteSet(Untold)
<1>1. mutations \in Seq(Mutation)
  BY DEF TypeOK
<1>2. DOMAIN mutations = 1..Len(mutations) /\ Len(mutations) \in Nat
  BY <1>1
<1>3. IsFiniteSet(DOMAIN mutations)
  BY <1>2, FS_Interval
<1> QED BY <1>3, FS_Subset DEF Untold

\* Mutations that a call still has to tell of: no more than there are calls.
LEMMA FewInHand ==
    ASSUME IsFiniteSet(Calls), TypeOK, IInv,
           NEW Hand \in SUBSET DOMAIN mutations,
           \A i \in Hand : \E c \in Calls : call[c].tok = mutations[i].token
    PROVE  IsFiniteSet(Hand) /\ Cardinality(Hand) <= Cardinality(Calls)
<1> DEFINE f == [i \in Hand |-> CHOOSE c \in Calls : call[c].tok = mutations[i].token]
<1>1. f \in [Hand -> Calls] /\ \A i \in Hand : call[f[i]].tok = mutations[i].token
  OBVIOUS
<1> HIDE DEF f
<1>2. \A i, j \in Hand : f[i] = f[j] => i = j
  <2> SUFFICES ASSUME NEW i \in Hand, NEW j \in Hand, f[i] = f[j] PROVE i = j
    OBVIOUS
  <2>1. mutations[i].token = mutations[j].token
    BY <1>1
  <2> QED BY <2>1 DEF IInv, MutationsSound
<1>3. f \in Injection(Hand, Calls)
  BY <1>1, <1>2 DEF Injection, IsInjective
<1> QED BY <1>3, FS_Injection

LEMMA UntoldInit ==
    ASSUME IsFiniteSet(Calls), Init
    PROVE  UntoldInv
<1>1. Untold = {} /\ crashes = 0
  BY DEF Init, Untold
<1>2. Cardinality(Untold) = 0
  BY <1>1, FS_EmptySet
<1>3. Cardinality(Calls) \in Nat
  BY FS_CardinalityType
<1> QED BY <1>1, <1>2, <1>3 DEF UntoldInv

LEMMA UntoldNext ==
    ASSUME ~SinkMayFail, ~MayPanic, IsFiniteSet(Calls),
           TypeOK, TypeOK', IInv, RowsInv, UntoldInv, [Next]_vars
    PROVE  UntoldInv'
<1> DEFINE N == Cardinality(Calls)
<1>0. /\ N \in Nat /\ crashes \in Nat /\ crashes' \in Nat
      /\ IsFiniteSet(Untold) /\ Cardinality(Untold) \in Nat
      /\ Cardinality(Untold) <= crashes * N
  BY UntoldIsFinite, FS_CardinalityType DEF TypeOK, UntoldInv
<1>1. ASSUME Untold' \subseteq Untold, crashes' = crashes PROVE UntoldInv'
  <2>1. IsFiniteSet(Untold') /\ Cardinality(Untold') <= Cardinality(Untold)
    BY <1>0, <1>1, FS_Subset
  <2>2. Cardinality(Untold') \in Nat
    BY <2>1, FS_CardinalityType
  <2> QED BY <1>0, <1>1, <2>1, <2>2 DEF UntoldInv
<1>2. CASE \E c \in Calls : Moves(c) /\ Alone(c)
  <2>1. PICK c \in Calls : Moves(c) /\ Alone(c)
    BY <1>2
  <2>2. \A i \in DOMAIN mutations' : i \notin DOMAIN mutations \/ Told(i) => Told(i)'
    BY <2>1, ToldStays, NewMutationTold
  <2>3. Untold' \subseteq Untold
    BY <2>2 DEF Untold
  <2> QED BY <1>1, <2>1, <2>3 DEF Alone
<1>3. CASE Restarts
  <2> DEFINE Hand == {i \in DOMAIN mutations : \E c \in Calls : call[c].tok = mutations[i].token}
  <2>1. IsFiniteSet(Hand) /\ Cardinality(Hand) <= N /\ Cardinality(Hand) \in Nat
    BY FewInHand, FS_CardinalityType
  <2>2. Untold' \subseteq Untold \cup Hand
    <3> SUFFICES ASSUME NEW i \in DOMAIN mutations, Told(i), i \notin Hand
                 PROVE  Told(i)'
      BY <1>3 DEF Restarts, Untold
    <3> QED BY <1>3 DEF Restarts, Told, WillTell
  <2> DEFINE Both == Untold \cup Hand
  <2>3. IsFiniteSet(Both) /\ Cardinality(Both) <= Cardinality(Untold) + Cardinality(Hand)
    <3>1. /\ IsFiniteSet(Both)
          /\ Cardinality(Both) = Cardinality(Untold) + Cardinality(Hand)
                                  - Cardinality(Untold \cap Hand)
      BY <1>0, <2>1, FS_Union
    <3>2. Cardinality(Untold \cap Hand) \in Nat
      BY <1>0, FS_Subset, FS_CardinalityType
    <3>3. Cardinality(Both) \in Nat
      BY <3>1, FS_CardinalityType
    <3> QED BY <1>0, <2>1, <3>1, <3>2, <3>3
  <2> HIDE DEF Hand
  <2>4. IsFiniteSet(Untold') /\ Cardinality(Untold') <= Cardinality(Both)
    BY <2>2, <2>3, FS_Subset
  <2>5. Cardinality(Both) \in Nat /\ Cardinality(Untold') \in Nat
    BY <2>3, <2>4, FS_CardinalityType
  <2> HIDE DEF Both, N
  <2>6. crashes' = crashes + 1
    BY <1>3 DEF Restarts
  <2>7. crashes' * N = crashes * N + N
    BY <1>0, <2>6
  <2>8. PICK before \in Nat : before = crashes * N
    BY <1>0
  <2>9. Cardinality(Untold') <= before + N
    <3>1. Cardinality(Untold) <= before
      BY <1>0, <2>8
    <3> QED BY <1>0, <2>1, <2>3, <2>4, <2>5, <3>1
  <2> QED BY <2>7, <2>8, <2>9 DEF UntoldInv, N
<1>4. CASE Idles
  <2>1. Untold' = Untold
    BY <1>4 DEF Idles, rest, Untold, Told, WillTell
  <2> QED BY <1>1, <1>4, <2>1 DEF Idles, rest
<1> QED BY <1>2, <1>3, <1>4, StepsAre

\* With a sink that never fails and nothing that panics, all that was ever done to
\* a service is in the log or about to be, but for one mutation at most for each
\* goroutine and restart (engine.go: Execute writes one row on every way out).
THEOREM MutationsAreAccountedFor ==
    ASSUME ~SinkMayFail, ~MayPanic, IsFiniteSet(Calls)
    PROVE  Spec => []MutationsAccountedFor
<1>1. TypeOK /\ TypeOK' /\ IInv /\ RowsInv /\ UntoldInv /\ [Next]_vars => UntoldInv'
  BY UntoldNext
<1>2. Init => UntoldInv
  BY UntoldInit
<1>3. TypeOK /\ UntoldInv => MutationsAccountedFor
  <2> SUFFICES ASSUME TypeOK, UntoldInv PROVE MutationsAccountedFor
    OBVIOUS
  <2> DEFINE Missing == {i \in DOMAIN mutations : ~AccountedFor(i)}
  <2>1. Missing \subseteq Untold
    BY DEF Untold, Told, AccountedFor, WillTell
  <2>2. IsFiniteSet(Missing) /\ Cardinality(Missing) <= Cardinality(Untold)
    BY <2>1, UntoldIsFinite, FS_Subset
  <2>3. Cardinality(Missing) \in Nat /\ Cardinality(Untold) \in Nat /\ Cardinality(Calls) \in Nat
    BY <2>2, UntoldIsFinite, FS_CardinalityType
  <2>4. crashes * Cardinality(Calls) \in Nat
    BY <2>3 DEF TypeOK
  <2> HIDE DEF Missing
  <2>5. Cardinality(Missing) <= crashes * Cardinality(Calls)
    BY <2>2, <2>3, <2>4 DEF UntoldInv
  <2> QED BY <2>5 DEF MutationsAccountedFor, Missing
<1> QED BY <1>1, <1>2, <1>3, TypeCorrect, InvariantHolds, RowsHold, PTL DEF Spec
=============================================================================
