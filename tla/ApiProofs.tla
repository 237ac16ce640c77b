----------------------------- MODULE ApiProofs ------------------------------
(***************************************************************************)
(* Of the HTTP API, for every value of the constants: it takes the engine  *)
(* through no step the engine does not have, and what it answers is true.  *)
(***************************************************************************)
EXTENDS ApiInv, EngineGateProofs, WellFoundedInduction

---------------------------------------------------------------------------
(* The engine beneath.                                                     *)

LEMMA AdmittedIsSound ==
    ASSUME NEW m \in Admitted
    PROVE  /\ m \in Messages /\ m \in Message
           /\ m.route = "plans" => WithKey(m, Scope.orchestrator)
           /\ m.route = "approvals" => m.human \in Approvers
           /\ m.route = "executions" => WithKey(m, Scope.operator)
<1>1. m \in Messages /\ m \in Message
  BY ApiAssumption DEF Admitted
<1>2. m.route = "approvals" => m.human \in Approvers
  BY <1>1, ApiAssumption DEF Admitted, WithHuman
<1> QED BY <1>1, <1>2 DEF Admitted

LEMMA RequestIsRequest ==
    ASSUME NEW c \in Calls, ApiRequest(c)
    PROVE  Request(c) \/ UNCHANGED vars
<1>1. PICK m \in Admitted : \/ m.route = "plans" /\ Plans(c, m)
                            \/ m.route = "approvals" /\ Approvals(c, m)
                            \/ m.route = "executions" /\ Executions(c, m)
  BY DEF ApiRequest
<1>2. CASE m.route = "plans" /\ Plans(c, m)
  BY <1>2 DEF Plans, TurnedDown, Request
<1>3. CASE m.route = "approvals" /\ Approvals(c, m)
  <2>1. CASE NotStored(c)
    BY <2>1 DEF NotStored
  <2>2. CASE ~NotStored(c)
    <3>1. PICK id \in DOMAIN plans : \E hash \in {plans[id].PlanHash, NoHash} :
             ApproveCheck(c, id, hash, m.human)
      BY <1>3, <2>2 DEF Approvals
    <3>2. m.human \in Approvers
      BY <1>3, AdmittedIsSound
    <3> QED BY <3>1, <3>2 DEF Request
  <2> QED BY <2>1, <2>2
<1>4. CASE m.route = "executions" /\ Executions(c, m)
  BY <1>4 DEF Executions, NotStored, Request
<1> QED BY <1>1, <1>2, <1>3, <1>4

LEMMA ApiNextIsNext == [ApiNext]_apiVars => [Next]_vars
<1> SUFFICES ASSUME [ApiNext]_apiVars PROVE [Next]_vars
  OBVIOUS
<1>1. CASE \E c \in Calls : ApiRequest(c)
  BY <1>1, RequestIsRequest DEF Next
<1>2. CASE \E c \in Calls : ApiStep(c)
  BY <1>2 DEF ApiStep, Next
<1>3. CASE ApiEnvironment
  BY <1>3 DEF ApiEnvironment, Next
<1>4. CASE UNCHANGED apiVars
  BY <1>4 DEF apiVars
<1> QED BY <1>1, <1>2, <1>3, <1>4 DEF ApiNext

\* The API makes no step of its own: what it does to the engine is a behaviour of
\* the engine, so what is proved of Engine holds of it (mutating.go: the handlers
\* only call Plan, Approve and Execute).
THEOREM ApiRunsTheEngine == ApiSpec => Spec
<1>1. ApiInit => Init
  BY DEF ApiInit
<1> QED BY <1>1, ApiNextIsNext, PTL DEF ApiSpec, Spec

\* So the gate stands behind the API too: no order of requests gets work done but
\* under a grant of its own for exactly that work.
THEOREM ApiImplementsGate == ApiSpec => ImplementsGate
BY ApiRunsTheEngine, EngineImplementsGate, PTL

---------------------------------------------------------------------------
(* The keys.                                                               *)

LEMMA HasLargest ==
    ASSUME NEW n \in Nat, NEW T \in SUBSET (1..n), T # {}
    PROVE  \E i \in T : \A j \in T : j <= i
<1> DEFINE R == OpToRel(<, Nat)
           D == {k \in Nat : k <= n /\ n - k \in T}
<1>1. IsWellFoundedOn(R, Nat)
  BY NatLessThanWellFounded
<1>2. \A j, k \in Nat : k < j => <<k, j>> \in R
  BY DEF OpToRel
<1>3. D \subseteq Nat /\ D # {}
  <2>1. PICK i \in T : TRUE
    OBVIOUS
  <2>2. n - i \in Nat /\ n - i <= n /\ n - (n - i) = i
    BY <2>1
  <2> QED BY <2>1, <2>2
<1>4. PICK k \in D : \A j \in D : <<j, k>> \notin R
  <2> HIDE DEF R, D
  <2> QED BY <1>1, <1>3, WFMin
<1>5. k \in Nat /\ n - k \in T
  OBVIOUS
<1>6. ASSUME NEW i \in T PROVE i <= n - k
  <2>1. n - i \in Nat /\ n - i <= n /\ n - (n - i) = i
    OBVIOUS
  <2>2. <<n - i, k>> \notin R
    BY <1>4, <2>1
  <2>3. ~(n - i < k)
    <3> HIDE DEF R
    <3> QED BY <1>2, <1>5, <2>1, <2>2
  <2> QED BY <1>5, <2>1, <2>3
<1> QED BY <1>5, <1>6

\* The store knows a key by the last entry that lists it.
LEMMA LastEntryHolds ==
    ASSUME NEW raw \in RawKeys
    PROVE  \E i \in DOMAIN KeyEntries :
              /\ KeyStore[raw] = KeyEntries[i]
              /\ KeyEntries[i].raw = raw
              /\ \A j \in (i + 1)..Len(KeyEntries) : KeyEntries[j].raw # raw
<1> DEFINE Last(i) == /\ i \in DOMAIN KeyEntries /\ KeyEntries[i].raw = raw
                      /\ \A j \in DOMAIN KeyEntries : KeyEntries[j].raw = raw => j <= i
           T == {i \in DOMAIN KeyEntries : KeyEntries[i].raw = raw}
<1>1. PICK n \in Nat : n = Len(KeyEntries) /\ DOMAIN KeyEntries = 1..n
  BY ApiAssumption
<1>2. \E i : Last(i)
  <2>1. T \in SUBSET (1..n) /\ T # {}
    BY <1>1 DEF RawKeys
  <2>2. PICK i \in T : \A j \in T : j <= i
    BY <2>1, HasLargest
  <2> QED BY <2>2
<1>3. PICK i : /\ Last(i) /\ KeyStore[raw] = KeyEntries[i]
  BY <1>2 DEF KeyStore
<1>4. i \in DOMAIN KeyEntries /\ KeyEntries[i].raw = raw
  BY <1>3
<1>5. ASSUME NEW j \in (i + 1)..Len(KeyEntries) PROVE KeyEntries[j].raw # raw
  BY <1>1, <1>3
<1> QED BY <1>3, <1>4, <1>5

---------------------------------------------------------------------------
(* What a step of a call does that outlasts the call.                      *)

LEMMA EffectsAre ==
    /\ Effects \in SUBSET Effect
    /\ "stored" \in Effects <=> plans' # plans
    /\ "minted" \in Effects <=> minted' # minted
    /\ "spent" \in Effects <=> \E t \in DOMAIN tokens : tokens'[t] # tokens[t]
    /\ "touched" \in Effects <=> Len(mutations') > Len(mutations)
  BY DEF Effects, Effect

\* One effect at most, and the place of the call tells which.
StepDoes(c) ==
    \/ Hops(c, {"newID"}, {"store"}) /\ Effects = {}
    \/ Hops(c, {"store"}, {"auditPlan"}) /\ Effects = {"stored"}
    \/ Hops(c, {"auditPlan"}, {"idle"}) /\ Effects = {}
    \/ Hops(c, {"mint"}, {"auditApprove"}) /\ Effects = {"minted"}
    \/ Hops(c, {"mint", "auditApprove"}, {"idle"}) /\ Effects = {}
    \/ Hops(c, {"consume"}, {"recheck"}) /\ Effects = {"spent"}
    \/ Hops(c, {"consume"}, {"refuse"}) /\ Effects = {}
    \/ Hops(c, {"recheck"}, {"mutate", "refuse"}) /\ Effects = {}
    \/ Hops(c, {"mutate"}, {"auditExecute"}) /\ Effects = {"touched"}
    \/ Hops(c, {"mutate"}, {"refuse"}) /\ Effects \subseteq {"touched"}
    \/ Hops(c, {"recheck", "mutate"}, {"idle"}) /\ Effects \subseteq {"touched"}
    \/ Hops(c, {"auditExecute"}, {"exeID", "idle"}) /\ Effects = {}
    \/ Hops(c, {"exeID"}, {"idle"}) /\ Effects = {} /\ UNCHANGED <<log, mutations>>
    \/ Hops(c, {"refuse"}, {"idle"}) /\ Effects = {}

LEMMA StepIsMoves ==
    ASSUME TypeOK, TypeOK', NEW c \in Calls, Step(c) \/ Panic(c)
    PROVE  Moves(c) /\ Alone(c) /\ call[c].pc # "idle"
<1>1. Moves(c) /\ Alone(c)
  BY PlanMovesAre, ApproveMovesAre, ExecuteMovesAre DEF Step, Moves
<1>2. call[c].pc # "idle"
  BY DEF Step, Panic, PlanNewID, PlanStore, PlanAudit, ApproveMint, ApproveMintFails,
         ApproveAudit, ExecuteConsume, ExecuteRecheck, ExecuteMutate, ExecuteFails,
         ExecuteAudit, ExecuteReport, Refuse, Goto
<1> QED BY <1>1, <1>2

LEMMA OnlyMintMints ==
    ASSUME TypeOK, NEW c \in Calls, Step(c) \/ Panic(c)
    PROVE  \/ minted' = minted /\ ~Hops(c, {"mint"}, {"auditApprove"})
           \/ ApproveMint(c)
<1>1. CASE ApproveMintFails(c)
  <2>1. call'[c] = Idle /\ minted' = minted
    BY <1>1 DEF ApproveMintFails, Goto, history, TypeOK
  <2> QED BY <2>1, IdleSound DEF Hops
<1>2. CASE ~ApproveMintFails(c)
  BY <1>2 DEF Step, Panic, PlanNewID, PlanStore, PlanAudit,
              ApproveAudit, ExecuteConsume, ExecuteRecheck, ExecuteMutate, ExecuteFails,
              ExecuteAudit, ExecuteReport, Refuse, Goto, history, Hops
<1> QED BY <1>1, <1>2

\* A plan is stored under an id of its own, a token minted and spent once.
LEMMA EffectsByPlace ==
    ASSUME TypeOK, TypeOK', IdsInv, TokensSound, NEW c \in Calls, Step(c) \/ Panic(c)
    PROVE  StepDoes(c)
<1>1. Moves(c) /\ Alone(c) /\ call[c].pc # "idle"
  BY StepIsMoves
<1>2. mutations \in Seq(Mutation) /\ mutations' \in Seq(Mutation)
  BY DEF TypeOK
<1>3. /\ UNCHANGED mutations => ~(Len(mutations') > Len(mutations))
      /\ Touch(c) => Len(mutations') > Len(mutations)
      /\ \A i, r : mutations' = [mutations EXCEPT ![i].row = r] => ~(Len(mutations') > Len(mutations))
  BY <1>2 DEF Touch
<1>4. /\ UNCHANGED <<plans, minted, tokens>> /\ ~(Len(mutations') > Len(mutations)) => Effects = {}
      /\ UNCHANGED <<plans, minted, tokens>> => Effects \subseteq {"touched"}
      /\ UNCHANGED <<plans, minted, tokens>> /\ Len(mutations') > Len(mutations)
            => Effects = {"touched"}
  BY EffectsAre DEF Effect
<1>5. CASE ApproveMint(c)
  <2> DEFINE t == Len(minted) + 1
  <2>1. /\ call[c].pc = "mint" /\ call'[c].pc = "auditApprove"
        /\ UNCHANGED <<plans, mutations>>
        /\ \E record : tokens' = With(tokens, t, record)
        /\ \E m : minted' = Append(minted, m)
    BY <1>1, <1>5 DEF ApproveMint, Goto, Moves, PlanMoves, ApproveMoves, ExecuteMoves, Hops
  <2>2. minted' # minted /\ t \notin DOMAIN minted
    BY <2>1 DEF TypeOK
  <2>3. \A u \in DOMAIN tokens : tokens'[u] = tokens[u]
    BY <2>1, <2>2 DEF With, TokensSound
  <2>4. Effects = {"minted"}
    BY <1>3, <2>1, <2>2, <2>3, EffectsAre DEF Effect
  <2> QED BY <2>1, <2>4 DEF StepDoes, Hops
<1>6. CASE ~ApproveMint(c)
  <2>1. minted' = minted /\ ~Hops(c, {"mint"}, {"auditApprove"})
    BY <1>6, OnlyMintMints
  <2>2. CASE PlanMoves(c)
    <3>1. CASE Hops(c, {"store"}, {"auditPlan"})
      <4>1. /\ plans' = With(plans, call[c].snap.PlanID, call[c].snap)
            /\ UNCHANGED <<tokens, mutations>>
        BY <2>2, <3>1 DEF PlanMoves, Hops
      <4>2. call[c].snap.PlanID \notin DOMAIN plans /\ call[c].snap.PlanID \in DOMAIN plans'
        BY <3>1, <4>1 DEF IdsInv, Hops, With
      <4>3. Effects = {"stored"}
        BY <1>3, <2>1, <4>1, <4>2, EffectsAre DEF Effect
      <4> QED BY <3>1, <4>3 DEF StepDoes
    <3>2. CASE ~Hops(c, {"store"}, {"auditPlan"})
      <4>1. /\ Hops(c, {"newID"}, {"store"}) \/ Hops(c, {"auditPlan"}, {"idle"})
            /\ UNCHANGED <<plans, tokens, mutations>>
        BY <1>1, <2>2, <3>2 DEF PlanMoves, Hops, rest
      <4> QED BY <1>3, <1>4, <2>1, <4>1 DEF StepDoes
    <3> QED BY <3>1, <3>2
  <2>3. CASE ApproveMoves(c)
    <3>1. /\ Hops(c, {"mint", "auditApprove"}, {"idle"})
          /\ UNCHANGED <<plans, tokens, mutations>>
      BY <1>1, <2>1, <2>3 DEF ApproveMoves, Hops, rest
    <3> QED BY <1>3, <1>4, <2>1, <3>1 DEF StepDoes
  <2>4. CASE ExecuteMoves(c)
    <3>1. CASE Hops(c, {"consume"}, {"recheck"})
      <4>1. /\ Acceptable(call[c].tok, call[c].snap.PlanHash)
            /\ tokens' = [tokens EXCEPT ![call[c].tok].consumed = TRUE]
            /\ UNCHANGED <<plans, mutations>>
        BY <2>4, <3>1 DEF ExecuteMoves, Hops
      <4>2. \E u \in DOMAIN tokens : tokens'[u] # tokens[u]
        <5>1. tokens[call[c].tok] \in Token /\ call[c].tok \in DOMAIN tokens
          BY <4>1 DEF Acceptable, TypeOK
        <5>2. tokens'[call[c].tok].consumed /\ ~tokens[call[c].tok].consumed
          BY <4>1, <5>1 DEF Acceptable, Token
        <5> QED BY <5>1, <5>2
      <4>3. Effects = {"spent"}
        BY <1>3, <2>1, <4>1, <4>2, EffectsAre DEF Effect
      <4> QED BY <3>1, <4>3 DEF StepDoes
    <3>2. CASE ~Hops(c, {"consume"}, {"recheck"})
      <4>1. UNCHANGED <<plans, tokens>>
        BY <2>4, <3>2 DEF ExecuteMoves, rest
      <4>2. CASE Hops(c, {"mutate"}, {"auditExecute", "refuse", "idle"})
        <5>1. Hops(c, {"mutate"}, {"auditExecute"}) => Touch(c)
          BY <2>4, <4>2 DEF ExecuteMoves, Hops
        <5>2. Hops(c, {"mutate"}, {"auditExecute"}) => Effects = {"touched"}
          BY <1>3, <1>4, <2>1, <4>1, <5>1
        <5>3. Effects \subseteq {"touched"}
          BY <1>4, <2>1, <4>1
        <5> QED BY <4>2, <5>2, <5>3 DEF StepDoes, Hops
      <4>3. CASE ~Hops(c, {"mutate"}, {"auditExecute", "refuse", "idle"})
        <5>1. \/ Hops(c, {"consume"}, {"refuse"}) /\ UNCHANGED mutations
              \/ Hops(c, {"recheck"}, {"mutate", "refuse"}) /\ UNCHANGED mutations
              \/ Hops(c, {"recheck"}, {"idle"}) /\ (Touch(c) \/ UNCHANGED mutations)
              \/ /\ Hops(c, {"auditExecute"}, {"exeID", "idle"})
                 /\ \/ UNCHANGED mutations
                    \/ mutations' = [mutations EXCEPT ![call[c].mut].row = Len(log')]
              \/ Hops(c, {"exeID"}, {"idle"}) /\ UNCHANGED <<log, mutations>>
              \/ Hops(c, {"refuse"}, {"idle"}) /\ UNCHANGED mutations
          BY <1>1, <2>4, <3>2, <4>3 DEF ExecuteMoves, Hops, rest
        <5>2. Hops(c, {"recheck"}, {"idle"}) \/ Effects = {}
          BY <1>3, <1>4, <2>1, <4>1, <5>1
        <5>3. Effects \subseteq {"touched"}
          BY <1>4, <2>1, <4>1
        <5> QED BY <5>1, <5>2, <5>3 DEF StepDoes, Hops
      <4> QED BY <4>2, <4>3
    <3> QED BY <3>1, <3>2
  <2> QED BY <1>1, <2>2, <2>3, <2>4 DEF Moves
<1> QED BY <1>5, <1>6

\* A call works on with the plan of the key that proposed it.
LEMMA ProposerStays ==
    ASSUME TypeOK, TypeOK', NEW c \in Calls, Step(c) \/ Panic(c)
    PROVE  /\ call'[c].pc # "idle" => call'[c].snap.Proposer = call[c].snap.Proposer
           /\ plans' = plans \/ plans' = With(plans, call[c].snap.PlanID, call[c].snap)
<1>0. call[c] \in Call /\ call[c].snap \in Stored /\ call \in [Calls -> Call] /\ Idle.pc = "idle"
  BY IdleSound DEF TypeOK, Call
<1>1. plans' = plans \/ plans' = With(plans, call[c].snap.PlanID, call[c].snap)
  BY StepIsMoves DEF Moves, PlanMoves, ApproveMoves, ExecuteMoves, rest
<1>2. call'[c].pc # "idle" => call'[c].snap.Proposer = call[c].snap.Proposer
  <2>1. CASE PlanNewID(c)
    <3>1. call'[c] = [call[c] EXCEPT !.pc = "store", !.snap.PlanID = idseq + 1]
      BY <1>0, <2>1 DEF PlanNewID, Goto
    <3> QED BY <1>0, <3>1 DEF Call, Stored
  <2>2. CASE ExecuteAudit(c)
    <3>1. call'[c] = [call[c] EXCEPT !.pc = "exeID"] \/ call'[c] = Idle
      BY <1>0, <2>2 DEF ExecuteAudit, Goto
    <3> QED BY <1>0, <3>1 DEF Call
  <2>3. CASE PlanStore(c) \/ ApproveMint(c)
    <3>1. \/ call'[c] = [call[c] EXCEPT !.pc = "auditPlan"]
          \/ call'[c] = [call[c] EXCEPT !.pc = "auditApprove", !.tok = Len(minted) + 1]
      BY <1>0, <2>3 DEF PlanStore, ApproveMint, Goto
    <3> QED BY <1>0, <3>1 DEF Call
  <2>4. CASE ExecuteConsume(c)
    <3>1. \/ call'[c] = [call[c] EXCEPT !.pc = "recheck", !.actor = tokens[call[c].tok].approver]
          \/ call'[c] = [call[c] EXCEPT !.pc = "refuse"]
      BY <1>0, <2>4 DEF ExecuteConsume, Goto
    <3> QED BY <1>0, <3>1 DEF Call
  <2>5. CASE ExecuteRecheck(c)
    <3>1. PICK pc, r : call'[c] = [call[c] EXCEPT !.pc = pc, !.reach = r]
      BY <1>0, <2>5 DEF ExecuteRecheck, Goto
    <3> QED BY <1>0, <3>1 DEF Call
  <2>6. CASE ExecuteMutate(c) \/ ExecuteFails(c)
    <3>1. \/ call'[c] = [call[c] EXCEPT !.pc = "auditExecute", !.mut = Len(mutations) + 1]
          \/ call'[c] = [call[c] EXCEPT !.pc = "refuse"]
      BY <1>0, <2>6 DEF ExecuteMutate, ExecuteFails, Goto
    <3> QED BY <1>0, <3>1 DEF Call
  <2>7. CASE PlanAudit(c) \/ ApproveMintFails(c) \/ ApproveAudit(c) \/ ExecuteReport(c) \/ Refuse(c) \/ Panic(c)
    <3>1. call'[c] = Idle
      BY <1>0, <2>7 DEF PlanAudit, ApproveMintFails, ApproveAudit, ExecuteReport, Refuse, Panic, Goto
    <3> QED BY <1>0, <3>1
  <2> QED BY <2>1, <2>2, <2>3, <2>4, <2>5, <2>6, <2>7 DEF Step
<1> QED BY <1>1, <1>2

---------------------------------------------------------------------------
(* The invariant.                                                          *)

\* The codes tell the answers apart.
LEMMA CodesDiffer ==
    /\ \A code \in AnswerCodes :
          /\ code[1] = 200 <=> code = OK
          /\ code[1] = 404 <=> code = NotFound
          /\ code[1] \in 400..499 => code \notin {OK, ExecutionFailed, InternalError}
    /\ OK \notin RefusalCodes /\ NotFound \notin RefusalCodes /\ NotFound # OK
    /\ TokenInvalid \notin {OverBoundNow, Unresolvable, OK, ExecutionFailed, InternalError}
    /\ InternalError # OK
    /\ {BadRequest, NotFound, OK, InternalError} \subseteq AnswerCodes
    /\ RefusalCodes \subseteq AnswerCodes
    /\ \A code \in AnswerCodes : code # << >>
<1> USE DEF OK, BadRequest, MalformedBound, SodViolation, NotFound,
            TokenInvalid, OverBoundNow, OverBound, Unresolvable, ExecutionFailed, InternalError
<1>1. ASSUME NEW code \in AnswerCodes
      PROVE  /\ code[1] = 200 <=> code = OK
             /\ code[1] = 404 <=> code = NotFound
             /\ code[1] \in 400..499 => code \notin {OK, ExecutionFailed, InternalError}
  <2>1. code \in {<<200, "ok">>, <<400, "bad_request">>, <<400, "malformed_bound">>,
                 <<403, "sod_violation">>, <<404, "not_found">>, <<409, "token_invalid">>,
                 <<409, "over_bound">>, <<422, "over_bound">>, <<422, "unresolvable_target">>,
                 <<500, "execution_failed">>, <<500, "internal_error">>}
    BY DEF AnswerCodes, RefusalCodes
  <2> QED BY <2>1
<1>2. OK \notin RefusalCodes /\ NotFound \notin RefusalCodes /\ NotFound # OK
  <2>1. \A code \in RefusalCodes : code[1] \notin {200, 404}
    BY DEF RefusalCodes
  <2>2. OK[1] = 200 /\ NotFound[1] = 404
    OBVIOUS
  <2> QED BY <2>1, <2>2
<1>3. TokenInvalid \notin {OverBoundNow, Unresolvable, OK, ExecutionFailed, InternalError} /\ InternalError # OK
  <2>1. /\ TokenInvalid[1] = 409 /\ TokenInvalid[2] = "token_invalid"
        /\ Unresolvable[1] = 422 /\ OverBoundNow[2] = "over_bound"
        /\ ExecutionFailed[1] = 500 /\ InternalError[1] = 500 /\ OK[1] = 200
    OBVIOUS
  <2> QED BY <2>1
<1>4. {BadRequest, NotFound, OK, InternalError} \subseteq AnswerCodes /\ RefusalCodes \subseteq AnswerCodes
  BY DEF AnswerCodes, RefusalCodes
<1>5. \A code \in AnswerCodes : code # << >>
  <2>1. \A code \in AnswerCodes : Len(code) = 2
    BY DEF AnswerCodes, RefusalCodes
  <2> QED BY <2>1
<1> QED BY <1>1, <1>2, <1>3, <1>4, <1>5

LEMMA NotAskedType == NotAsked \in AskedCall
<1>1. NoKey \in Bearers
  BY DEF Bearers
<1>2. InternalError \in RefusalCodes
  BY DEF RefusalCodes
<1> QED BY <1>1, <1>2 DEF NotAsked, AskedCall

LEMMA ApiInitSound == ApiInit => ApiIInv
<1> SUFFICES ASSUME ApiInit PROVE ApiIInv
  OBVIOUS
<1>1. \A c \in Calls : call[c].pc = "idle"
  BY IdleSound DEF ApiInit, Init
<1>2. DOMAIN plans = {}
  BY DEF ApiInit, Init
<1>3. asked \in [Calls -> AskedCall]
  <2>1. NotAsked \in AskedCall
    BY NotAskedType
  <2> QED BY <2>1 DEF ApiInit
<1> QED BY <1>1, <1>2, <1>3 DEF ApiInit, ApiIInv, KeysSound, DoneSoFar, DoneAndRefused

\* A message is taken up.
LEMMA TakingUpIsSound ==
    ASSUME TypeOK, ApiIInv, NEW c \in Calls, NEW m \in Admitted, NEW code \in RefusalCodes,
           TakenUp(c, m, code), Alone(c), plans' = plans,
           call'[c].pc \in {"newID", "mint", "consume", "refuse"},
           Proposed(call'[c].snap),
           call'[c].pc = "consume" => code = TokenInvalid /\ WithKey(m, Scope.operator),
           call'[c].pc = "refuse" => code \in {MalformedBound, Unresolvable, TokenInvalid,
                                               OverBound, SodViolation}
    PROVE  ApiIInv'
<1>1. \A d \in Calls : d # c => call'[d] = call[d] /\ asked'[d] = asked[d]
  BY DEF Alone, TakenUp
<1>2. asked'[c].bearer = m.bearer /\ asked'[c].code = code /\ asked'[c].did = {}
  BY DEF TakenUp, ApiIInv, NotAsked
<1>3. (asked \in [Calls -> AskedCall])'
  <2>1. m.bearer \in Bearers
    BY AdmittedIsSound DEF Bearers
  <2>2. [NotAsked EXCEPT !.bearer = m.bearer, !.code = code] \in AskedCall
    BY <2>1 DEF NotAsked, AskedCall
  <2> QED BY <2>2 DEF TakenUp, ApiIInv
<1>4. KeysSound'
  BY <1>1, <1>2 DEF ApiIInv, KeysSound, WithKey
<1>5. ASSUME NEW d \in Calls PROVE (DoneSoFar(d) /\ DoneAndRefused(d))'
  BY <1>1, <1>2 DEF ApiIInv, DoneSoFar, DoneAndRefused
<1>6. answer' = NoAnswer
  BY DEF TakenUp
<1> QED BY <1>3, <1>4, <1>5, <1>6 DEF ApiIInv

LEMMA PlansRequestIsSound ==
    ASSUME TypeOK, TypeOK', ApiIInv, NEW c \in Calls, NEW m \in Admitted,
           m.route = "plans", Plans(c, m)
    PROVE  ApiIInv' \/ (TurnedDown(c, BadRequest))
<1>1. PICK req \in Requests :
         /\ req.ProposerKeyID = KeyStore[m.bearer].id
         /\ \/ TurnedDown(c, BadRequest)
            \/ /\ PlanRefused(c, req) \/ PlanResolved(c, req)
               /\ \E code \in {Unresolvable, MalformedBound} : TakenUp(c, m, code)
  BY DEF Plans
<1>2. CASE TurnedDown(c, BadRequest)
  BY <1>2
<1>3. CASE ~TurnedDown(c, BadRequest)
  <2>1. PICK code \in {Unresolvable, MalformedBound} : TakenUp(c, m, code)
    BY <1>1, <1>3
  <2>2. code \in RefusalCodes
    BY DEF RefusalCodes
  <2>3. Alone(c) /\ plans' = plans
    BY <1>1, <1>3, PlanMovesAre DEF PlanRefused, PlanResolved, engine
  <2>4. call'[c].pc \in {"newID", "refuse"} /\ call'[c].snap.Proposer = req.ProposerKeyID
    <3>0. call \in [Calls -> Call]
      BY DEF TypeOK
    <3>1. CASE PlanRefused(c, req)
      <4>1. call'[c] = [Idle EXCEPT !.pc = "refuse", !.snap.Proposer = req.ProposerKeyID]
        BY <3>0, <3>1 DEF PlanRefused, Begin
      <4> QED BY <4>1 DEF Idle, NoStored
    <3>2. CASE PlanResolved(c, req)
      <4>1. PICK reach, target :
               call'[c] = [Idle EXCEPT !.pc = "newID", !.snap = NewPlan(req, reach, target),
                                       !.reach = reach]
        BY <3>0, <3>2 DEF PlanResolved, Begin
      <4>2. NewPlan(req, reach, target).Proposer = req.ProposerKeyID
        BY DEF NewPlan
      <4> QED BY <4>1, <4>2 DEF Idle
    <3> QED BY <1>1, <1>3, <3>1, <3>2
  <2>5. Proposed(call'[c].snap)
    <3>1. m.bearer \in RawKeys /\ KeyStore[m.bearer].scope >= Scope.orchestrator
      BY AdmittedIsSound DEF WithKey
    <3>2. PICK i \in DOMAIN KeyEntries : KeyStore[m.bearer] = KeyEntries[i]
      BY <3>1, LastEntryHolds
    <3> QED BY <1>1, <2>4, <3>1, <3>2 DEF Proposed
  <2> QED BY <2>1, <2>2, <2>3, <2>4, <2>5, TakingUpIsSound
<1> QED BY <1>2, <1>3

LEMMA ApprovalsRequestIsSound ==
    ASSUME TypeOK, TypeOK', ApiIInv, NEW c \in Calls, NEW m \in Admitted,
           m.route = "approvals", Approvals(c, m)
    PROVE  \/ ApiIInv'
           \/ NotStored(c)
<1>1. SUFFICES ASSUME ~NotStored(c)
               PROVE  ApiIInv'
  OBVIOUS
<1>2. PICK id \in DOMAIN plans : \E hash \in {plans[id].PlanHash, NoHash} :
         /\ ApproveCheck(c, id, hash, m.human)
         /\ \E code \in {TokenInvalid, OverBound, SodViolation} : TakenUp(c, m, code)
  BY <1>1 DEF Approvals
<1>3. PICK hash \in {plans[id].PlanHash, NoHash} :
         /\ ApproveCheck(c, id, hash, m.human)
         /\ \E code \in {TokenInvalid, OverBound, SodViolation} : TakenUp(c, m, code)
  BY <1>2
<1>4. ApiIInv'
  <2>1. PICK code \in {TokenInvalid, OverBound, SodViolation} : TakenUp(c, m, code)
    BY <1>3
  <2>2. code \in RefusalCodes
    BY DEF RefusalCodes
  <2>3. Alone(c) /\ plans' = plans
    BY <1>3, ApproveMovesAre, AdmittedIsSound DEF ApproveCheck, engine
  <2>4. \E pc \in {"mint", "refuse"} : \E reach :
           call' = [call EXCEPT ![c] = [Idle EXCEPT !.pc = pc, !.snap = plans[id],
                                                    !.actor = m.human, !.reach = reach]]
    BY <1>3 DEF ApproveCheck, Begin
  <2>5. call'[c].pc \in {"mint", "refuse"} /\ call'[c].snap = plans[id]
    BY <2>4 DEF Idle, TypeOK
  <2>6. Proposed(call'[c].snap)
    BY <2>5 DEF ApiIInv, KeysSound
  <2> QED BY <2>1, <2>2, <2>3, <2>5, <2>6, TakingUpIsSound
<1> QED BY <1>4

LEMMA ExecutionsRequestIsSound ==
    ASSUME TypeOK, TypeOK', ApiIInv, NEW c \in Calls, NEW m \in Admitted,
           m.route = "executions", Executions(c, m)
    PROVE  \/ ApiIInv'
           \/ NotStored(c)
<1>1. SUFFICES ASSUME ~NotStored(c)
               PROVE  ApiIInv'
  OBVIOUS
<1>2. PICK id \in DOMAIN plans, t \in handed \cup {0} :
         ExecuteLookup(c, id, t) /\ TakenUp(c, m, TokenInvalid)
  BY <1>1 DEF Executions
<1>3. ApiIInv'
  <2>1. TokenInvalid \in RefusalCodes
    BY DEF RefusalCodes
  <2>2. Alone(c) /\ plans' = plans
    BY <1>2, ExecuteMovesAre DEF ExecuteLookup, engine
  <2>3. call'[c] = [Idle EXCEPT !.pc = "consume", !.snap = plans[id], !.tok = t,
                                !.reach = plans[id].Tuple.ComputedReach]
    BY <1>2 DEF ExecuteLookup, Begin, TypeOK
  <2>4. call'[c].pc = "consume" /\ call'[c].snap = plans[id]
    BY <2>3 DEF Idle
  <2>5. Proposed(call'[c].snap)
    BY <1>2, <2>4 DEF ExecuteLookup, ApiIInv, KeysSound
  <2>6. WithKey(m, Scope.operator)
    BY AdmittedIsSound
  <2> QED BY <1>2, <2>1, <2>2, <2>4, <2>5, <2>6, TakingUpIsSound
<1> QED BY <1>3

LEMMA RefusalCodeIs ==
    ASSUME NEW c \in Calls
    PROVE  /\ call[c].pc = "recheck" => RefusalCode(c) \in {OverBoundNow, Unresolvable}
           /\ call[c].pc = "mutate" => RefusalCode(c) = ExecutionFailed
           /\ call[c].pc \notin {"recheck", "mutate"} => RefusalCode(c) = asked[c].code
  BY DEF RefusalCode

LEMMA AnswerCodeIs ==
    ASSUME NEW c \in Calls
    PROVE  /\ call[c].pc = "refuse" => AnswerCode(c) = asked[c].code
           /\ call[c].pc \in {"auditPlan", "exeID"} => AnswerCode(c) = OK
           /\ call[c].pc = "auditApprove" => AnswerCode(c) \in {OK, InternalError}
           /\ call[c].pc \notin {"refuse", "auditPlan", "exeID", "auditApprove"}
                 => AnswerCode(c) = InternalError
  BY DEF AnswerCode

\* The call goes on: it has done what its new place says.
LEMMA GoingOnIsSound ==
    ASSUME TypeOK, TypeOK', IdsInv, TokensSound, ApiIInv,
           NEW c \in Calls, ApiStep(c), call'[c].pc # "idle"
    PROVE  ApiIInv'
<1>0. asked[c] \in AskedCall /\ asked \in [Calls -> AskedCall]
  BY DEF ApiIInv
<1>1. /\ Step(c) \/ Panic(c)
      /\ asked' = [asked EXCEPT ![c].did = asked[c].did \cup Effects, ![c].code = RefusalCode(c)]
      /\ answer' = NoAnswer
  BY DEF ApiStep
<1>2. StepDoes(c) /\ Alone(c)
  BY <1>1, EffectsByPlace, StepIsMoves
<1>3. /\ asked'[c] = [asked[c] EXCEPT !.did = asked[c].did \cup Effects, !.code = RefusalCode(c)]
      /\ \A d \in Calls : d # c => asked'[d] = asked[d] /\ call'[d] = call[d]
  BY <1>0, <1>1, <1>2 DEF Alone
<1>4. /\ asked'[c].bearer = asked[c].bearer
      /\ asked'[c].did = asked[c].did \cup Effects
      /\ asked'[c].code = RefusalCode(c)
  BY <1>0, <1>3 DEF AskedCall
<1>5. (asked \in [Calls -> AskedCall])'
  <2>1. RefusalCode(c) \in RefusalCodes
    BY <1>0, RefusalCodeIs DEF AskedCall, RefusalCodes
  <2>2. asked[c].did \cup Effects \in SUBSET Effect
    BY <1>0, EffectsAre DEF AskedCall
  <2>3. asked'[c] \in AskedCall
    BY <1>0, <1>3, <2>1, <2>2 DEF AskedCall
  <2> QED BY <1>0, <1>1, <2>3
<1>6. KeysSound'
  <2>1. call[c].pc # "idle" /\ Proposed(call[c].snap)
    BY <1>1, StepIsMoves DEF ApiIInv, KeysSound
  <2>2. \A id \in DOMAIN plans' : Proposed(plans'[id])
    <3>1. plans' = plans \/ plans' = With(plans, call[c].snap.PlanID, call[c].snap)
      BY <1>1, ProposerStays
    <3>2. \A id \in DOMAIN plans : Proposed(plans[id])
      BY DEF ApiIInv, KeysSound
    <3> QED BY <2>1, <3>1, <3>2 DEF With
  <2>3. Proposed(call'[c].snap)
    BY <1>1, <2>1, ProposerStays DEF Proposed
  <2>4. call'[c].pc \in {"consume", "recheck", "mutate"} => call[c].pc \in {"consume", "recheck", "mutate"}
    BY <1>2 DEF StepDoes, Hops
  <2> QED BY <1>3, <1>4, <2>2, <2>3, <2>4 DEF ApiIInv, KeysSound, WithKey
<1>7. DoneSoFar(c)' /\ DoneAndRefused(c)'
  <2>1. DoneSoFar(c) /\ DoneAndRefused(c)
    BY DEF ApiIInv
  <2>2. DoneSoFar(c)'
    BY <1>2, <1>4, <2>1 DEF DoneSoFar, StepDoes, Hops
  <2>3. call'[c].pc # "consume"
    BY <1>2 DEF StepDoes, Hops
  <2>4. CASE call'[c].pc = "refuse"
    <3>1. \/ call[c].pc = "consume" /\ Effects = {}
          \/ call[c].pc = "recheck" /\ Effects = {}
          \/ call[c].pc = "mutate"
      BY <1>2, <2>4 DEF StepDoes, Hops
    <3> QED BY <1>4, <2>1, <2>4, <3>1, RefusalCodeIs DEF DoneSoFar, DoneAndRefused
  <2> QED BY <2>2, <2>3, <2>4 DEF DoneAndRefused
<1>8. ASSUME NEW d \in Calls, d # c PROVE DoneSoFar(d)' /\ DoneAndRefused(d)'
  BY <1>3, <1>8 DEF ApiIInv, DoneSoFar, DoneAndRefused
<1> QED BY <1>1, <1>5, <1>6, <1>7, <1>8 DEF ApiIInv

\* The call is answered.
LEMMA AnsweringIsSound ==
    ASSUME TypeOK, TypeOK', IdsInv, TokensSound, RowsInv, ApiIInv,
           NEW c \in Calls, ApiStep(c), call'[c].pc = "idle"
    PROVE  ApiIInv' /\ AnswersAreTrue' /\ answer'.code # NotFound
<1>0. asked[c] \in AskedCall /\ asked \in [Calls -> AskedCall]
  BY DEF ApiIInv
<1>1. /\ Step(c) \/ Panic(c)
      /\ answer' = [NoAnswer EXCEPT !.code = AnswerCode(c), !.did = asked[c].did \cup Effects,
                                    !.mut = call[c].mut]
      /\ asked' = [asked EXCEPT ![c] = NotAsked]
  BY DEF ApiStep
<1>a. /\ answer'.code = AnswerCode(c) /\ answer'.did = asked[c].did \cup Effects
      /\ answer'.mut = call[c].mut
  BY <1>1 DEF NoAnswer
<1>2. StepDoes(c) /\ Alone(c) /\ call[c].pc # "idle"
  BY <1>1, EffectsByPlace, StepIsMoves
<1>3. AnswerCode(c) \in RefusalCodes \cup {OK}
  BY <1>0, AnswerCodeIs DEF AskedCall, RefusalCodes
<1>4. ApiIInv'
  <2>1. \A d \in Calls : d # c => asked'[d] = asked[d] /\ call'[d] = call[d]
    BY <1>0, <1>1, <1>2 DEF Alone
  <2>2. (asked \in [Calls -> AskedCall])'
    BY <1>0, <1>1, NotAskedType
  <2>3. \A id \in DOMAIN plans' : Proposed(plans'[id])
    <3>1. plans' = plans \/ plans' = With(plans, call[c].snap.PlanID, call[c].snap)
      BY <1>1, ProposerStays
    <3>2. Proposed(call[c].snap) /\ \A id \in DOMAIN plans : Proposed(plans[id])
      BY <1>2 DEF ApiIInv, KeysSound
    <3> QED BY <3>1, <3>2 DEF With
  <2>4. KeysSound'
    BY <2>1, <2>3 DEF ApiIInv, KeysSound, WithKey
  <2>5. \A d \in Calls : (DoneSoFar(d) /\ DoneAndRefused(d))'
    BY <2>1 DEF ApiIInv, DoneSoFar, DoneAndRefused
  <2>6. answer'.code \in AnswerCodes
    BY <1>1, <1>3 DEF AnswerCodes
  <2> QED BY <2>2, <2>4, <2>5, <2>6 DEF ApiIInv
<1>5. AnswersAreTrue'
  <2> DEFINE did == asked[c].did \cup Effects
  <2>0. PICK h : h = call[c].mut
    OBVIOUS
  <2>1. DoneSoFar(c) /\ DoneAndRefused(c)
    BY DEF ApiIInv
  <2>2. \/ call[c].pc = "auditPlan" /\ did = {"stored"}
        \/ call[c].pc \in {"mint", "recheck", "mutate", "auditExecute"}
        \/ call[c].pc = "auditApprove" /\ did = {"minted"}
        \/ /\ call[c].pc = "exeID" /\ did = {"spent", "touched"}
           /\ UNCHANGED <<log, mutations>>
        \/ call[c].pc = "refuse" /\ did = asked[c].did
    BY <1>2, <2>1 DEF StepDoes, Hops, DoneSoFar
  <2> HIDE DEF did
  <2>3. /\ answer'.code = AnswerCode(c) /\ answer'.did = did /\ answer'.mut = h
        /\ Status' = AnswerCode(c)[1] /\ AnswerCode(c) \in AnswerCodes
    <3>1. AnswerCode(c) \in AnswerCodes /\ AnswerCode(c) # << >>
      BY <1>3, CodesDiffer
    <3> QED BY <1>1, <2>0, <3>1 DEF did, NoAnswer, Status
  <2>4. AnswerCode(c) = OK =>
           \/ did = {"stored"} \/ did = {"minted"}
           \/ /\ did = {"spent", "touched"}
              /\ \E r \in DOMAIN log' : log'[r].Event = "execute" /\ Records(r, h)'
    <3>1. AnswerCode(c) = OK => call[c].pc \in {"auditPlan", "auditApprove", "exeID"}
      BY <1>0, <2>2, AnswerCodeIs, CodesDiffer DEF AskedCall
    <3>2. CASE call[c].pc = "exeID"
      <4>1. PICK r : r \in DOMAIN log /\ log[r].Event = "execute" /\ Records(r, h)
        BY <2>0, <3>2 DEF RowsInv, RowsTold, WritersSound
      <4> QED BY <2>2, <3>2, <4>1 DEF Records
    <3> QED BY <2>2, <3>1, <3>2
  <2>5. AnswerCode(c) \notin {OK, ExecutionFailed, InternalError} =>
           /\ did \subseteq {"spent"}
           /\ AnswerCode(c) = TokenInvalid => did = {}
    <3>1. AnswerCode(c) \notin {OK, InternalError} => call[c].pc = "refuse" /\ AnswerCode(c) = asked[c].code
      BY <2>2, AnswerCodeIs
    <3> QED BY <2>1, <2>2, <3>1, CodesDiffer DEF DoneAndRefused
  <2>6. /\ Status' = 200 => AnswerCode(c) = OK
        /\ Status' \in 400..499 => AnswerCode(c) \notin {OK, ExecutionFailed, InternalError}
        /\ AnswerCode(c) # NotFound /\ TokenInvalid \notin {OK, ExecutionFailed, InternalError}
    BY <1>3, <2>3, CodesDiffer
  <2> QED BY <2>3, <2>4, <2>5, <2>6 DEF AnswersAreTrue
<1>6. answer'.code # NotFound
  BY <1>1, <1>3, CodesDiffer
<1> QED BY <1>4, <1>5, <1>6

\* The call was never taken up.
LEMMA TurningDownIsSound ==
    ASSUME ApiIInv, NEW code \in {BadRequest, NotFound},
           answer'.code = code, answer'.did = {}, UNCHANGED <<vars, asked>>
    PROVE  /\ ApiIInv' /\ AnswersAreTrue'
           /\ Status' = 404 => code = NotFound
<1>1. /\ code \in AnswerCodes /\ answer'.code = code /\ answer'.did = {}
      /\ UNCHANGED <<vars, asked>>
  BY CodesDiffer
<1>2. ApiIInv'
  BY <1>1 DEF vars, engine, ApiIInv, KeysSound, WithKey, DoneSoFar, DoneAndRefused
<1>3. answer' # NoAnswer /\ Status' = code[1]
  BY <1>1, CodesDiffer DEF NoAnswer, Status
<1>4. code # OK
  BY DEF BadRequest, NotFound, OK
<1>5. AnswersAreTrue'
  BY <1>1, <1>3, <1>4, CodesDiffer DEF AnswersAreTrue
<1> QED BY <1>1, <1>2, <1>3, <1>5, CodesDiffer

\* A step that answers nobody.
LEMMA SilenceIsSound ==
    ASSUME answer' = NoAnswer
    PROVE  AnswersAreTrue' /\ NotFoundOnlyAfterRestart'
<1>1. Status' = 0
  BY DEF Status
<1>2. answer'.code = << >>
  BY DEF NoAnswer
<1>3. TokenInvalid # << >> /\ NotFound # << >>
  BY CodesDiffer DEF AnswerCodes, RefusalCodes
<1> QED BY <1>1, <1>2, <1>3 DEF AnswersAreTrue, NotFoundOnlyAfterRestart

ApiSound == ApiIInv /\ AnswersAreTrue /\ NotFoundOnlyAfterRestart

LEMMA ApiRequestSound ==
    ASSUME TypeOK, TypeOK', IdsInv, ApiSound, NEW c \in Calls, ApiRequest(c)
    PROVE  ApiSound'
<1>1. PICK m \in Admitted : \/ m.route = "plans" /\ Plans(c, m)
                            \/ m.route = "approvals" /\ Approvals(c, m)
                            \/ m.route = "executions" /\ Executions(c, m)
  BY DEF ApiRequest
<1>2. \/ ApiIInv'
      \/ TurnedDown(c, BadRequest)
      \/ NotStored(c)
  BY <1>1, PlansRequestIsSound, ApprovalsRequestIsSound, ExecutionsRequestIsSound DEF ApiSound
<1>3. \/ answer' = NoAnswer
      \/ TurnedDown(c, BadRequest)
      \/ NotStored(c)
  <2>1. CASE Plans(c, m)
    BY <2>1 DEF Plans, TakenUp
  <2>2. CASE Approvals(c, m)
    BY <2>2 DEF Approvals, TakenUp
  <2>3. CASE Executions(c, m)
    BY <2>3 DEF Executions, TakenUp
  <2> QED BY <1>1, <2>1, <2>2, <2>3
<1>4. CASE TurnedDown(c, BadRequest)
  <2>1. BadRequest # NotFound
    BY DEF BadRequest, NotFound
  <2>2. answer'.code = BadRequest /\ answer'.did = {} /\ UNCHANGED <<vars, asked>>
    BY <1>4 DEF TurnedDown, NoAnswer
  <2> QED BY <2>1, <2>2, TurningDownIsSound DEF ApiSound, NotFoundOnlyAfterRestart
<1>5. CASE NotStored(c)
  <2>1. answer'.known => crashes # 0
    BY <1>5 DEF NotStored, NoAnswer, IdsInv
  <2>2. crashes' = crashes /\ crashes \in Nat
    BY <1>5 DEF NotStored, vars, world, TypeOK
  <2>3. ApiIInv' /\ AnswersAreTrue'
    <3>1. answer'.code = NotFound /\ answer'.did = {} /\ UNCHANGED <<vars, asked>>
      BY <1>5 DEF NotStored, NoAnswer
    <3> QED BY <3>1, TurningDownIsSound DEF ApiSound
  <2> QED BY <2>1, <2>2, <2>3 DEF ApiSound, NotFoundOnlyAfterRestart
<1>6. CASE answer' = NoAnswer /\ ApiIInv'
  BY <1>6, SilenceIsSound DEF ApiSound
<1> QED BY <1>2, <1>3, <1>4, <1>5, <1>6

LEMMA ApiStepSound ==
    ASSUME TypeOK, TypeOK', IdsInv, TokensSound, RowsInv, ApiSound,
           NEW c \in Calls, ApiStep(c)
    PROVE  ApiSound'
<1>1. CASE call'[c].pc = "idle"
  <2>1. ApiIInv' /\ AnswersAreTrue' /\ answer'.code # NotFound
    BY <1>1, AnsweringIsSound DEF ApiSound
  <2>2. Status' # 404
    BY <2>1, CodesDiffer DEF ApiIInv, Status
  <2> QED BY <2>1, <2>2 DEF ApiSound, NotFoundOnlyAfterRestart
<1>2. CASE call'[c].pc # "idle"
  BY <1>2, GoingOnIsSound, SilenceIsSound DEF ApiSound, ApiStep
<1> QED BY <1>1, <1>2

LEMMA ApiEnvironmentSound ==
    ASSUME TypeOK, TypeOK', ApiSound, ApiEnvironment
    PROVE  ApiSound'
<1>1. answer' = NoAnswer
  BY DEF ApiEnvironment
<1>2. CASE Crash
  <2>1. (\A c \in Calls : call[c].pc = "idle")' /\ DOMAIN plans' = {}
    BY <1>2, IdleSound DEF Crash
  <2>2. (asked \in [Calls -> AskedCall])'
    <3>1. crashes' # crashes
      BY <1>2 DEF Crash, TypeOK
    <3> QED BY <3>1, NotAskedType DEF ApiEnvironment
  <2> QED BY <1>1, <2>1, <2>2, SilenceIsSound
          DEF ApiSound, ApiIInv, KeysSound, DoneSoFar, DoneAndRefused
<1>3. CASE ChangeTopology \/ Tick
  <2>1. UNCHANGED <<plans, call, asked>>
    BY <1>3 DEF ChangeTopology, Tick, engine, ApiEnvironment
  <2> QED BY <1>1, <2>1, SilenceIsSound
          DEF ApiSound, ApiIInv, KeysSound, WithKey, DoneSoFar, DoneAndRefused
<1> QED BY <1>2, <1>3 DEF ApiEnvironment, Environment

LEMMA ApiNextSound ==
    TypeOK /\ TypeOK' /\ IdsInv /\ IInv /\ RowsInv /\ ApiSound /\ [ApiNext]_apiVars => ApiSound'
<1> SUFFICES ASSUME TypeOK, TypeOK', IdsInv, IInv, RowsInv, ApiSound, [ApiNext]_apiVars
             PROVE  ApiSound'
  OBVIOUS
<1>1. CASE UNCHANGED apiVars
  BY <1>1 DEF apiVars, vars, engine, world, history, ApiSound, ApiIInv, KeysSound, WithKey, DoneSoFar,
              DoneAndRefused, AnswersAreTrue, NotFoundOnlyAfterRestart, Status, Records
<1>2. CASE ApiNext
  BY <1>2, ApiRequestSound, ApiStepSound, ApiEnvironmentSound DEF ApiNext, IInv
<1> QED BY <1>1, <1>2

LEMMA ApiSoundHolds == ApiSpec => []ApiSound
<1>1. ApiInit => ApiSound
  <2>1. ApiInit => AnswersAreTrue /\ NotFoundOnlyAfterRestart
    <3>1. TokenInvalid # << >> /\ NotFound # << >>
      BY CodesDiffer DEF AnswerCodes, RefusalCodes
    <3> QED BY <3>1 DEF ApiInit, AnswersAreTrue, NotFoundOnlyAfterRestart, Status, NoAnswer
  <2> QED BY <2>1, ApiInitSound DEF ApiSound
<1> QED BY <1>1, ApiNextSound, ApiRunsTheEngine, TypeCorrect, IdsHold, InvariantHolds, RowsHold, PTL
        DEF ApiSpec

\* Each call was let in with the key it needs, and has done what its place and its
\* answer to come say it has.
THEOREM ApiInvariantHolds == ApiSpec => []ApiIInv
<1>1. ApiSound => ApiIInv
  BY DEF ApiSound
<1> QED BY <1>1, ApiSoundHolds, PTL

\* What a client is told is true of the world, whatever the calls, the fleet, the
\* sink and the restarts do between its request and its answer.
THEOREM AnswersAreAlwaysTrue == ApiSpec => []AnswersAreTrue
<1>1. ApiSound => AnswersAreTrue
  BY DEF ApiSound
<1> QED BY <1>1, ApiSoundHolds, PTL

\* A plan that was shown is found again until the process is restarted.
THEOREM NotFoundNeedsARestart == ApiSpec => []NotFoundOnlyAfterRestart
<1>1. ApiSound => NotFoundOnlyAfterRestart
  BY DEF ApiSound
<1> QED BY <1>1, ApiSoundHolds, PTL

\* The actuator runs for a key whose last entry has operator scope, on a plan that
\* an orchestrator's key proposed.
THEOREM OperatorsAloneExecute == ApiSpec => []OnlyOperatorsExecute
<1>1. ApiSound => OnlyOperatorsExecute
  <2> SUFFICES ASSUME ApiSound, NEW c \in Calls, call[c].pc = "mutate"
               PROVE  /\ \E i \in DOMAIN KeyEntries :
                            /\ KeyEntries[i].raw = asked[c].bearer
                            /\ KeyEntries[i].scope = Scope.operator
                            /\ \A j \in (i + 1)..Len(KeyEntries) :
                                  KeyEntries[j].raw # asked[c].bearer
                      /\ Proposed(call[c].snap)
    BY DEF OnlyOperatorsExecute, Proposed
  <2>1. WithKey(asked[c], Scope.operator) /\ Proposed(call[c].snap)
    BY DEF ApiSound, ApiIInv, KeysSound
  <2>2. PICK i \in DOMAIN KeyEntries :
           /\ KeyStore[asked[c].bearer] = KeyEntries[i]
           /\ KeyEntries[i].raw = asked[c].bearer
           /\ \A j \in (i + 1)..Len(KeyEntries) : KeyEntries[j].raw # asked[c].bearer
    BY <2>1, LastEntryHolds DEF WithKey
  <2>3. KeyEntries[i].scope >= Scope.operator
    BY <2>1, <2>2 DEF WithKey
  <2>4. KeyEntries[i].scope \in {Scope.observer, Scope.orchestrator, Scope.operator}
    <3> DEFINE Entry == [id: Principals \ {NoPrincipal}, raw: STRING,
                         scope: {Scope.observer, Scope.orchestrator, Scope.operator}]
    <3>1. KeyEntries \in Seq(Entry)
      BY ApiAssumption
    <3> HIDE DEF Entry
    <3>2. KeyEntries[i] \in Entry
      BY <3>1
    <3> QED BY <3>2 DEF Entry
  <2>5. KeyEntries[i].scope = Scope.operator
    BY <2>3, <2>4 DEF Scope
  <2> QED BY <2>1, <2>2, <2>5
<1> QED BY <1>1, ApiSoundHolds, PTL

=============================================================================
