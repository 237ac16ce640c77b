-------------------------- MODULE EngineGateProofs --------------------------
(***************************************************************************)
(* The engine implements the approval gate, for every value of the         *)
(* constants: each step of the engine is one step of the gate, or none.    *)
(***************************************************************************)
EXTENDS EngineStory, SequenceTheorems

\* What the gate sees of the work done is a sequence as long as the mutations.
LEMMA DoneSeq ==
    ASSUME TypeOK
    PROVE  /\ mutations \in Seq(Mutation) /\ Len(mutations) \in Nat
           /\ DOMAIN mutations = 1..Len(mutations)
           /\ Done \in Seq([grant: Nat, work: HashTuple, by: Principals])
           /\ Len(Done) = Len(mutations) /\ DOMAIN Done = 1..Len(mutations)
           /\ \A i \in 1..Len(mutations) : Done[i] = DoneAs(mutations[i])
<1>1. mutations \in Seq(Mutation) /\ Len(mutations) \in Nat
      /\ DOMAIN mutations = 1..Len(mutations)
  BY DEF TypeOK
<1>2. \A i \in 1..Len(mutations) : DoneAs(mutations[i]) \in [grant: Nat, work: HashTuple, by: Principals]
  <2>1. \A i \in 1..Len(mutations) : mutations[i] \in Mutation
    BY <1>1
  <2> QED BY <2>1 DEF DoneAs, Mutation, Stored
<1>3. Done \in [1..Len(mutations) -> [grant: Nat, work: HashTuple, by: Principals]]
  BY <1>2 DEF Done
<1> QED BY <1>1, <1>3 DEF Done

---------------------------------------------------------------------------
(* The life of a token.                                                    *)

LEMMA LifeInit == Init => LifeInv
<1> SUFFICES ASSUME Init PROVE LifeInv
  OBVIOUS
<1>1. \A c \in Calls : call[c].pc = "idle"
  BY IdleSound DEF Init
<1>2. DOMAIN tokens = {}
  BY DEF Init
<1> QED BY <1>1, <1>2 DEF LifeInv

\* A step of a call that neither mints nor consumes.
LEMMA LifeStays ==
    ASSUME LifeInv, NEW c \in Calls, Alone(c), call'[c].pc # "auditApprove",
           UNCHANGED <<tokens, now>>,
           \/ handed' = handed
           \/ call[c].pc = "auditApprove" /\ handed' = handed \cup {call[c].tok}
    PROVE  LifeInv'
BY DEF LifeInv, InStore, Alone

\* The number of a new token is one that nobody has.
LEMMA LifeMint ==
    ASSUME TypeOK, IInv, LifeInv, NEW c \in Calls, ApproveMint(c)
    PROVE  LifeInv'
<1>1. PICK n \in Nat : n = Len(minted) + 1
  BY DEF TypeOK
<1>2. n \notin DOMAIN minted
  BY <1>1 DEF TypeOK
<1>3. PICK record : /\ tokens' = With(tokens, n, record)
                    /\ record.expiresAt = now + TTL /\ ~record.consumed
  BY <1>1 DEF ApproveMint
<1>4. call' = [call EXCEPT ![c] = [call[c] EXCEPT !.pc = "auditApprove", !.tok = n]]
      /\ now' = now /\ handed' = handed
  BY <1>1 DEF ApproveMint, Goto, world, clients
<1>5. call'[c].tok = n /\ \A d \in Calls : d # c => call'[d] = call[d]
  BY <1>4 DEF TypeOK, Call
<1>6. n \notin handed /\ \A d \in Calls : call[d].pc = "auditApprove" => call[d].tok # n
  BY <1>2 DEF IInv, HandedSound
<1>7. \A t \in DOMAIN tokens' : tokens'[t].expiresAt <= now + TTL
  <2>1. now + TTL <= now + TTL
    BY EngineAssumption DEF TypeOK
  <2> QED BY <1>3, <2>1 DEF LifeInv, With
<1>8. InStore(n)' /\ \A t : t # n /\ InStore(t) => InStore(t)'
  BY <1>3 DEF InStore, With
<1>9. ASSUME NEW d \in Calls, call'[d].pc = "auditApprove"
      PROVE  /\ InStore(call[d].tok)' /\ call'[d].tok \notin handed'
             /\ \A e \in Calls : call'[e].pc = "auditApprove" /\ call'[e].tok = call'[d].tok => e = d
  <2>1. CASE d = c
    <3>1. InStore(call[d].tok)'
      BY <1>5, <1>8, <2>1 DEF InStore
    <3> QED BY <1>4, <1>5, <1>6, <2>1, <3>1
  <2>2. CASE d # c
    <3>1. InStore(call[d].tok) /\ call[d].tok # n
      BY <1>5, <1>6, <1>9, <2>2 DEF LifeInv
    <3>2. InStore(call[d].tok)'
      BY <1>5, <1>8, <2>2, <3>1 DEF InStore
    <3> QED BY <1>4, <1>5, <1>6, <1>9, <2>2, <3>2 DEF LifeInv
  <2> QED BY <2>1, <2>2
<1> QED BY <1>4, <1>7, <1>9 DEF LifeInv

\* What is consumed was handed out: no call still to write its approve row has it.
LEMMA LifeConsume ==
    ASSUME TypeOK, TypeOK', IInv, LifeInv, NEW c \in Calls, ExecuteConsume(c)
    PROVE  LifeInv'
<1>1. ExecuteMoves(c) /\ Alone(c) /\ call[c].pc = "consume" /\ UNCHANGED <<handed, now>>
  BY ExecuteMovesAre DEF ExecuteConsume, Goto, clients, world
<1>2. call'[c].pc # "auditApprove"
  BY <1>1 DEF ExecuteMoves, Hops
<1>3. CASE tokens' = tokens
  BY <1>1, <1>2, <1>3, LifeStays
<1>4. CASE tokens' # tokens
  <2> DEFINE t == call[c].tok
  <2>1. tokens' = [tokens EXCEPT ![t].consumed = TRUE] /\ t \in DOMAIN tokens
    BY <1>4 DEF ExecuteConsume, Acceptable, engine
  <2>2. t \in handed
    <3>1. t \in handed \cup {0} /\ t \in DOMAIN minted
      BY <1>1, <2>1 DEF IInv, HandedSound, TokensSound
    <3>2. 0 \notin DOMAIN minted
      BY DEF TypeOK
    <3> QED BY <3>1, <3>2
  <2>3. /\ DOMAIN tokens' = DOMAIN tokens
        /\ \A x \in DOMAIN tokens : /\ tokens'[x].expiresAt = tokens[x].expiresAt
                                    /\ x # t => tokens'[x] = tokens[x]
    <3>1. tokens[t] \in Token
      BY <2>1 DEF TypeOK
    <3> QED BY <2>1, <3>1 DEF Token
  <2> HIDE DEF t
  <2>4. \A d \in Calls : call'[d].pc = "auditApprove" => call'[d] = call[d] /\ call[d].tok # t
    BY <1>1, <1>2, <2>2 DEF Alone, LifeInv
  <2> QED BY <1>1, <2>3, <2>4 DEF LifeInv, InStore
<1> QED BY <1>3, <1>4

LEMMA LifeNext ==
    ASSUME TypeOK, TypeOK', IInv, LifeInv, [Next]_vars
    PROVE  LifeInv'
<1>1. ASSUME NEW c \in Calls,
             \/ \E req \in Requests : PlanRefused(c, req) \/ PlanResolved(c, req)
             \/ PlanNewID(c) \/ PlanStore(c) \/ PlanAudit(c)
      PROVE  LifeInv'
  <2>1. PlanMoves(c) /\ Alone(c)
    BY <1>1, PlanMovesAre
  <2>2. tokens' = tokens /\ call'[c].pc # "auditApprove"
    BY <2>1 DEF PlanMoves, Hops, rest
  <2>3. UNCHANGED <<handed, now>>
    BY <1>1 DEF PlanRefused, PlanResolved, PlanNewID, PlanStore, PlanAudit, clients, world
  <2> QED BY <2>1, <2>2, <2>3, LifeStays
<1>2. ASSUME NEW c \in Calls, ApproveMintFails(c) \/ ApproveAudit(c)
                              \/ \E id \in DOMAIN plans, who \in Approvers :
                                    \E hash \in {plans[id].PlanHash, NoHash} :
                                       ApproveCheck(c, id, hash, who)
      PROVE  LifeInv'
  <2>1. ApproveMoves(c) /\ Alone(c)
    BY <1>2, ApproveMovesAre
  <2>2. /\ UNCHANGED <<tokens, now>>
        /\ \/ handed' = handed
           \/ call[c].pc = "auditApprove" /\ handed' = handed \cup {call[c].tok}
    BY <1>2 DEF ApproveMintFails, ApproveAudit, ApproveCheck, Goto, engine, clients, world
  <2>3. call'[c].pc # "auditApprove"
    <3>1. CASE ApproveMintFails(c)
      BY <3>1 DEF ApproveMintFails, Goto, TypeOK, Idle
    <3>2. CASE ~ApproveMintFails(c)
      <4>1. call[c].pc # "mint"
        BY <1>2, <3>2 DEF ApproveAudit, ApproveCheck, Goto, Begin
      <4> QED BY <2>1, <4>1 DEF ApproveMoves, Hops
    <3> QED BY <3>1, <3>2
  <2> QED BY <2>1, <2>2, <2>3, LifeStays
<1>3. ASSUME NEW c \in Calls,
             \/ \E id \in DOMAIN plans, t \in handed \cup {0} : ExecuteLookup(c, id, t)
             \/ ExecuteRecheck(c) \/ ExecuteMutate(c) \/ ExecuteFails(c) \/ Panic(c)
             \/ ExecuteAudit(c) \/ ExecuteReport(c) \/ Refuse(c)
      PROVE  LifeInv'
  <2>1. ExecuteMoves(c) /\ Alone(c)
    BY <1>3, ExecuteMovesAre
  <2>2. call'[c].pc # "auditApprove"
    BY <2>1 DEF ExecuteMoves, Hops
  <2>3. UNCHANGED <<tokens, handed, now>>
    BY <1>3 DEF ExecuteLookup, ExecuteRecheck, ExecuteMutate, ExecuteFails, Panic,
                ExecuteAudit, ExecuteReport, Refuse, engine, clients, world
  <2> QED BY <2>1, <2>2, <2>3, LifeStays
<1>4. CASE Crash
  <2>1. DOMAIN tokens' = {} /\ \A c \in Calls : call'[c].pc = "idle"
    BY <1>4, IdleSound DEF Crash
  <2> QED BY <2>1 DEF LifeInv
<1>5. CASE ChangeTopology \/ Tick \/ UNCHANGED vars
  <2>1. UNCHANGED <<tokens, handed, call>> /\ (now' = now \/ now' = now + 1)
    BY <1>5 DEF ChangeTopology, Tick, vars, engine, clients, world
  <2>2. \A t \in DOMAIN tokens : tokens[t].expiresAt <= now' + TTL
    <3>1. ASSUME NEW t \in DOMAIN tokens PROVE tokens[t].expiresAt <= now' + TTL
      <4>1. tokens[t] \in Token
        BY DEF TypeOK
      <4>2. PICK e \in Nat : e = tokens[t].expiresAt
        BY <4>1 DEF Token
      <4>3. e <= now + TTL /\ now \in Nat /\ TTL \in Nat
        BY <4>2, EngineAssumption DEF LifeInv, TypeOK
      <4> QED BY <2>1, <4>2, <4>3
    <3> QED BY <3>1
  <2> QED BY <2>1, <2>2 DEF LifeInv, InStore
<1> QED BY <1>1, <1>2, <1>3, <1>4, <1>5, LifeMint, LifeConsume
        DEF Next, Request, Step, Environment

\* No token outlives its time, and none is there for others before its approve row.
LEMMA LifeHolds == Spec => []LifeInv
BY LifeInit, LifeNext, TypeCorrect, InvariantHolds, PTL DEF Spec

---------------------------------------------------------------------------
(* The steps of the gate.                                                  *)

\* A step that hands out no token and takes none, holds on to what it holds, does and
\* records nothing and reports nothing is one the gate does not see.
LEMMA Unseen ==
    ASSUME UNCHANGED <<handed, mutations, reported, now>>,
           \A t \in handed :
               /\ minted'[t] = minted[t]
               /\ InStore(t)' <=> InStore(t)
               /\ InStore(t) => tokens'[t].expiresAt = tokens[t].expiresAt,
           \A c \in Calls : /\ Holding(c)' <=> Holding(c)
                            /\ Holding(c) => call'[c].tok = call[c].tok
    PROVE  UNCHANGED Gate!gate
<1>1. Granted' = Granted
  BY DEF Granted, GrantOf
<1>2. Done' = Done /\ Recorded' = Recorded
  BY DEF Done, DoneAs, Recorded
<1>3. LiveTokens' = LiveTokens
  BY DEF LiveTokens
<1>4. Live' = Live
  BY <1>3 DEF Live, LiveTokens
<1>5. Taken' = Taken
  BY DEF Taken
<1> QED BY <1>1, <1>2, <1>4, <1>5 DEF Gate!gate

\* What a call that holds no token, or holds on to its own, leaves as it is.
LEMMA TakenStays ==
    ASSUME NEW c \in Calls, Alone(c), UNCHANGED <<tokens, handed>>,
           \/ ~Holding(c) /\ ~Holding(c)'
           \/ Holding(c) /\ Holding(c)' /\ call'[c].tok = call[c].tok
    PROVE  /\ \A d \in Calls : /\ Holding(d)' <=> Holding(d)
                               /\ Holding(d) => call'[d].tok = call[d].tok
           /\ UNCHANGED <<Live, Taken>>
<1>1. \A d \in Calls : /\ Holding(d)' <=> Holding(d)
                       /\ Holding(d) => call'[d].tok = call[d].tok
  BY DEF Alone, Holding
<1>2. LiveTokens' = LiveTokens
  BY DEF LiveTokens, InStore
<1>3. Live' = Live
  BY <1>2 DEF Live
<1>4. Taken' = Taken
  BY <1>1 DEF Taken
<1> QED BY <1>1, <1>3, <1>4

LEMMA UnseenStep ==
    ASSUME NEW c \in Calls, Alone(c), UNCHANGED <<tokens, minted, handed, mutations, reported, now>>,
           \/ ~Holding(c) /\ ~Holding(c)'
           \/ Holding(c) /\ Holding(c)' /\ call'[c].tok = call[c].tok
    PROVE  UNCHANGED Gate!gate
BY TakenStays, Unseen DEF InStore

\* A call that lets go of its token was the only one to hold it.
LEMMA LettingGo ==
    ASSUME IInv, NEW c \in Calls, Alone(c), UNCHANGED <<tokens, handed>>,
           Holding(c), ~Holding(c)'
    PROVE  /\ call[c].tok \in Taken
           /\ Taken' = Taken \ {call[c].tok}
           /\ Live' = Live
<1>1. /\ call[c].tok \in handed
      /\ \A d \in Calls : Holding(d) /\ call[d].tok = call[c].tok => d = c
  BY DEF IInv, HoldersSound
<1>2. \A d \in Calls : d # c => (Holding(d)' <=> Holding(d)) /\ call'[d] = call[d]
  BY DEF Alone, Holding
<1>3. Taken' = Taken \ {call[c].tok}
  <2>1. ASSUME NEW t \in handed
        PROVE  t \in Taken' <=> t \in Taken /\ t # call[c].tok
    BY <1>1, <1>2 DEF Taken
  <2> QED BY <2>1 DEF Taken
<1>4. LiveTokens' = LiveTokens
  BY DEF LiveTokens, InStore
<1>5. Live' = Live
  BY <1>4 DEF Live
<1> QED BY <1>1, <1>3, <1>5 DEF Taken

\* A token is let go and nothing is done with it.
LEMMA LettingGoDrops ==
    ASSUME IInv, NEW c \in Calls, Alone(c), Holding(c), ~Holding(c)',
           UNCHANGED <<tokens, minted, handed, mutations, reported, now>>
    PROVE  Gate!GateNext
<1>1. /\ call[c].tok \in Taken /\ Taken' = Taken \ {call[c].tok} /\ Live' = Live
  BY LettingGo
<1>2. UNCHANGED <<Granted, Done, Recorded>>
  BY DEF Granted, GrantOf, Done, DoneAs, Recorded
<1> QED BY <1>1, <1>2 DEF Gate!Drop, Gate!GateNext

\* Consume takes a grant up in its time.
LEMMA ConsumingTakes ==
    ASSUME TypeOK, TypeOK', IInv, NEW c \in Calls, ExecuteConsume(c)
    PROVE  [Gate!GateNext]_(Gate!gate)
<1>1. /\ ExecuteMoves(c) /\ Alone(c) /\ call[c].pc = "consume"
      /\ UNCHANGED <<minted, handed, mutations, reported, now>>
  BY ExecuteMovesAre DEF ExecuteConsume, Goto, clients, world, history
<1>2. CASE call'[c].pc = "refuse"
  <2>1. tokens' = tokens
    BY <1>1, <1>2 DEF ExecuteMoves, Hops, rest
  <2> QED BY <1>1, <1>2, <2>1, UnseenStep DEF Holding
<1>3. CASE call'[c].pc # "refuse"
  <2>0. PICK t : t = call[c].tok
    OBVIOUS
  <2>1. /\ call'[c].pc = "recheck" /\ call'[c].tok = t
        /\ Acceptable(t, call[c].snap.PlanHash)
        /\ tokens' = [tokens EXCEPT ![t].consumed = TRUE]
    BY <1>1, <1>3, <2>0 DEF ExecuteMoves, Hops
  <2>2. t \in DOMAIN tokens /\ InStore(t) /\ now <= tokens[t].expiresAt
    BY <2>1 DEF Acceptable, InStore
  <2>3. t \in handed
    <3>1. t \in handed \cup {0} /\ t \in DOMAIN minted
      BY <1>1, <2>0, <2>2 DEF IInv, HandedSound, TokensSound
    <3>2. 0 \notin DOMAIN minted
      BY DEF TypeOK
    <3> QED BY <3>1, <3>2
  <2>4. /\ ~InStore(t)'
        /\ \A x : x # t => (InStore(x)' <=> InStore(x)) /\ tokens'[x] = tokens[x]
    BY <2>1, <2>2 DEF InStore, TypeOK, Token
  <2>5. LiveTokens' = LiveTokens \ {t} /\ t \in LiveTokens
    <3>1. \A x \in handed : InStore(x)' <=> InStore(x) /\ x # t
      BY <2>4
    <3>2. LiveTokens' = {x \in handed : InStore(x) /\ x # t}
      BY <1>1, <3>1 DEF LiveTokens
    <3> QED BY <2>2, <2>3, <3>2 DEF LiveTokens
  <2>6. Live' = [x \in DOMAIN Live \ {t} |-> Live[x]]
    <3>1. DOMAIN Live = LiveTokens /\ \A x \in LiveTokens : Live[x] = tokens[x].expiresAt
      BY DEF Live
    <3>2. Live' = [x \in LiveTokens \ {t} |-> tokens'[x].expiresAt]
      BY <2>5 DEF Live
    <3> QED BY <2>4, <3>1, <3>2
  <2>7. Live[t] = tokens[t].expiresAt /\ t \in DOMAIN Live
    BY <2>5 DEF Live
  <2>8. Taken' = Taken \cup {t}
    <3>1. /\ Holding(c)' /\ call'[c].tok = t /\ ~Holding(c)
          /\ \A d \in Calls : d # c => (Holding(d)' <=> Holding(d)) /\ call'[d] = call[d]
      BY <1>1, <2>1 DEF Holding, Alone
    <3> QED BY <1>1, <2>3, <3>1 DEF Taken
  <2>9. UNCHANGED <<Granted, Done, Recorded>>
    BY <1>1 DEF Granted, GrantOf, Done, DoneAs, Recorded
  <2>10. Gate!Take(t)
    BY <1>1, <2>2, <2>6, <2>7, <2>8, <2>9 DEF Gate!Take
  <2> QED BY <2>7, <2>10 DEF Gate!GateNext
<1> QED BY <1>2, <1>3

\* Handing out a token is a grant.
LEMMA HandingOutGrants ==
    ASSUME TypeOK, TypeOK', IInv, LifeInv, NEW c \in Calls, ApproveAudit(c)
    PROVE  [Gate!GateNext]_(Gate!gate)
<1>0. /\ UNCHANGED <<minted, mutations, reported, tokens, now>>
      /\ call[c].pc = "auditApprove" /\ Alone(c) /\ call'[c].pc = "idle"
  BY ApproveMovesAre, IdleSound DEF ApproveAudit, Goto, engine, world, history, TypeOK
<1>a. \A d \in Calls : /\ Holding(d)' <=> Holding(d)
                       /\ Holding(d) => call'[d] = call[d]
  BY <1>0 DEF Holding, Alone
<1>1. CASE handed' = handed
  BY <1>0, <1>1, UnseenStep DEF Holding
<1>2. CASE handed' # handed
  <2>1. PICK t \in Nat : t = call[c].tok
    BY DEF TypeOK, Call
  <2>2. handed' = handed \cup {t} /\ t \notin handed
    BY <1>2, <2>1 DEF ApproveAudit
  <2>3. t \in DOMAIN minted /\ minted[t] \in Minted
    BY <1>0, <2>1 DEF IInv, HandedSound, TypeOK
  <2>4. GrantOf(t) \in [work: HashTuple, by: Principals]
    BY <2>3 DEF GrantOf, Minted, Stored
  <2>5. /\ DOMAIN Granted = handed /\ DOMAIN Granted' = handed'
        /\ Granted' = [x \in handed' |-> GrantOf(x)]
        /\ \A x \in handed : Granted[x] = GrantOf(x)
    BY <1>0 DEF Granted, GrantOf
  <2>6. Granted' = [x \in DOMAIN Granted \cup {t} |-> IF x = t THEN Granted'[t] ELSE Granted[x]]
    BY <2>2, <2>5
  <2>7. UNCHANGED <<Done, Recorded, reported, now>>
    BY <1>0 DEF Done, DoneAs, Recorded
  <2>8. InStore(t) /\ tokens[t].expiresAt <= now + TTL
    BY <1>0, <2>1 DEF LifeInv, InStore
  <2>9. LiveTokens' = LiveTokens \cup {t}
    BY <1>0, <2>2, <2>8 DEF LiveTokens, InStore
  <2>10. /\ DOMAIN Live = LiveTokens /\ DOMAIN Live' = LiveTokens'
         /\ Live' = [x \in LiveTokens' |-> tokens[x].expiresAt]
         /\ \A x \in LiveTokens : Live[x] = tokens[x].expiresAt
    BY <1>0 DEF Live
  <2>11. Live' = [x \in DOMAIN Live \cup {t} |-> IF x = t THEN Live'[t] ELSE Live[x]]
    BY <2>9, <2>10
  <2>12. t \in DOMAIN Live' /\ Live'[t] <= now + TTL
    BY <2>8, <2>9, <2>10
  <2>13. Taken' = Taken
    <3>1. \A d \in Calls : Holding(d) => call[d].tok # t
      BY <2>2 DEF IInv, HoldersSound
    <3> QED BY <1>a, <2>2, <3>1 DEF Taken
  <2>14. Gate!Grant(t)
    BY <2>4, <2>5, <2>6, <2>7, <2>11, <2>12, <2>13 DEF Gate!Grant
  <2>15. t \in DOMAIN Granted' \ DOMAIN Granted
    BY <2>2, <2>5
  <2> QED BY <2>14, <2>15 DEF Gate!GateNext
<1> QED BY <1>1, <1>2

\* What the actuator does, it does under a grant nobody used, for that very work.
LEMMA TouchingIsGranted ==
    ASSUME TypeOK, IInv, NEW c \in Calls, call[c].pc = "mutate", Touch(c),
           Alone(c), ~Holding(c)', UNCHANGED <<tokens, minted, handed, reported, now>>
    PROVE  Gate!GateNext
<1>1. PICK t \in Nat : t = call[c].tok
  BY DEF TypeOK, Call
<1>2. PICK m : /\ mutations' = Append(mutations, m) /\ m.row = 0
               /\ m.token = t /\ m.ran = call[c].snap /\ m.approver = call[c].actor
  BY <1>1 DEF Touch
<1>3. /\ t \in handed /\ t \in DOMAIN minted
      /\ call[c].snap.PlanHash = minted[t].plan.PlanHash
      /\ call[c].actor = minted[t].approver
      /\ \A i \in DOMAIN mutations : mutations[i].token # t
      /\ SoundPlan(call[c].snap) /\ SoundPlan(minted[t].plan)
  BY <1>1 DEF IInv, HoldersSound, Holding, HandedSound, PlansSound
<1>4. call[c].snap.Tuple = minted[t].plan.Tuple
  <2>1. call[c].snap.Tuple \in HashTuple /\ minted[t].plan.Tuple \in HashTuple
    <3>1. call[c] \in Call /\ minted[t] \in Minted
      BY <1>3 DEF TypeOK
    <3> QED BY <3>1 DEF Call, Minted, Stored
  <2> QED BY <1>3, <2>1, HashIsInjective DEF SoundPlan
<1>5. Granted' = Granted /\ t \in DOMAIN Granted /\ Granted[t] = GrantOf(t)
  BY <1>3 DEF Granted, GrantOf
<1>6. DoneAs(m) = [grant |-> t, work |-> Granted[t].work, by |-> Granted[t].by]
  BY <1>2, <1>3, <1>4, <1>5 DEF DoneAs, GrantOf
<1>7. /\ Len(mutations') = Len(mutations) + 1 /\ mutations'[Len(mutations) + 1] = m
      /\ \A i \in 1..Len(mutations) : mutations'[i] = mutations[i]
  BY <1>2, DoneSeq
<1>8. Done' = [i \in 1..(Len(mutations) + 1) |-> DoneAs(mutations'[i])]
  BY <1>7 DEF Done, DoneAs
<1>9. Done' = Append(Done, DoneAs(m))
  <2> DEFINE S == [grant: Nat, work: HashTuple, by: Principals]
             n == Len(mutations)
             x == DoneAs(m)
  <2>1. x \in S
    <3>1. minted[t] \in Minted
      BY <1>3 DEF TypeOK
    <3> QED BY <1>3, <1>5, <1>6, <3>1 DEF GrantOf, Minted, Stored
  <2>2. /\ Done \in Seq(S) /\ n \in Nat /\ Len(Done) = n
        /\ \A i \in 1..n : Done[i] = DoneAs(mutations[i])
    BY DoneSeq
  <2>3. DoneAs(mutations'[n + 1]) = x /\ \A i \in 1..n : DoneAs(mutations'[i]) = Done[i]
    BY <1>7, <2>2
  <2>4. Done' = [i \in 1..(n + 1) |-> DoneAs(mutations'[i])]
    BY <1>8
  <2> HIDE DEF S, n, x
  <2>5. Append(Done, x) = [i \in 1..(n + 1) |-> IF i = n + 1 THEN x ELSE Done[i]]
    <3>1. /\ Append(Done, x) \in Seq(S) /\ Len(Append(Done, x)) = n + 1
          /\ DOMAIN Append(Done, x) = 1..(n + 1)
          /\ Append(Done, x)[n + 1] = x
          /\ \A i \in 1..n : Append(Done, x)[i] = Done[i]
      BY <2>1, <2>2
    <3>2. Append(Done, x) = [i \in 1..(n + 1) |-> Append(Done, x)[i]]
      BY <3>1, LenProperties
    <3> QED BY <2>2, <3>1, <3>2
  <2>6. \A i \in 1..(n + 1) : DoneAs(mutations'[i]) = IF i = n + 1 THEN x ELSE Done[i]
    <3>1. \A i \in 1..(n + 1) : i # n + 1 => i \in 1..n
      BY <2>2
    <3> QED BY <2>3, <3>1
  <2>7. Done' = Append(Done, x)
    BY <2>4, <2>5, <2>6
  <2> QED BY <2>7 DEF x
<1>10. Recorded' = Recorded
  BY <1>2, <1>7, DoneSeq DEF Recorded
<1>11. \A i \in DOMAIN Done : Done[i].grant # t
  BY <1>3, DoneSeq DEF DoneAs
<1>12. t \in Taken /\ Taken' = Taken \ {t} /\ Live' = Live
  BY <1>1, LettingGo DEF Holding
<1>13. Gate!Do(t)
  BY <1>5, <1>6, <1>9, <1>10, <1>11, <1>12 DEF Gate!Do
<1> QED BY <1>12, <1>13 DEF Gate!GateNext

\* The execute row puts the call's own mutation on record.
LEMMA RowsRecord ==
    ASSUME TypeOK, TypeOK', RowsInv, NEW c \in Calls, ExecuteAudit(c)
    PROVE  [Gate!GateNext]_(Gate!gate)
<1> DEFINE k == call[c].mut
<1>0. UNCHANGED <<tokens, now, Live, Taken>> /\ Alone(c) /\ ~Holding(c) /\ ~Holding(c)'
  <2>1. ExecuteMoves(c) /\ Alone(c) /\ call[c].pc = "auditExecute"
    BY ExecuteMovesAre DEF ExecuteAudit, Goto
  <2>2. ~Holding(c) /\ ~Holding(c)'
    BY <2>1 DEF ExecuteMoves, Hops, Holding
  <2>3. UNCHANGED <<tokens, handed, now>>
    BY DEF ExecuteAudit, engine, clients, world
  <2> QED BY <2>1, <2>2, <2>3, TakenStays
<1>1. /\ call[c].pc = "auditExecute" /\ UNCHANGED <<minted, handed, reported>>
      /\ mutations' = IF log' = log THEN mutations
                      ELSE [mutations EXCEPT ![k].row = Len(log')]
      /\ k \in DOMAIN mutations
  BY DEF ExecuteAudit, Goto, clients, RowsInv, WritersSound
<1> HIDE DEF k
<1>2. CASE log' = log
  BY <1>0, <1>1, <1>2, UnseenStep
<1>3. CASE log' # log
  <2>1. Len(log') # 0
    <3>1. \A row : Len(Append(log, row)) = Len(log) + 1 /\ Len(log) \in Nat
      BY DEF TypeOK
    <3>2. PICK row : log' = Append(log, row)
      BY <1>3 DEF ExecuteAudit, AuditAppend
    <3> QED BY <3>1, <3>2
  <2>2. mutations[k] \in Mutation
    BY <1>1, DoneSeq
  <2>3. /\ DOMAIN mutations' = DOMAIN mutations /\ Len(mutations') = Len(mutations)
        /\ mutations'[k].row # 0
        /\ \A i \in DOMAIN mutations :
              /\ mutations'[i].token = mutations[i].token
              /\ mutations'[i].ran = mutations[i].ran
              /\ mutations'[i].approver = mutations[i].approver
              /\ i # k => mutations'[i].row = mutations[i].row
    BY <1>1, <1>3, <2>1, <2>2, DoneSeq DEF Mutation
  <2>4. Done' = Done
    BY <2>3, DoneSeq DEF Done, DoneAs
  <2>5. Recorded' = Recorded \cup {k}
    BY <1>1, <2>3, DoneSeq DEF Recorded
  <2>6. Granted' = Granted
    BY <1>1 DEF Granted, GrantOf
  <2>7. Gate!Record(k) /\ k \in DOMAIN Done
    BY <1>0, <1>1, <2>4, <2>5, <2>6, DoneSeq DEF Gate!Record
  <2> QED BY <2>7 DEF Gate!GateNext
<1> QED BY <1>2, <1>3

\* What is reported is on record.
LEMMA ReportingTells ==
    ASSUME TypeOK, TypeOK', RowsInv, NEW c \in Calls, ExecuteReport(c)
    PROVE  Gate!GateNext
<1>0. ExecuteMoves(c) /\ Alone(c)
  BY ExecuteMovesAre
<1>1. /\ call[c].pc = "exeID" /\ reported' = reported \cup {call[c].mut}
      /\ UNCHANGED <<minted, mutations, handed, tokens, now>>
  BY DEF ExecuteReport, Goto, history, world
<1>2. call[c].mut \in DOMAIN mutations /\ mutations[call[c].mut].row # 0
  BY <1>1 DEF RowsInv, WritersSound
<1>3. call[c].mut \in Recorded /\ call[c].mut \in DOMAIN Done
  BY <1>2, DoneSeq DEF Recorded
<1>4. UNCHANGED <<Granted, Done, Recorded>>
  BY <1>1 DEF Granted, GrantOf, Done, DoneAs, Recorded
<1>5. UNCHANGED <<Live, Taken>>
  <2>1. ~Holding(c) /\ ~Holding(c)'
    BY <1>0, <1>1 DEF ExecuteMoves, Hops, Holding
  <2> QED BY <1>0, <1>1, <2>1, TakenStays
<1>6. Gate!Tell(call[c].mut)
  BY <1>1, <1>3, <1>4, <1>5 DEF Gate!Tell
<1> QED BY <1>3, <1>6 DEF Gate!GateNext

\* A call that only looks, plans, mints or refuses is not seen.
LEMMA QuietSteps ==
    ASSUME TypeOK, TypeOK', IInv, LifeInv, NEW c \in Calls,
           \/ \E req \in Requests : PlanRefused(c, req) \/ PlanResolved(c, req)
           \/ PlanNewID(c) \/ PlanStore(c) \/ PlanAudit(c)
           \/ \E id \in DOMAIN plans, who \in Approvers :
                 \E hash \in {plans[id].PlanHash, NoHash} : ApproveCheck(c, id, hash, who)
           \/ ApproveMintFails(c)
           \/ \E id \in DOMAIN plans, t \in handed \cup {0} : ExecuteLookup(c, id, t)
           \/ Refuse(c)
    PROVE  UNCHANGED Gate!gate
<1>1. /\ UNCHANGED <<tokens, minted, handed, mutations, reported, now>>
      /\ call[c].pc \in {"idle", "newID", "store", "auditPlan", "mint", "refuse"}
  BY DEF PlanRefused, PlanResolved, PlanNewID, PlanStore, PlanAudit, ApproveCheck,
         ApproveMintFails, ExecuteLookup, Refuse, Begin, Goto, engine, clients, world, history
<1>2. Alone(c) /\ (PlanMoves(c) \/ ApproveMoves(c) \/ ExecuteMoves(c))
  BY PlanMovesAre, ApproveMovesAre, ExecuteMovesAre
<1>3. ~Holding(c) /\ ~Holding(c)'
  BY <1>1, <1>2 DEF PlanMoves, ApproveMoves, ExecuteMoves, Hops, Holding
<1> QED BY <1>1, <1>2, <1>3, UnseenStep

\* Nor is a token that nobody was handed.
LEMMA MintingIsUnseen ==
    ASSUME TypeOK, TypeOK', IInv, NEW c \in Calls, ApproveMint(c)
    PROVE  UNCHANGED Gate!gate
<1>1. UNCHANGED <<handed, mutations, reported, now>> /\ call[c].pc = "mint"
  BY DEF ApproveMint, Goto, clients, world
<1>2. ApproveMoves(c) /\ Alone(c)
  BY ApproveMovesAre
<1>3. ~Holding(c) /\ ~Holding(c)'
  BY <1>1, <1>2 DEF ApproveMoves, Hops, Holding
<1>4. \A d \in Calls : /\ Holding(d)' <=> Holding(d)
                       /\ Holding(d) => call'[d].tok = call[d].tok
  BY <1>2, <1>3 DEF Alone, Holding
<1>5. PICK n \in Nat : n = Len(minted) + 1
  BY DEF TypeOK
<1>6. \A t \in handed : t \in DOMAIN minted /\ t # n
  BY <1>5 DEF TypeOK, IInv, HandedSound
<1>7. \A t \in handed : minted'[t] = minted[t]
  <2>1. minted \in Seq(Minted)
    BY DEF TypeOK
  <2>2. PICK m : minted' = Append(minted, m)
    BY DEF ApproveMint
  <2> QED BY <1>6, <2>1, <2>2
<1>8. PICK record : tokens' = With(tokens, n, record)
  BY <1>5 DEF ApproveMint
<1>9. \A t \in handed : /\ t \in DOMAIN tokens' <=> t \in DOMAIN tokens
                        /\ t \in DOMAIN tokens => tokens'[t] = tokens[t]
  BY <1>6, <1>8 DEF With
<1>10. \A t \in handed : /\ InStore(t)' <=> InStore(t)
                         /\ InStore(t) => tokens'[t].expiresAt = tokens[t].expiresAt
  BY <1>9 DEF InStore
<1> QED BY <1>1, <1>4, <1>7, <1>10, Unseen

\* The recheck lets the work go on or drops it.
LEMMA RecheckingDrops ==
    ASSUME TypeOK, TypeOK', IInv, NEW c \in Calls, ExecuteRecheck(c)
    PROVE  [Gate!GateNext]_(Gate!gate)
<1>1. /\ UNCHANGED <<tokens, minted, handed, mutations, reported, now>>
      /\ call[c].pc = "recheck"
  BY DEF ExecuteRecheck, Goto, engine, clients, world, history
<1>2. ExecuteMoves(c) /\ Alone(c)
  BY ExecuteMovesAre
<1>3. Holding(c) /\ call'[c].tok = call[c].tok
  <2>1. call'[c] = [call[c] EXCEPT !.pc = call'[c].pc, !.reach = call'[c].reach]
    BY DEF ExecuteRecheck, Goto, TypeOK, Call
  <2> QED BY <1>1, <2>1 DEF TypeOK, Call, Holding
<1>4. CASE Holding(c)'
  BY <1>1, <1>2, <1>3, <1>4, UnseenStep
<1>5. CASE ~Holding(c)'
  BY <1>1, <1>2, <1>3, <1>5, LettingGoDrops
<1> QED BY <1>4, <1>5

\* The actuator does the work, or the grant is lost with nothing done.
LEMMA ActuatorActs ==
    ASSUME TypeOK, TypeOK', IInv, NEW c \in Calls,
           ExecuteMutate(c) \/ ExecuteFails(c) \/ Panic(c)
    PROVE  Gate!GateNext
<1>1. /\ UNCHANGED <<tokens, minted, handed, reported, now>>
      /\ call[c].pc \in {"recheck", "mutate"}
      /\ (call[c].pc = "mutate" /\ Touch(c)) \/ mutations' = mutations
  BY DEF ExecuteMutate, ExecuteFails, Panic, Goto, engine, clients, world
<1>2. Alone(c)
  BY ExecuteMovesAre
<1>3. Holding(c) /\ ~Holding(c)'
  <2>1. call'[c].pc \in {"auditExecute", "refuse", "idle"}
    BY IdleSound DEF ExecuteMutate, ExecuteFails, Panic, Goto, TypeOK, Call
  <2> QED BY <1>1, <2>1 DEF Holding
<1>4. CASE mutations' = mutations
  BY <1>1, <1>2, <1>3, <1>4, LettingGoDrops
<1>5. CASE call[c].pc = "mutate" /\ Touch(c)
  BY <1>1, <1>2, <1>3, <1>5, TouchingIsGranted
<1> QED BY <1>1, <1>4, <1>5

\* Time passes, the fleet changes, or a restart voids what was granted.
LEMMA AroundTheGate ==
    ASSUME TypeOK, Environment \/ UNCHANGED vars
    PROVE  [Gate!GateNext]_(Gate!gate)
<1>1. UNCHANGED <<minted, handed, mutations, reported>>
  BY DEF Environment, ChangeTopology, Tick, Crash, vars, clients, history
<1>2. UNCHANGED <<Granted, Done, Recorded>>
  BY <1>1 DEF Granted, GrantOf, Done, DoneAs, Recorded
<1>3. CASE Crash
  <2>1. tokens' = << >> /\ now' = now /\ \A c \in Calls : ~Holding(c)'
    BY <1>3, IdleSound DEF Crash, Holding
  <2>2. LiveTokens' = {}
    BY <2>1 DEF LiveTokens, InStore
  <2>3. Live' = << >>
    BY <2>2 DEF Live
  <2>4. Taken' = {}
    BY <2>1 DEF Taken
  <2> QED BY <1>1, <1>2, <2>1, <2>3, <2>4 DEF Gate!Void, Gate!GateNext
<1>4. CASE Tick \/ ChangeTopology \/ UNCHANGED vars
  <2>1. UNCHANGED <<tokens, call>> /\ (now' = now \/ now' = now + 1)
    BY <1>4 DEF Tick, ChangeTopology, vars, engine, world
  <2>2. LiveTokens' = LiveTokens
    BY <1>1, <2>1 DEF LiveTokens, InStore
  <2>3. Live' = Live /\ Taken' = Taken
    BY <1>1, <2>1, <2>2 DEF Live, Taken, Holding
  <2>4. CASE now' = now
    BY <1>1, <1>2, <2>3, <2>4 DEF Gate!gate
  <2>5. CASE now' = now + 1
    BY <1>1, <1>2, <2>3, <2>5 DEF Gate!Pass, Gate!GateNext
  <2> QED BY <2>1, <2>4, <2>5
<1> QED BY <1>3, <1>4 DEF Environment

LEMMA GateStep ==
    ASSUME TypeOK, TypeOK', IInv, RowsInv, LifeInv, [Next]_vars
    PROVE  [Gate!GateNext]_(Gate!gate)
<1>1. ASSUME NEW c \in Calls, Request(c) PROVE UNCHANGED Gate!gate
  BY <1>1, QuietSteps DEF Request
<1>2. ASSUME NEW c \in Calls, Step(c) \/ Panic(c) PROVE [Gate!GateNext]_(Gate!gate)
  <2>1. CASE \/ PlanNewID(c) \/ PlanStore(c) \/ PlanAudit(c)
             \/ ApproveMintFails(c) \/ Refuse(c)
    BY <2>1, QuietSteps
  <2>2. CASE ApproveMint(c)
    BY <2>2, MintingIsUnseen
  <2>3. CASE ApproveAudit(c)
    BY <2>3, HandingOutGrants
  <2>4. CASE ExecuteConsume(c)
    BY <2>4, ConsumingTakes
  <2>5. CASE ExecuteRecheck(c)
    BY <2>5, RecheckingDrops
  <2>6. CASE ExecuteMutate(c) \/ ExecuteFails(c) \/ Panic(c)
    BY <2>6, ActuatorActs
  <2>7. CASE ExecuteAudit(c)
    BY <2>7, RowsRecord
  <2>8. CASE ExecuteReport(c)
    BY <2>8, ReportingTells
  <2> QED BY <1>2, <2>1, <2>2, <2>3, <2>4, <2>5, <2>6, <2>7, <2>8 DEF Step
<1> QED BY <1>1, <1>2, AroundTheGate DEF Next

\* Every behaviour of the engine is one of the gate: work is done only under a grant
\* for exactly that work, taken up before it expired and before any restart, each
\* grant once, and nothing is told that is not on record.
THEOREM EngineImplementsGate == Spec => ImplementsGate
<1>1. Init => Gate!GateInit
  <2> SUFFICES ASSUME Init PROVE Gate!GateInit
    OBVIOUS
  <2>1. handed = {} /\ mutations = << >> /\ reported = {} /\ now = 0
    BY DEF Init
  <2>2. Granted = << >> /\ Done = << >> /\ Recorded = {}
    BY <2>1 DEF Granted, Done, Recorded
  <2>3. LiveTokens = {} /\ Taken = {}
    BY <2>1 DEF LiveTokens, Taken
  <2>4. Live = << >>
    BY <2>3 DEF Live
  <2> QED BY <2>1, <2>2, <2>3, <2>4 DEF Gate!GateInit
<1>2. TypeOK /\ TypeOK' /\ IInv /\ RowsInv /\ LifeInv /\ [Next]_vars
        => [Gate!GateNext]_(Gate!gate)
  BY GateStep
<1> QED
  BY <1>1, <1>2, TypeCorrect, InvariantHolds, RowsHold, LifeHolds, PTL
  DEF Spec, ImplementsGate, Gate!GateSpec
=============================================================================
