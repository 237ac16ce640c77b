-------------------------------- MODULE Api ---------------------------------
(***************************************************************************)
(* The mutating routes of the HTTP API (internal/api) over Engine: who is  *)
(* let through to the engine, with which identity, and what each way a     *)
(* call can end is answered with.                                          *)
(*                                                                         *)
(* Each request of Engine comes with a message and each of its steps may   *)
(* end in an answer; whether the answer reaches its client changes nothing *)
(* here, as no client has to use what it was told.  A message that is not  *)
(* admitted (401, 403, 413, 415 or 400) is answered before any domain call *)
(* and is no step.                                                         *)
(***************************************************************************)
EXTENDS Engine

CONSTANTS
    KeyEntries,    \* JURIDICAL_KEYS: its entries, in order
    Messages       \* the envelopes of the requests clients may send

\* Scopes are ordered: higher includes lower.
Scope == [none |-> 0, observer |-> 1, orchestrator |-> 2, operator |-> 3]

NoKey == "no key"

\* What the middleware and the decoder see of a request.
Message == [route: {"plans", "approvals", "executions"},
            json: BOOLEAN,           \* is the content type application/json?
            bearer: STRING,          \* the raw key it presents, or NoKey
            human: Principals,       \* the forward-auth header, trimmed
            body: {"sound", "large", "malformed", "incomplete"}]

\* A server whose keys do not parse does not start.  Those who may try to approve
\* are those who may send a message; a header that is empty names nobody.
ASSUME ApiAssumption ==
    /\ KeyEntries \in Seq([id: Principals \ {NoPrincipal}, raw: STRING,
                           scope: {Scope.observer, Scope.orchestrator, Scope.operator}])
    /\ Messages \subseteq Message
    /\ \A m \in Messages : m.human # NoPrincipal => m.human \in Humans \cap Approvers
    /\ Canon[NoPrincipal] = NoPrincipal

---------------------------------------------------------------------------
(* Admission.                                                              *)

RawKeys == {KeyEntries[i].raw : i \in DOMAIN KeyEntries}

\* Fault: an entry for a key that is there already is ignored.
KeyStoreFirstWins ==
    [raw \in RawKeys |->
        KeyEntries[CHOOSE i \in DOMAIN KeyEntries :
            /\ KeyEntries[i].raw = raw
            /\ \A j \in DOMAIN KeyEntries : KeyEntries[j].raw = raw => i <= j]]

\* loadKeysFromEnv adds the entries in order: the last one for a raw key holds.
KeyStore ==
    [raw \in RawKeys |->
        KeyEntries[CHOOSE i \in DOMAIN KeyEntries :
            /\ KeyEntries[i].raw = raw
            /\ \A j \in DOMAIN KeyEntries : KeyEntries[j].raw = raw => j <= i]]

\* withKey: the bearer key is known and its scope is at least min.
WithKey(m, min) == m.bearer \in RawKeys /\ KeyStore[m.bearer].scope >= min

\* withHuman: the header names someone, and no key takes its place.
WithHuman(m) == Canon[m.human] # NoPrincipal

\* What a message must pass to reach the engine.
Admitted ==
    {m \in Messages :
        /\ m.json
        /\ m.route = "plans" => WithKey(m, Scope.orchestrator)
        /\ m.route = "approvals" => WithHuman(m)
        /\ m.route = "executions" => WithKey(m, Scope.operator)
        /\ m.body = "sound"}

---------------------------------------------------------------------------
(* Answers.                                                                *)

OK                == <<200, "ok">>
BadRequest        == <<400, "bad_request">>
MalformedBound    == <<400, "malformed_bound">>
SodViolation      == <<403, "sod_violation">>
NotFound          == <<404, "not_found">>
TokenInvalid      == <<409, "token_invalid">>
OverBoundNow      == <<409, "over_bound">>
OverBound         == <<422, "over_bound">>
Unresolvable      == <<422, "unresolvable_target">>
ExecutionFailed   == <<500, "execution_failed">>
InternalError     == <<500, "internal_error">>

VARIABLES
    asked,     \* for each call: the key it was admitted with, the code it will end
               \* with if it is refused, and what it did so far
    answer     \* the answer given in the last step, if there was one: its code, what
               \* the call did, its mutation, and for a plan id that is not stored
               \* whether a client was ever shown a plan of that id

apiVars == <<vars, asked, answer>>

Effect == {"stored", "minted", "spent", "touched"}

NotAsked == [bearer |-> NoKey, code |-> InternalError, did |-> {}]
NoAnswer == [code |-> << >>, did |-> {}, mut |-> 0, known |-> FALSE]

ApiInit == Init /\ asked = [c \in Calls |-> NotAsked] /\ answer = NoAnswer

\* A request the engine takes up, and one it turns down before anything changes; none
\* is sent once MaxCalls have been taken up.
TakenUp(c, m, code) ==
    /\ asked' = [asked EXCEPT ![c] = [NotAsked EXCEPT !.bearer = m.bearer, !.code = code]]
    /\ answer' = NoAnswer

TurnedDown(c, code) ==
    /\ call[c].pc = "idle" /\ started < MaxCalls
    /\ answer' = [NoAnswer EXCEPT !.code = code]
    /\ UNCHANGED <<vars, asked>>

\* handlePlans.
Plans(c, m) ==
    \E req \in Requests :
        /\ req.ProposerKeyID = KeyStore[m.bearer].id
        /\ \/ req.Action \notin Registered /\ TurnedDown(c, BadRequest)
           \/ /\ PlanRefused(c, req) \/ PlanResolved(c, req)
              /\ TakenUp(c, m, IF /\ ValidateDeclared(req.DeclaredBound, req.Dormant)
                                  /\ ValidateBound(req.DeclaredBound)
                               THEN Unresolvable ELSE MalformedBound)

\* A plan id that is not stored, one the client was shown or one it made up.
NotStored(c) ==
    \E id \in 1..MaxCalls \ DOMAIN plans :
        /\ call[c].pc = "idle" /\ started < MaxCalls
        /\ answer' = [NoAnswer EXCEPT !.code = NotFound,
                                      !.known = \E p \in shown : p.PlanID = id]
        /\ UNCHANGED <<vars, asked>>

\* handleApprovals: the engine compares the hash first, then judges the plan, then
\* the two principals.
Approvals(c, m) ==
    \/ NotStored(c)
    \/ \E id \in DOMAIN plans :
        LET s == plans[id]
        IN  \E hash \in {s.PlanHash, NoHash} :
               /\ ApproveCheck(c, id, hash, m.human)
               /\ TakenUp(c, m, IF hash # s.PlanHash THEN TokenInvalid
                                ELSE IF ~Executable(s.WithinBound, s.Verdict) THEN OverBound
                                ELSE SodViolation)

\* handleExecutions.
Executions(c, m) ==
    \/ NotStored(c)
    \/ \E id \in DOMAIN plans, t \in handed \cup {0} :
          ExecuteLookup(c, id, t) /\ TakenUp(c, m, TokenInvalid)

ApiRequest(c) ==
    \E m \in Admitted :
        \/ m.route = "plans" /\ Plans(c, m)
        \/ m.route = "approvals" /\ Approvals(c, m)
        \/ m.route = "executions" /\ Executions(c, m)

\* Fault: a failed execution answered like a breach of the bound.
RefusalCodeLenient(c) ==
    CASE call[c].pc = "recheck" ->
            IF Resolve(topo, call[c].snap.Tuple.Action, call[c].snap.Tuple.Params).ok
            THEN OverBoundNow ELSE Unresolvable
      [] call[c].pc = "mutate" -> OverBoundNow
      [] OTHER -> asked[c].code

\* The code of a refusal, decided where the engine returns its error.
RefusalCode(c) ==
    CASE call[c].pc = "recheck" ->
            IF Resolve(topo, call[c].snap.Tuple.Action, call[c].snap.Tuple.Params).ok
            THEN OverBoundNow ELSE Unresolvable
      [] call[c].pc = "mutate" -> ExecutionFailed
      [] OTHER -> asked[c].code

\* The answer of a call that ends in this step.
AnswerCode(c) ==
    CASE call[c].pc = "refuse" -> asked[c].code
      [] call[c].pc \in {"auditPlan", "exeID"} -> OK
      [] call[c].pc = "auditApprove" -> IF handed' # handed THEN OK ELSE InternalError
      [] OTHER -> InternalError

\* What this step does that outlasts the call.
Effects ==
    {e \in Effect : \/ e = "stored" /\ plans' # plans
                    \/ e = "minted" /\ minted' # minted
                    \/ e = "spent" /\ \E t \in DOMAIN tokens : tokens'[t] # tokens[t]
                    \/ e = "touched" /\ Len(mutations') > Len(mutations)}

ApiStep(c) ==
    /\ Step(c) \/ Panic(c)
    /\ LET did == asked[c].did \cup Effects
       IN  IF call'[c].pc = "idle"
           THEN /\ answer' = [NoAnswer EXCEPT !.code = AnswerCode(c), !.did = did,
                                                !.mut = call[c].mut]
                /\ asked' = [asked EXCEPT ![c] = NotAsked]
           ELSE /\ answer' = NoAnswer
                /\ asked' = [asked EXCEPT ![c].did = did, ![c].code = RefusalCode(c)]

ApiEnvironment ==
    /\ Environment
    /\ asked' = IF crashes' # crashes THEN [c \in Calls |-> NotAsked] ELSE asked
    /\ answer' = NoAnswer

ApiNext == (\E c \in Calls : ApiRequest(c) \/ ApiStep(c)) \/ ApiEnvironment

ApiSpec == ApiInit /\ [][ApiNext]_apiVars

\* net/http serves every request on a goroutine of its own; Step is never kept from
\* happening by what ApiStep adds to it.
FairApiSpec == ApiSpec /\ \A c \in Calls : WF_vars(Step(c))

---------------------------------------------------------------------------
Status == IF answer = NoAnswer THEN 0 ELSE answer.code[1]

\* What a client is told is true of the world: a success says that the plan is
\* stored, the token minted, or the service touched and an execute row on record;
\* an answer of the 4xx kind, also after the token was spent, says that the call
\* stored and minted nothing and touched no service, and a token called invalid
\* was not spent by the call (mutating.go: the answers' mapping; only a 5xx
\* leaves open what was done).
AnswersAreTrue ==
    /\ Status = 200 =>
          \/ answer.did = {"stored"} \/ answer.did = {"minted"}
          \/ /\ answer.did = {"spent", "touched"}
             /\ \E r \in DOMAIN log : log[r].Event = "execute" /\ Records(r, answer.mut)
    /\ Status \in 400..499 => answer.did \subseteq {"spent"}
    /\ answer.code \in {TokenInvalid, NotFound} => answer.did = {}

\* A plan a client was shown is not answered with 404 unless the process was
\* restarted: plans are stored before they are answered and never dropped.
NotFoundOnlyAfterRestart == Status = 404 /\ answer.known => crashes > 0

\* The actuator runs only for a key that holds operator scope now: the last entry
\* that lists it says so, whatever earlier entries say, and the proposer of the
\* plan held at least orchestrator scope (serve.go, loadKeysFromEnv; api.go,
\* withKey).
OnlyOperatorsExecute ==
    \A c \in Calls : call[c].pc = "mutate" =>
        /\ \E i \in DOMAIN KeyEntries :
              /\ KeyEntries[i].raw = asked[c].bearer
              /\ KeyEntries[i].scope = Scope.operator
              /\ \A j \in (i + 1)..Len(KeyEntries) : KeyEntries[j].raw # asked[c].bearer
        /\ \E i \in DOMAIN KeyEntries :
              /\ KeyEntries[i].id = call[c].snap.Proposer
              /\ KeyEntries[i].scope >= Scope.orchestrator
=============================================================================
