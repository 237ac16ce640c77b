------------------------------- MODULE ApiInv -------------------------------
(***************************************************************************)
(* The inductive invariant of Api: what each call was let through with and *)
(* what it has done by the time it stands where it stands.  It rests on    *)
(* the parts of EngineInv that hold of the engine beneath.                 *)
(***************************************************************************)
EXTENDS Api, EngineInv

\* The codes a call may be refused with; Plan has the first two, Approve the next
\* three, Execute the first two of each.
RefusalCodes == {Unresolvable, MalformedBound, TokenInvalid, OverBound, SodViolation,
                 OverBoundNow, ExecutionFailed, InternalError}

AnswerCodes == RefusalCodes \cup {OK, BadRequest, NotFound}

Bearers == {m.bearer : m \in Messages} \cup {NoKey}

AskedCall == [bearer: Bearers, code: RefusalCodes, did: SUBSET Effect]

\* A plan was proposed with an entry of the key list that may propose.
Proposed(s) ==
    \E i \in DOMAIN KeyEntries : /\ KeyEntries[i].id = s.Proposer
                                 /\ KeyEntries[i].scope >= Scope.orchestrator

\* Execute was asked for with an operator's key; every plan in use was proposed
\* with an orchestrator's.
KeysSound ==
    /\ \A c \in Calls : call[c].pc \in {"consume", "recheck", "mutate"} =>
          WithKey(asked[c], Scope.operator)
    /\ \A id \in DOMAIN plans : Proposed(plans[id])
    /\ \A c \in Calls : call[c].pc # "idle" => Proposed(call[c].snap)

\* What a call that goes on has done depends on where it is.
DoneSoFar(c) ==
    LET did == asked[c].did
    IN  /\ call[c].pc \in {"newID", "store", "mint", "consume"} => did = {}
        /\ call[c].pc = "auditPlan" => did = {"stored"}
        /\ call[c].pc = "auditApprove" => did = {"minted"}
        /\ call[c].pc \in {"recheck", "mutate"} => did = {"spent"}
        /\ call[c].pc \in {"auditExecute", "exeID"} => did = {"spent", "touched"}

\* What a call that is refused has done depends on what it will be told; one that
\* is about to use its token will be told of the token.
DoneAndRefused(c) ==
    LET code == asked[c].code
        did == asked[c].did
    IN  /\ call[c].pc = "consume" => code = TokenInvalid
        /\ call[c].pc = "refuse" =>
              \/ /\ code \in {MalformedBound, Unresolvable, TokenInvalid, OverBound, SodViolation}
                 /\ did = {}
              \/ code \in {Unresolvable, OverBoundNow} /\ did = {"spent"}
              \/ code = ExecutionFailed

ApiIInv ==
    /\ asked \in [Calls -> AskedCall]
    /\ answer = NoAnswer \/ answer.code \in AnswerCodes
    /\ KeysSound
    /\ \A c \in Calls : DoneSoFar(c) /\ DoneAndRefused(c)
=============================================================================
