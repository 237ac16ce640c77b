----------------------------- MODULE EngineGate -----------------------------
(***************************************************************************)
(* The engine implements the approval gate: a token that was handed out is *)
(* a grant of its plan's tuple, Consume takes it up, the actuator's work   *)
(* is what is done, an execute row puts it on record, a successful answer  *)
(* tells it.                                                               *)
(***************************************************************************)
EXTENDS Engine

GrantOf(t) == [work |-> minted[t].plan.Tuple, by |-> minted[t].approver]
DoneAs(m) == [grant |-> m.token, work |-> m.ran.Tuple, by |-> m.approver]

\* A token the store would still give out, and a call between Consume and the
\* actuator.
InStore(t) == t \in DOMAIN tokens /\ ~tokens[t].consumed
Holding(c) == call[c].pc \in {"recheck", "mutate"}

\* What the gate can see of the engine.
Granted == [t \in handed |-> GrantOf(t)]
LiveTokens == {t \in handed : InStore(t)}
Live == [t \in LiveTokens |-> tokens[t].expiresAt]
Taken == {t \in handed : \E c \in Calls : Holding(c) /\ call[c].tok = t}
Done == [i \in 1..Len(mutations) |-> DoneAs(mutations[i])]
Recorded == {i \in 1..Len(mutations) : mutations[i].row # 0}

Gate == INSTANCE ApprovalGate WITH
    Work     <- HashTuple,
    People   <- Principals,
    Grants   <- Nat,
    Life     <- TTL,
    granted  <- Granted,
    live     <- Live,
    taken    <- Taken,
    done     <- Done,
    recorded <- Recorded,
    told     <- reported,
    time     <- now

\* Every behaviour of the engine is one of the gate: a step of the engine is
\* a step of the gate or changes nothing the gate can see.
ImplementsGate == Gate!GateSpec
=============================================================================
