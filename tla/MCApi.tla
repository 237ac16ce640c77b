------------------------------- MODULE MCApi --------------------------------
(***************************************************************************)
(* Small instances of Api over those of MCEngine: an orchestrator key, an  *)
(* operator key, one that was an operator's and is now an observer's, one  *)
(* nobody listed, a human.                                                 *)
(***************************************************************************)
EXTENDS MCEngine, ApiInv

MCKeyEntries ==
    << [id |-> "bot", scope |-> Scope.orchestrator, raw |-> "k1"],
       [id |-> "bob", scope |-> Scope.operator, raw |-> "k2"],
       [id |-> "Ann", scope |-> Scope.operator, raw |-> "k3"],
       [id |-> "bob", scope |-> Scope.observer, raw |-> "k2"] >>

\* A restart, one whose bound names no service, and an action nobody registered.
MCRequests == OneRestart \cup {[Restart("bot", "web") EXCEPT !.Action = "web"]}

\* On every route each key, and the human, in a message that is sound or fails in
\* one way.
MCMessages ==
    {m \in [route: {"plans", "approvals", "executions"}, json: BOOLEAN,
            bearer: {NoKey, "k1", "k2", "k3", "k4"}, human: {"", "ann"},
            body: {"sound", "large", "malformed", "incomplete"}] :
        /\ m.json \/ m.body = "sound"
        /\ (m.human = "") \/ (m.bearer = NoKey)}
=============================================================================
