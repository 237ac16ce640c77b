------------------------------ MODULE Actions ------------------------------
(***************************************************************************)
(* The registered actions (internal/action): restart-service and           *)
(* roll-deploy.  Both validate the bound alike and resolve their target    *)
(* from the live topology; they differ in the image reference, which       *)
(* roll-deploy requires and puts into the target.  The topology provider   *)
(* has no implementation in the repository: it is a function from a        *)
(* project and a service to an answer.                                     *)
(***************************************************************************)
EXTENDS Blast

CONSTANTS
    Names,       \* the action, backend, project, service and image strings
    Trimmed,     \* strings.TrimSpace on them
    GroupNames   \* those with a wildcard, a comma, a bracket or a space

ASSUME NamesAssumption ==
    /\ NoName \in Names
    /\ Trimmed \in [Names -> Names]
    /\ Trimmed[NoName] = NoName
    /\ GroupNames \subseteq Names

\* An absent key and a key with an empty value are the same parameter here.
Params == [service: Names, project: Names, image_ref: Names]

\* The backend both actions report and resolve against.
ActionBackend == "compose"

\* newRegistry registers these two and nothing else.
Registered == {"restart-service", "roll-deploy"}

\* One exact service: not blank and not a wildcard or group.
ValidateBound(bound) ==
    /\ Trimmed[bound.Service] # NoName
    /\ bound.Service \notin GroupNames

---------------------------------------------------------------------------
(* Topology.Resolve, as the actions use it.                                *)

Answer == [ok: BOOLEAN, matched: Seq(Container(Names)), inventory: Nat]

\* A topology answers for every project and service of its backend.
Topology == [Names \X Names -> Answer]

---------------------------------------------------------------------------
(* Resolve: the reach and the target, or a failure.                        *)

NoReach == [Hosts |-> 0, Services |-> 0, Instances |-> 0, FleetPct |-> 0]
NoTarget == <<NoName, NoName, NoName>>
Target == Names \X Names \X Names

Unresolved == [ok |-> FALSE, reach |-> NoReach, target |-> NoTarget]

\* The parameters an action needs to name its target.
ParamsComplete(action, params) ==
    /\ Trimmed[params.service] # NoName
    /\ Trimmed[params.project] # NoName
    /\ action = "roll-deploy" => Trimmed[params.image_ref] # NoName

\* backend:project/service, and @image_ref for roll-deploy.
TargetOf(action, params) ==
    <<Trimmed[params.project], Trimmed[params.service],
      IF action = "roll-deploy" THEN Trimmed[params.image_ref] ELSE NoName>>

Resolve(topology, action, params) ==
    LET answer == topology[<<Trimmed[params.project], Trimmed[params.service]>>]
    IN  IF /\ ParamsComplete(action, params)
           /\ answer.ok
           /\ answer.matched # << >>
        THEN [ok     |-> TRUE,
              reach  |-> Reach(answer.matched, answer.inventory),
              target |-> TargetOf(action, params)]
        ELSE Unresolved
=============================================================================
