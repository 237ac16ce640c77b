------------------------------ MODULE MCEngine ------------------------------
(***************************************************************************)
(* Small instances of Engine: one compose project "app" with one service   *)
(* "web" whose containers move between two hosts, two automation keys (one *)
(* of which spells the name of a human), two humans.                       *)
(***************************************************************************)
EXTENDS EngineInv, TLC

MCNames == {"", "restart-service", "roll-deploy", "app", "web", "img1", "img2", "compose", "h1", "h2"}
MCTrimmed == [n \in MCNames |-> n]

MCPrincipals == {"", "bot", "Ann", "ann", "bob"}
MCCanon == [p \in MCPrincipals |-> IF p = "Ann" THEN "ann" ELSE p]
MCHumans == {"", "ann", "bob"}

\* A fleet: the containers of "web" by host; the rest of it does not answer.
Fleet(hosts, inventory) ==
    [t \in MCNames \X MCNames |->
        IF t = <<"app", "web">>
        THEN [ok |-> TRUE, inventory |-> inventory,
              matched |-> [i \in 1..Len(hosts) |-> [Service |-> "web", Host |-> hosts[i]]]]
        ELSE [ok |-> FALSE, inventory |-> 0, matched |-> << >>]]

OneHost  == Fleet(<<"h1">>, 2)
TwoOnOne == Fleet(<<"h1", "h1">>, 2)
TwoHosts == Fleet(<<"h1", "h2">>, 2)
Gone     == Fleet(<< >>, 2)

Restart(proposer, service) ==
    [Action |-> "restart-service", Backend |-> "compose", Project |-> "app",
     Params |-> [service |-> "web", project |-> "app", image_ref |-> ""],
     DeclaredBound |-> [MaxHosts |-> 1, Service |-> service, FleetPct |-> 100],
     Dormant |-> {}, ProposerKeyID |-> proposer]

Roll(proposer, image) ==
    [Restart(proposer, "web") EXCEPT !.Action = "roll-deploy", !.Params.image_ref = image]

\* The same restart proposed by two keys.
TwoProposers == {Restart("bot", "web"), Restart("Ann", "web")}
\* One roll, declared with one host by one key and with two by another.
TwoBounds == {Roll("bot", "img1"),
              [Roll("Ann", "img1") EXCEPT !.DeclaredBound.MaxHosts = 2]}
\* One restart, and one whose bound names no service.
OneRestart == {Restart("bot", "web"), Restart("bot", "")}
\* One service, two images.
TwoImages == {Roll("bot", "img1"), Roll("bot", "img2")}

MCModes == [MaxHosts |-> "warn", Service |-> "warn", FleetPct |-> "warn"]

More == Fleet(<<"h1", "h1">>, 1)

Spreading == {OneHost, TwoHosts}
Still == {OneHost}
Vanishing == {OneHost, TwoHosts, Gone}
Steady == {OneHost, TwoOnOne}
Stale == {OneHost, More}

Symmetry == Permutations(Calls)
=============================================================================
