------------------------------ MODULE MCFleet ------------------------------
(***************************************************************************)
(* Small fleets: two services on two hosts, with blank names among them.   *)
(***************************************************************************)
EXTENDS Fleet

MixedWorkloads == {[Service |-> "web", Host |-> "h1"], [Service |-> "web", Host |-> "h2"],
                   [Service |-> "db", Host |-> "h1"], [Service |-> "web", Host |-> NoName],
                   [Service |-> NoName, Host |-> "h2"]}

Bound(hosts, pct) == [MaxHosts |-> hosts, Service |-> "web", FleetPct |-> pct]
TightAndLoose == {Bound(1, 50), Bound(2, 100), Bound(1, 34)}
=============================================================================
