--------------------------- MODULE MCDay1Evidence ---------------------------
(***************************************************************************)
(* Instances of Day1Evidence for TLC.                                      *)
(***************************************************************************)
EXTENDS Day1Evidence

Unit(name, base) == [name |-> name, base |-> base]

\* Of the fourteen collected units: the one that carries a generic failure and
\* the workflow rule, and the backend the classifier looks for under its
\* observed name.
MCUnitList == <<Unit("globular-workflow", "workflow"), Unit("scylla-server", "scylla-server")>>
MCUnits    == {MCUnitList[k] : k \in 1..2}

\* A unit whose observed name is not the name the classifier looks for.
MCPrefixedList  == <<Unit("globular-envoy", "envoy")>>
MCPrefixedUnits == {MCPrefixedList[1]}

MCPKIList  == <<"ca.crt", "service.key">>
MCPKIFiles == {"ca.crt", "service.key"}

MCPorts == {9042, 2379, 9000}

MCSocketOrder == [tcp |-> <<9042, 2379, 9000>>, tcp6 |-> <<9000, 9042, 2379>>]

Running == [active |-> "active", sub |-> "running"]
MCUnitStates ==
  {Running, [active |-> "inactive", sub |-> "dead"], [active |-> "failed", sub |-> "failed"],
   [active |-> "failed", sub |-> "start-limit-hit"]}

\* A healthy node, and one that is being brought up.
Healthy ==
  [release |-> NamedFile("1.2", "b1"), bundle |-> NamedFile("1.2", "b1"),
   pki |-> [f \in PKIFiles |-> "readable"], scylla |-> "seeded",
   unit |-> [u \in Units |-> Running], port |-> [p \in Ports |-> IF p = 9000 THEN Families ELSE {"tcp6"}]]

Booting ==
  [release |-> NamedFile("1.2", "b1"), bundle |-> Absent,
   pki |-> [f \in PKIFiles |-> "absent"], scylla |-> "absent",
   unit |-> [u \in Units |-> [active |-> "inactive", sub |-> "dead"]],
   port |-> [p \in Ports |-> {}]]

MCStartStates == {Healthy, Booting}
=============================================================================
