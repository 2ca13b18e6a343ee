--------------------------- MODULE Day1Normalizer ---------------------------
(***************************************************************************)
(* The Normalizer of package evidence: raw observations of one node in,    *)
(* runtime facts out.  It is stateless, so it is modelled by operators.    *)
(*                                                                         *)
(* A snapshot holds what the Collector read:                               *)
(*   release   [present, version, build]          release-index.json       *)
(*   bundle    [present, version, build, status]  awareness bundle         *)
(*   pki       file -> [present, readable]        CA, node cert, node key  *)
(*   scylla    [present, seeds]                   scylla.yaml              *)
(*   services  unit -> [active, sub]              systemd units observed   *)
(*   ports     port -> listening                  TCP ports observed       *)
(*                                                                         *)
(* The order of the facts, their timestamps and their wording are left     *)
(* out: nothing downstream but the text of PrimaryBlocker depends on them, *)
(* so the facts of a snapshot are a set.                                   *)
(***************************************************************************)
EXTENDS Naturals

CONSTANTS
  Units,     \* observed systemd units: [name: the unit less ".service",
             \*                          base: canonicalUnitBase of the unit]
  PKIFiles   \* the PKI artifacts the collector looks at

(***************************************************************************)
(* Facts.  Only what a consumer branches on is kept.                       *)
(***************************************************************************)
Fact(kind, service, severity, blocks) ==
  [kind |-> kind, service |-> service, severity |-> severity, blocks |-> blocks]

HasFact(facts, kind, service) ==
  \E f \in facts : f.kind = kind /\ f.service = service

When(condition, facts) == IF condition THEN facts ELSE {}

PKIDependents == {"mcp", "grpc", "mesh", "node-agent"}

\* The subsystems that hang on a backend are listed three times: here, for a
\* failed unit and for a closed port.
ServiceBlocks(name) ==
  CASE name \in {"scylla", "scylla-server"} -> {"workflow", "event", "resource", "repository"}
    [] name = "minio"                       -> {"repository", "package-distribution"}
    [] name = "etcd"                        -> {"controller", "node-agent", "all"}
    [] name = "envoy"                       -> {"mesh", "gateway"}
    [] name = "workflow"                    -> {"automation"}
    [] OTHER                                -> {}

(***************************************************************************)
(* Awareness bundle and release index.                                     *)
(***************************************************************************)
BundleStatusFacts(b) ==
  When(~b.present \/ b.status = "MISSING",
       {Fact("AWARENESS_BUNDLE_MISSING", "awareness", "HIGH", {"mcp", "day1"})})
  \cup
  When(b.status = "STALE",
       {Fact("AWARENESS_BUNDLE_STALE", "awareness", "MEDIUM", {})})

ReleaseIndexFacts(r) ==
  When(~r.present, {Fact("RELEASE_INDEX_MISSING", "", "HIGH", {})})

\* The two can be compared only when there is a bundle and a release version.
Comparable(b, r) == b.present /\ r.version # ""

VersionDrift(b, r) == Comparable(b, r) /\ b.version # "" /\ b.version # r.version

BuildDrift(b, r) ==
  /\ Comparable(b, r) /\ ~VersionDrift(b, r)
  /\ b.build # "" /\ r.build # "" /\ b.build # r.build

Drift(b, r) == VersionDrift(b, r) \/ BuildDrift(b, r)

BundleVersionFacts(b, r) ==
  When(VersionDrift(b, r),
       {Fact("AWARENESS_BUNDLE_MISMATCH", "awareness", "HIGH", {})})
  \cup
  When(BuildDrift(b, r),
       {Fact("AWARENESS_BUNDLE_STALE", "awareness", "HIGH", {})})

(***************************************************************************)
(* PKI: missing wins over unreadable.                                      *)
(***************************************************************************)
\* Mutant: readability is not looked at.
PKIFactsPresenceOnly(pki) ==
  When(\E f \in PKIFiles : ~pki[f].present,
       {Fact("PKI_MISSING", "pki", "HIGH", PKIDependents)})

\* Mutant: unreadable wins over missing.
PKIFactsUnreadableFirst(pki) ==
  When(\E f \in PKIFiles : ~pki[f].readable,
       {Fact("PKI_UNREADABLE", "pki", "HIGH", PKIDependents)})

PKIFacts(pki) ==
  IF \E f \in PKIFiles : ~pki[f].present
    THEN {Fact("PKI_MISSING", "pki", "HIGH", PKIDependents)}
    ELSE When(\E f \in PKIFiles : ~pki[f].readable,
              {Fact("PKI_UNREADABLE", "pki", "HIGH", PKIDependents)})

ScyllaConfigFacts(cfg) ==
  When(cfg.present /\ ~cfg.seeds,
       {Fact("SCYLLA_CONFIG_AUTHORITY_DRIFT", "scylla", "HIGH", {})})

(***************************************************************************)
(* systemd units.  The KIND of the fact of a failed unit is chosen by the  *)
(* canonical base of the unit, but its SERVICE is the observed name.       *)
(***************************************************************************)
ServiceFailFact(u) ==
  CASE u.base \in {"scylla-server", "scylla"} ->
         Fact("SCYLLA_CQL_UNREACHABLE", u.name, "CRITICAL",
              {"workflow", "event", "resource", "repository"})
    [] u.base = "minio" ->
         Fact("OBJECTSTORE_TOPOLOGY_CONTRACT_MISSING", u.name, "HIGH",
              {"repository", "package-distribution"})
    [] u.base = "etcd" ->
         Fact("ETCD_UNREACHABLE", u.name, "CRITICAL", {"controller", "node-agent", "all"})
    [] u.base = "envoy" ->
         Fact("GATEWAY_BOOTSTRAP_MISSING", u.name, "HIGH", {"mesh", "gateway"})
    [] OTHER ->
         Fact("SERVICE_FAILED", u.name, "HIGH", ServiceBlocks(u.base))

IsCriticalUnit(u) == u.base \in {"node-agent", "etcd"}

\* expectedPort, by the observed name; 0 is "none known".
ExpectedPort(name) ==
  CASE name \in {"scylla", "scylla-server"}   -> 9042
    [] name = "etcd"                          -> 2379
    [] name = "minio"                         -> 9000
    [] name = "globular-mcp"                  -> 10260
    [] name = "globular-workflow"             -> 10004
    [] name = "globular-cluster-controller"   -> 12000
    [] name = "globular-node-agent"           -> 11000
    [] OTHER                                  -> 0

Closed(ports, p) == p \in DOMAIN ports /\ ~ports[p]

UnitFacts(u, obs, ports) ==
  When(obs.active = "failed", {ServiceFailFact(u)})
  \cup
  When(obs.active = "inactive" /\ IsCriticalUnit(u),
       {Fact("SERVICE_FAILED", u.name, "MEDIUM", {})})
  \cup
  When(obs.sub \in {"start-limit-hit", "auto-restart-queue"},
       {Fact(kind, u.name, "HIGH", ServiceBlocks(u.name)) :
          kind \in {"UNIT_START_LIMIT_HIT", "START_LIMIT_HIT"}})
  \cup
  When(obs.active = "active" /\ ExpectedPort(u.name) > 0 /\ Closed(ports, ExpectedPort(u.name)),
       {Fact(kind, u.name, "HIGH", {}) :
          kind \in {"SERVICE_ACTIVE_HEALTH_FAILED", "RUNTIME_HEALTH_MISMATCH"}})

ServiceFacts(services, ports) ==
  UNION {UnitFacts(u, services[u], ports) : u \in DOMAIN services}

(***************************************************************************)
(* Ports of the three backends.                                            *)
(***************************************************************************)
\* Mutant: the list of the Scylla port is left behind when another is edited.
PortRulesStale ==
  {[port |-> 9042, fact |-> Fact("SCYLLA_CQL_UNREACHABLE", "scylla", "CRITICAL",
                                 {"workflow", "event", "resource"})],
   [port |-> 2379, fact |-> Fact("ETCD_UNREACHABLE", "etcd", "CRITICAL",
                                 {"controller", "node-agent", "all"})],
   [port |-> 9000, fact |-> Fact("OBJECTSTORE_TOPOLOGY_CONTRACT_MISSING", "minio", "HIGH",
                                 {"repository", "package-distribution"})]}

PortRules ==
  {[port |-> 9042, fact |-> Fact("SCYLLA_CQL_UNREACHABLE", "scylla", "CRITICAL",
                                 {"workflow", "event", "resource", "repository"})],
   [port |-> 2379, fact |-> Fact("ETCD_UNREACHABLE", "etcd", "CRITICAL",
                                 {"controller", "node-agent", "all"})],
   [port |-> 9000, fact |-> Fact("OBJECTSTORE_TOPOLOGY_CONTRACT_MISSING", "minio", "HIGH",
                                 {"repository", "package-distribution"})]}

PortFacts(ports) == {rule.fact : rule \in {q \in PortRules : Closed(ports, q.port)}}

(***************************************************************************)
(* Workflow safety, derived from the facts so far.                         *)
(***************************************************************************)
WorkflowFacts(services, soFar) ==
  LET scyllaDown == \/ HasFact(soFar, "SCYLLA_CQL_UNREACHABLE", "scylla")
                    \/ HasFact(soFar, "SCYLLA_SERVICE_FAILED", "scylla")
                    \/ HasFact(soFar, "SERVICE_FAILED", "scylla")
      workflowSeen == \E u \in DOMAIN services : u.name = "globular-workflow"
  IN When(scyllaDown /\ workflowSeen,
          {Fact("WORKFLOW_REMEDIATION_UNSAFE", "globular-workflow", "HIGH",
                {"workflow-remediation"})})

RawFacts(snap) ==
  BundleStatusFacts(snap.bundle)
    \cup ReleaseIndexFacts(snap.release)
    \cup BundleVersionFacts(snap.bundle, snap.release)
    \cup PKIFacts(snap.pki)
    \cup ScyllaConfigFacts(snap.scylla)
    \cup ServiceFacts(snap.services, snap.ports)
    \cup PortFacts(snap.ports)

Normalize(snap) == RawFacts(snap) \cup WorkflowFacts(snap.services, RawFacts(snap))
=============================================================================
