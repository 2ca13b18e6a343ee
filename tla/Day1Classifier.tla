--------------------------- MODULE Day1Classifier ---------------------------
(***************************************************************************)
(* The Classifier of package evidence: a snapshot and its facts in, a      *)
(* Day-1 verdict out.  It is read-only, so it is modelled by operators.    *)
(***************************************************************************)
EXTENDS Day1Normalizer, Sequences

\* Day1ReadinessLadder, in order.
Ladder ==
  <<"NODE_SEEN", "MCP_REACHABLE", "MCP_TRUSTED", "AWARENESS_READY",
    "PACKAGE_BOM_READY", "ETCD_MEMBER_READY", "LOCAL_RUNTIME_OBSERVED",
    "PKI_READY", "SCYLLA_READY", "OBJECTSTORE_READY", "GATEWAY_READY",
    "WORKFLOW_READY", "WORKLOAD_READY", "DAY1_COMPLETE">>

\* No observed unit carries one of the names.
NoneExpected(services, names) == \A u \in DOMAIN services : u.name \notin names

\* An observed port answers for itself; an unobserved one is ready only when
\* nothing that should own it runs here.
PortReady(snap, port, owners) ==
  IF port \in DOMAIN snap.ports THEN snap.ports[port]
                                ELSE NoneExpected(snap.services, owners)

\* Mutant: a bundle that did not parse counts as loaded.
BundleReadyAnyStatus(snap, facts) ==
  /\ snap.bundle.present
  /\ ~HasFact(facts, "AWARENESS_BUNDLE_MISMATCH", "awareness")
  /\ ~HasFact(facts, "AWARENESS_BUNDLE_STALE", "awareness")

BundleReady(snap, facts) ==
  /\ snap.bundle.present
  /\ snap.bundle.status = "LOADED"
  /\ ~HasFact(facts, "AWARENESS_BUNDLE_MISMATCH", "awareness")
  /\ ~HasFact(facts, "AWARENESS_BUNDLE_STALE", "awareness")

BOMReady(snap, facts) ==
  snap.release.version # "" /\ ~HasFact(facts, "RELEASE_INDEX_MISSING", "")

EtcdReady(snap, facts) ==
  /\ ~HasFact(facts, "ETCD_UNREACHABLE", "etcd")
  /\ PortReady(snap, 2379, {"etcd"})

PKIReady(facts) ==
  /\ ~HasFact(facts, "PKI_MISSING", "pki")
  /\ ~HasFact(facts, "PKI_UNREADABLE", "pki")

ScyllaReady(snap, facts) ==
  /\ \A name \in {"scylla", "scylla-server"} :
       /\ ~HasFact(facts, "SCYLLA_CQL_UNREACHABLE", name)
       /\ ~HasFact(facts, "SERVICE_FAILED", name)
  /\ ~HasFact(facts, "SCYLLA_SERVICE_FAILED", "scylla")
  /\ PortReady(snap, 9042, {"scylla", "scylla-server"})

ObjectstoreReady(snap, facts) ==
  /\ ~HasFact(facts, "OBJECTSTORE_TOPOLOGY_CONTRACT_MISSING", "minio")
  /\ ~HasFact(facts, "SERVICE_FAILED", "minio")
  /\ PortReady(snap, 9000, {"minio"})

GatewayReady(facts) ==
  /\ ~HasFact(facts, "SERVICE_FAILED", "envoy")
  /\ ~HasFact(facts, "GATEWAY_BOOTSTRAP_MISSING", "envoy")

WorkflowReady(snap, facts) ==
  /\ ~HasFact(facts, "WORKFLOW_REMEDIATION_UNSAFE", "globular-workflow")
  /\ ~HasFact(facts, "WORKFLOW_DEPENDENCY_BLOCKED", "globular-workflow")
  /\ ScyllaReady(snap, facts)

WorkloadReady(snap, facts) ==
  /\ ScyllaReady(snap, facts)
  /\ ObjectstoreReady(snap, facts)
  /\ GatewayReady(facts)
  /\ EtcdReady(snap, facts)
  /\ BundleReady(snap, facts)
  /\ PKIReady(facts)

MCPTrusted(facts) ==
  /\ ~HasFact(facts, "MCP_REACHABLE_BUT_UNTRUSTED", "")
  /\ ~HasFact(facts, "MCP_REACHABLE_UNTRUSTED", "")

\* Every level is computed on its own, whatever the levels below it say.
Readiness(snap, facts) ==
  [NODE_SEEN              |-> TRUE,
   MCP_REACHABLE          |-> TRUE,
   MCP_TRUSTED            |-> MCPTrusted(facts),
   AWARENESS_READY        |-> BundleReady(snap, facts),
   PACKAGE_BOM_READY      |-> BOMReady(snap, facts),
   ETCD_MEMBER_READY      |-> EtcdReady(snap, facts),
   LOCAL_RUNTIME_OBSERVED |-> DOMAIN snap.services # {},
   PKI_READY              |-> PKIReady(facts),
   SCYLLA_READY           |-> ScyllaReady(snap, facts),
   OBJECTSTORE_READY      |-> ObjectstoreReady(snap, facts),
   GATEWAY_READY          |-> GatewayReady(facts),
   WORKFLOW_READY         |-> WorkflowReady(snap, facts),
   WORKLOAD_READY         |-> WorkloadReady(snap, facts),
   DAY1_COMPLETE          |-> WorkloadReady(snap, facts)]

SomeServiceFailed(facts) ==
  \E f \in facts : f.kind \in {"SERVICE_FAILED", "START_LIMIT_HIT", "UNIT_START_LIMIT_HIT"}

\* Mutant: the PKI gate is looked at before the bundle gates.
ClassificationPKIFirst(snap, facts) ==
  IF HasFact(facts, "PKI_MISSING", "pki") THEN "PKI_MISSING"
  ELSE IF ~PKIReady(facts) THEN "PKI_UNREADABLE"
  ELSE IF ~snap.bundle.present THEN "AWARENESS_BUNDLE_MISSING"
  ELSE IF HasFact(facts, "AWARENESS_BUNDLE_MISMATCH", "awareness") THEN "AWARENESS_BUNDLE_MISMATCH"
  ELSE IF HasFact(facts, "AWARENESS_BUNDLE_STALE", "awareness") THEN "AWARENESS_BUNDLE_STALE"
  ELSE IF WorkloadReady(snap, facts) THEN "HEALTHY" ELSE "UNKNOWN"

\* Mutant: the workflow gate is looked at before the gates it derives from.
ClassificationWorkflowFirst(snap, facts) ==
  IF HasFact(facts, "WORKFLOW_REMEDIATION_UNSAFE", "globular-workflow")
    THEN "WORKFLOW_REMEDIATION_UNSAFE"
  ELSE IF WorkloadReady(snap, facts) THEN "HEALTHY" ELSE "UNKNOWN"

\* The first gate that fails names the blocker.
Classification(snap, facts) ==
  IF ~MCPTrusted(facts) THEN "MCP_REACHABLE_BUT_UNTRUSTED"
  ELSE IF ~snap.bundle.present THEN "AWARENESS_BUNDLE_MISSING"
  ELSE IF HasFact(facts, "AWARENESS_BUNDLE_MISMATCH", "awareness") THEN "AWARENESS_BUNDLE_MISMATCH"
  ELSE IF HasFact(facts, "AWARENESS_BUNDLE_STALE", "awareness") THEN "AWARENESS_BUNDLE_STALE"
  ELSE IF HasFact(facts, "PKI_MISSING", "pki") THEN "PKI_MISSING"
  ELSE IF ~PKIReady(facts) THEN "PKI_UNREADABLE"
  ELSE IF ~EtcdReady(snap, facts)
    THEN IF DOMAIN snap.services # {} THEN "AUTHORITY_LOST_WITH_LOCAL_RUNTIME_SURVIVED"
                                      ELSE "ETCD_NOT_READY"
  ELSE IF HasFact(facts, "SCYLLA_CONFIG_AUTHORITY_DRIFT", "scylla")
    THEN "SCYLLA_CONFIG_AUTHORITY_DRIFT"
  ELSE IF ~ScyllaReady(snap, facts) THEN "JOINED_BUT_DEPENDENCY_BLOCKED"
  ELSE IF HasFact(facts, "WORKFLOW_REMEDIATION_UNSAFE", "globular-workflow")
    THEN "WORKFLOW_REMEDIATION_UNSAFE"
  ELSE IF ~ObjectstoreReady(snap, facts) THEN "OBJECTSTORE_NOT_READY"
  ELSE IF ~GatewayReady(facts) THEN "GATEWAY_NOT_READY"
  ELSE IF SomeServiceFailed(facts) THEN "SERVICE_FAILED"
  ELSE IF WorkloadReady(snap, facts) THEN "HEALTHY"
  ELSE "UNKNOWN"

\* The forbidden actions a property tells apart: completing Day-1, re-issuing
\* certificates, and judging the architecture from a bundle known to be wrong.
ForbiddenActions(class) ==
  When(class \notin {"HEALTHY", "WORKFLOW_REMEDIATION_UNSAFE"}, {"mark node DAY1_COMPLETE"})
    \cup When(class = "PKI_UNREADABLE", {"re-issue PKI artifacts"})
    \cup When(class \in {"AWARENESS_BUNDLE_MISMATCH", "AWARENESS_BUNDLE_STALE"},
              {"classify architecture-sensitive failures"})

\* The services the critical and high facts block.
BlockedServices(facts) ==
  UNION {f.blocks : f \in {g \in facts : g.severity \in {"CRITICAL", "HIGH"}}}

Classify(snap, facts) ==
  LET class == Classification(snap, facts)
      ready == Readiness(snap, facts)
  IN [verdict   |-> IF ready.DAY1_COMPLETE THEN "PASS"
                    ELSE IF class = "UNKNOWN" THEN "UNKNOWN" ELSE "BLOCK",
      class     |-> class,
      readiness |-> ready,
      blocked   |-> BlockedServices(facts),
      forbidden |-> ForbiddenActions(class)]

\* The whole pipeline after collection.
Judge(snap) == Classify(snap, Normalize(snap))
=============================================================================
