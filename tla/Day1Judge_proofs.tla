-------------------------- MODULE Day1Judge_proofs --------------------------
(***************************************************************************)
(* Lemmas about the Normalizer and the Classifier: for which snapshots a   *)
(* fact is emitted, and what a verdict implies about the snapshot it was   *)
(* judged from.  They hold for every set of units and PKI files.           *)
(***************************************************************************)
EXTENDS Day1Classifier, TLAPS

(***************************************************************************)
(* What each part of the Normalizer can emit.                              *)
(***************************************************************************)
LEMMA FactFields ==
  ASSUME NEW k, NEW s, NEW v, NEW b
  PROVE  /\ Fact(k, s, v, b).kind = k /\ Fact(k, s, v, b).service = s
         /\ Fact(k, s, v, b).severity = v /\ Fact(k, s, v, b).blocks = b
         /\ \A facts : Fact(k, s, v, b) \in facts => HasFact(facts, k, s)
  BY DEF Fact, HasFact

LEMMA BundleStatusEmits ==
  ASSUME NEW b
  PROVE  /\ \A f \in BundleStatusFacts(b) :
              /\ f.kind \in {"AWARENESS_BUNDLE_MISSING", "AWARENESS_BUNDLE_STALE"}
              /\ f.service = "awareness"
              /\ f.kind = "AWARENESS_BUNDLE_STALE" => b.status = "STALE"
         /\ b.status = "STALE" => HasFact(BundleStatusFacts(b), "AWARENESS_BUNDLE_STALE", "awareness")
<1>1. ASSUME NEW f \in BundleStatusFacts(b)
      PROVE  /\ f.kind \in {"AWARENESS_BUNDLE_MISSING", "AWARENESS_BUNDLE_STALE"}
             /\ f.service = "awareness"
             /\ f.kind = "AWARENESS_BUNDLE_STALE" => b.status = "STALE"
  <2>1. CASE f = Fact("AWARENESS_BUNDLE_MISSING", "awareness", "HIGH", {"mcp", "day1"})
    BY <2>1, FactFields
  <2>2. CASE f = Fact("AWARENESS_BUNDLE_STALE", "awareness", "MEDIUM", {}) /\ b.status = "STALE"
    BY <2>2, FactFields
  <2> QED  BY <1>1, <2>1, <2>2 DEF BundleStatusFacts, When
<1>2. b.status = "STALE" => HasFact(BundleStatusFacts(b), "AWARENESS_BUNDLE_STALE", "awareness")
  BY FactFields DEF BundleStatusFacts, When
<1> QED  BY <1>1, <1>2

LEMMA ReleaseIndexEmits ==
  ASSUME NEW r, NEW f \in ReleaseIndexFacts(r)
  PROVE  f.kind = "RELEASE_INDEX_MISSING" /\ f.service = ""
<1>1. f = Fact("RELEASE_INDEX_MISSING", "", "HIGH", {})
  BY DEF ReleaseIndexFacts, When
<1>2. /\ Fact("RELEASE_INDEX_MISSING", "", "HIGH", {}).kind = "RELEASE_INDEX_MISSING"
      /\ Fact("RELEASE_INDEX_MISSING", "", "HIGH", {}).service = ""
  BY DEF Fact
<1> QED  BY <1>1, <1>2

LEMMA BundleVersionEmits ==
  ASSUME NEW b, NEW r
  PROVE  /\ \A f \in BundleVersionFacts(b, r) :
              /\ f.service = "awareness"
              /\ \/ f.kind = "AWARENESS_BUNDLE_MISMATCH" /\ VersionDrift(b, r)
                 \/ f.kind = "AWARENESS_BUNDLE_STALE" /\ BuildDrift(b, r)
         /\ VersionDrift(b, r) =>
              HasFact(BundleVersionFacts(b, r), "AWARENESS_BUNDLE_MISMATCH", "awareness")
         /\ BuildDrift(b, r) =>
              HasFact(BundleVersionFacts(b, r), "AWARENESS_BUNDLE_STALE", "awareness")
<1>1. ASSUME NEW f \in BundleVersionFacts(b, r)
      PROVE  /\ f.service = "awareness"
             /\ \/ f.kind = "AWARENESS_BUNDLE_MISMATCH" /\ VersionDrift(b, r)
                \/ f.kind = "AWARENESS_BUNDLE_STALE" /\ BuildDrift(b, r)
  <2>1. CASE /\ f = Fact("AWARENESS_BUNDLE_MISMATCH", "awareness", "HIGH", {})
             /\ VersionDrift(b, r)
    BY <2>1, FactFields
  <2>2. CASE f = Fact("AWARENESS_BUNDLE_STALE", "awareness", "HIGH", {}) /\ BuildDrift(b, r)
    BY <2>2, FactFields
  <2> QED  BY <1>1, <2>1, <2>2 DEF BundleVersionFacts, When
<1>2. VersionDrift(b, r) =>
        HasFact(BundleVersionFacts(b, r), "AWARENESS_BUNDLE_MISMATCH", "awareness")
  BY FactFields DEF BundleVersionFacts, When
<1>3. BuildDrift(b, r) =>
        HasFact(BundleVersionFacts(b, r), "AWARENESS_BUNDLE_STALE", "awareness")
  BY FactFields DEF BundleVersionFacts, When
<1> QED  BY <1>1, <1>2, <1>3

LEMMA PKIEmits ==
  ASSUME NEW pki
  PROVE  /\ \A f \in PKIFacts(pki) :
              /\ f.service = "pki"
              /\ \/ f.kind = "PKI_MISSING" /\ \E x \in PKIFiles : ~pki[x].present
                 \/ /\ f.kind = "PKI_UNREADABLE"
                    /\ \A x \in PKIFiles : pki[x].present
                    /\ \E x \in PKIFiles : ~pki[x].readable
         /\ (\E x \in PKIFiles : ~pki[x].present) => HasFact(PKIFacts(pki), "PKI_MISSING", "pki")
         /\ (\E x \in PKIFiles : ~pki[x].readable) =>
              \/ HasFact(PKIFacts(pki), "PKI_MISSING", "pki")
              \/ HasFact(PKIFacts(pki), "PKI_UNREADABLE", "pki")
<1> DEFINE missing    == Fact("PKI_MISSING", "pki", "HIGH", PKIDependents)
           unreadable == Fact("PKI_UNREADABLE", "pki", "HIGH", PKIDependents)
<1>1. CASE \E x \in PKIFiles : ~pki[x].present
  <2>1. PKIFacts(pki) = {missing}
    BY <1>1 DEF PKIFacts
  <2> HIDE DEF missing
  <2>2. missing.kind = "PKI_MISSING" /\ missing.service = "pki"
    BY FactFields DEF missing
  <2> QED  BY <1>1, <2>1, <2>2 DEF HasFact
<1>2. CASE (\A x \in PKIFiles : pki[x].present) /\ \E x \in PKIFiles : ~pki[x].readable
  <2>1. PKIFacts(pki) = {unreadable}
    BY <1>2 DEF PKIFacts, When
  <2> HIDE DEF unreadable
  <2>2. unreadable.kind = "PKI_UNREADABLE" /\ unreadable.service = "pki"
    BY FactFields DEF unreadable
  <2> QED  BY <1>2, <2>1, <2>2 DEF HasFact
<1>3. CASE (\A x \in PKIFiles : pki[x].present) /\ (\A x \in PKIFiles : pki[x].readable)
  BY <1>3 DEF PKIFacts, When
<1> QED  BY <1>1, <1>2, <1>3

LEMMA ScyllaConfigEmits ==
  ASSUME NEW cfg, NEW f \in ScyllaConfigFacts(cfg)
  PROVE  f.kind = "SCYLLA_CONFIG_AUTHORITY_DRIFT" /\ f.service = "scylla"
  BY DEF ScyllaConfigFacts, When, Fact

UnitKinds ==
  {"SCYLLA_CQL_UNREACHABLE", "OBJECTSTORE_TOPOLOGY_CONTRACT_MISSING", "ETCD_UNREACHABLE",
   "GATEWAY_BOOTSTRAP_MISSING", "SERVICE_FAILED", "UNIT_START_LIMIT_HIT", "START_LIMIT_HIT",
   "SERVICE_ACTIVE_HEALTH_FAILED", "RUNTIME_HEALTH_MISMATCH"}

LEMMA ServiceFailEmits ==
  ASSUME NEW u
  PROVE  /\ ServiceFailFact(u).kind \in UnitKinds
         /\ ServiceFailFact(u).service = u.name
         /\ u.base \in {"scylla-server", "scylla"} =>
              ServiceFailFact(u).kind = "SCYLLA_CQL_UNREACHABLE"
<1>1. CASE u.base \in {"scylla-server", "scylla"}
  BY <1>1 DEF ServiceFailFact, Fact, UnitKinds
<1>2. CASE u.base = "minio"
  BY <1>2 DEF ServiceFailFact, Fact, UnitKinds
<1>3. CASE u.base = "etcd"
  BY <1>3 DEF ServiceFailFact, Fact, UnitKinds
<1>4. CASE u.base = "envoy"
  BY <1>4 DEF ServiceFailFact, Fact, UnitKinds
<1>5. CASE u.base \notin {"scylla-server", "scylla", "minio", "etcd", "envoy"}
  BY <1>5 DEF ServiceFailFact, Fact, UnitKinds
<1> QED  BY <1>1, <1>2, <1>3, <1>4, <1>5

LEMMA UnitEmits ==
  ASSUME NEW u, NEW obs, NEW ports
  PROVE  /\ \A f \in UnitFacts(u, obs, ports) : f.kind \in UnitKinds /\ f.service = u.name
         /\ obs.active = "failed" => ServiceFailFact(u) \in UnitFacts(u, obs, ports)
<1>1. ASSUME NEW f \in UnitFacts(u, obs, ports)
      PROVE  f.kind \in UnitKinds /\ f.service = u.name
  <2>1. CASE f \in {ServiceFailFact(u)}
    BY <2>1, ServiceFailEmits
  <2>2. CASE f \in {Fact("SERVICE_FAILED", u.name, "MEDIUM", {})}
    BY <2>2 DEF Fact, UnitKinds
  <2>3. CASE f \in {Fact(kind, u.name, "HIGH", ServiceBlocks(u.name)) :
                      kind \in {"UNIT_START_LIMIT_HIT", "START_LIMIT_HIT"}}
    BY <2>3 DEF Fact, UnitKinds
  <2>4. CASE f \in {Fact(kind, u.name, "HIGH", {}) :
                      kind \in {"SERVICE_ACTIVE_HEALTH_FAILED", "RUNTIME_HEALTH_MISMATCH"}}
    BY <2>4 DEF Fact, UnitKinds
  <2> QED  BY <1>1, <2>1, <2>2, <2>3, <2>4 DEF UnitFacts, When
<1>2. obs.active = "failed" => ServiceFailFact(u) \in UnitFacts(u, obs, ports)
  BY DEF UnitFacts, When
<1> QED  BY <1>1, <1>2

LEMMA ServicesEmit ==
  ASSUME NEW services, NEW ports
  PROVE  /\ \A f \in ServiceFacts(services, ports) :
              f.kind \in UnitKinds /\ \E u \in DOMAIN services : f.service = u.name
         /\ \A u \in DOMAIN services :
              services[u].active = "failed" => ServiceFailFact(u) \in ServiceFacts(services, ports)
  BY UnitEmits DEF ServiceFacts

LEMMA PortsEmit ==
  ASSUME NEW ports
  PROVE  /\ \A f \in PortFacts(ports) :
              f.kind \in {"SCYLLA_CQL_UNREACHABLE", "ETCD_UNREACHABLE",
                          "OBJECTSTORE_TOPOLOGY_CONTRACT_MISSING"}
         /\ \A q \in PortRules : Closed(ports, q.port) => q.fact \in PortFacts(ports)
<1>1. \A f \in PortFacts(ports) : \E q \in PortRules : f = q.fact
  BY DEF PortFacts
<1>2. ASSUME NEW q \in PortRules
      PROVE  q.fact.kind \in {"SCYLLA_CQL_UNREACHABLE", "ETCD_UNREACHABLE",
                             "OBJECTSTORE_TOPOLOGY_CONTRACT_MISSING"}
  BY FactFields DEF PortRules
<1>3. \A q \in PortRules : Closed(ports, q.port) => q.fact \in PortFacts(ports)
  BY DEF PortFacts
<1> QED  BY <1>1, <1>2, <1>3

LEMMA WorkflowEmits ==
  ASSUME NEW services, NEW soFar, NEW f \in WorkflowFacts(services, soFar)
  PROVE  /\ f.kind = "WORKFLOW_REMEDIATION_UNSAFE" /\ f.service = "globular-workflow"
         /\ \/ HasFact(soFar, "SCYLLA_CQL_UNREACHABLE", "scylla")
            \/ HasFact(soFar, "SCYLLA_SERVICE_FAILED", "scylla")
            \/ HasFact(soFar, "SERVICE_FAILED", "scylla")
  BY DEF WorkflowFacts, When, Fact

(***************************************************************************)
(* The facts of a snapshot the gates look for.                             *)
(***************************************************************************)
LEMMA RawEmits ==
  ASSUME NEW s, NEW f \in RawFacts(s)
  PROVE  \/ f \in BundleStatusFacts(s.bundle) \/ f \in ReleaseIndexFacts(s.release)
         \/ f \in BundleVersionFacts(s.bundle, s.release) \/ f \in PKIFacts(s.pki)
         \/ f \in ScyllaConfigFacts(s.scylla) \/ f \in ServiceFacts(s.services, s.ports)
         \/ f \in PortFacts(s.ports)
  BY DEF RawFacts

LEMMA NormalizeEmits ==
  ASSUME NEW s, NEW f \in Normalize(s)
  PROVE  f \in RawFacts(s) \/ f \in WorkflowFacts(s.services, RawFacts(s))
  BY DEF Normalize

LEMMA HasFactGrows ==
  ASSUME NEW S, NEW T, S \subseteq T, NEW k, NEW v, HasFact(S, k, v)
  PROVE  HasFact(T, k, v)
  BY DEF HasFact

\* No fact of the Normalizer questions the MCP connection.
LEMMA NeverUntrusted == ASSUME NEW s PROVE MCPTrusted(Normalize(s))
<1>1. ASSUME NEW f \in Normalize(s)
      PROVE  f.kind \notin {"MCP_REACHABLE_BUT_UNTRUSTED", "MCP_REACHABLE_UNTRUSTED"}
  <2>1. CASE f \in RawFacts(s)
    BY <2>1, RawEmits, BundleStatusEmits, ReleaseIndexEmits, BundleVersionEmits, PKIEmits,
       ScyllaConfigEmits, ServicesEmit, PortsEmit DEF UnitKinds
  <2>2. CASE f \in WorkflowFacts(s.services, RawFacts(s))
    BY <2>2, WorkflowEmits
  <2> QED  BY <2>1, <2>2, NormalizeEmits
<1> QED  BY <1>1 DEF MCPTrusted, HasFact

\* The bundle facts say exactly what is wrong with the bundle.
LEMMA BundleFacts ==
  ASSUME NEW s
  PROVE  /\ HasFact(Normalize(s), "AWARENESS_BUNDLE_MISMATCH", "awareness")
              <=> VersionDrift(s.bundle, s.release)
         /\ HasFact(Normalize(s), "AWARENESS_BUNDLE_STALE", "awareness")
              <=> s.bundle.status = "STALE" \/ BuildDrift(s.bundle, s.release)
<1>1. ASSUME NEW f \in Normalize(s)
      PROVE  /\ f.kind = "AWARENESS_BUNDLE_MISMATCH" => VersionDrift(s.bundle, s.release)
             /\ f.kind = "AWARENESS_BUNDLE_STALE" =>
                  s.bundle.status = "STALE" \/ BuildDrift(s.bundle, s.release)
  <2>1. CASE f \in RawFacts(s)
    BY <2>1, RawEmits, BundleStatusEmits, ReleaseIndexEmits, BundleVersionEmits, PKIEmits,
       ScyllaConfigEmits, ServicesEmit, PortsEmit DEF UnitKinds
  <2>2. CASE f \in WorkflowFacts(s.services, RawFacts(s))
    BY <2>2, WorkflowEmits
  <2> QED  BY <2>1, <2>2, NormalizeEmits
<1>2. /\ BundleStatusFacts(s.bundle) \subseteq Normalize(s)
      /\ BundleVersionFacts(s.bundle, s.release) \subseteq Normalize(s)
  BY DEF Normalize, RawFacts
<1>3. VersionDrift(s.bundle, s.release)
        => HasFact(Normalize(s), "AWARENESS_BUNDLE_MISMATCH", "awareness")
  BY <1>2, BundleVersionEmits, HasFactGrows
<1>4. s.bundle.status = "STALE" \/ BuildDrift(s.bundle, s.release)
        => HasFact(Normalize(s), "AWARENESS_BUNDLE_STALE", "awareness")
  BY <1>2, BundleStatusEmits, BundleVersionEmits, HasFactGrows
<1> QED  BY <1>1, <1>3, <1>4 DEF HasFact

\* The PKI facts say exactly what is wrong with the certificates.
LEMMA CertificateFacts ==
  ASSUME NEW s
  PROVE  /\ HasFact(Normalize(s), "PKI_MISSING", "pki") <=> \E x \in PKIFiles : ~s.pki[x].present
         /\ PKIReady(Normalize(s)) => \A x \in PKIFiles : s.pki[x].present /\ s.pki[x].readable
<1>1. ASSUME NEW f \in Normalize(s), f.kind = "PKI_MISSING"
      PROVE  \E x \in PKIFiles : ~s.pki[x].present
  <2>1. CASE f \in RawFacts(s)
    BY <1>1, <2>1, RawEmits, BundleStatusEmits, ReleaseIndexEmits, BundleVersionEmits, PKIEmits,
       ScyllaConfigEmits, ServicesEmit, PortsEmit DEF UnitKinds
  <2>2. CASE f \in WorkflowFacts(s.services, RawFacts(s))
    BY <1>1, <2>2, WorkflowEmits
  <2> QED  BY <2>1, <2>2, NormalizeEmits
<1>2. PKIFacts(s.pki) \subseteq Normalize(s)
  BY DEF Normalize, RawFacts
<1>3. (\E x \in PKIFiles : ~s.pki[x].present) => HasFact(Normalize(s), "PKI_MISSING", "pki")
  BY <1>2, PKIEmits, HasFactGrows
<1>4. (\E x \in PKIFiles : ~s.pki[x].readable) => ~PKIReady(Normalize(s))
  BY <1>2, PKIEmits, HasFactGrows DEF PKIReady
<1>5. PKIReady(Normalize(s)) => ~HasFact(Normalize(s), "PKI_MISSING", "pki")
  BY DEF PKIReady
<1> QED  BY <1>1, <1>3, <1>4, <1>5 DEF HasFact

\* Workflow remediation is unsafe only on a node whose Scylla is not ready.
LEMMA UnsafeWorkflowNeedsScyllaDown ==
  ASSUME NEW s, ScyllaReady(s, Normalize(s))
  PROVE  ~HasFact(Normalize(s), "WORKFLOW_REMEDIATION_UNSAFE", "globular-workflow")
<1>1. RawFacts(s) \subseteq Normalize(s)
  BY DEF Normalize
<1>2. /\ ~HasFact(RawFacts(s), "SCYLLA_CQL_UNREACHABLE", "scylla")
      /\ ~HasFact(RawFacts(s), "SCYLLA_SERVICE_FAILED", "scylla")
      /\ ~HasFact(RawFacts(s), "SERVICE_FAILED", "scylla")
  BY <1>1, HasFactGrows DEF ScyllaReady
<1>3. ASSUME NEW f \in Normalize(s)
      PROVE  f.kind # "WORKFLOW_REMEDIATION_UNSAFE"
  <2>1. CASE f \in RawFacts(s)
    BY <2>1, RawEmits, BundleStatusEmits, ReleaseIndexEmits, BundleVersionEmits, PKIEmits,
       ScyllaConfigEmits, ServicesEmit, PortsEmit DEF UnitKinds
  <2>2. CASE f \in WorkflowFacts(s.services, RawFacts(s))
    BY <1>2, <2>2, WorkflowEmits
  <2> QED  BY <2>1, <2>2, NormalizeEmits
<1> QED  BY <1>3 DEF HasFact

\* Nothing emits WORKFLOW_DEPENDENCY_BLOCKED.
LEMMA NeverDependencyBlocked ==
  ASSUME NEW s
  PROVE  ~HasFact(Normalize(s), "WORKFLOW_DEPENDENCY_BLOCKED", "globular-workflow")
<1>1. ASSUME NEW f \in Normalize(s)
      PROVE  f.kind # "WORKFLOW_DEPENDENCY_BLOCKED"
  <2>1. CASE f \in RawFacts(s)
    BY <2>1, RawEmits, BundleStatusEmits, ReleaseIndexEmits, BundleVersionEmits, PKIEmits,
       ScyllaConfigEmits, ServicesEmit, PortsEmit DEF UnitKinds
  <2>2. CASE f \in WorkflowFacts(s.services, RawFacts(s))
    BY <2>2, WorkflowEmits
  <2> QED  BY <2>1, <2>2, NormalizeEmits
<1> QED  BY <1>1 DEF HasFact

(***************************************************************************)
(* What a verdict implies.                                                 *)
(***************************************************************************)
LEMMA JudgeFields ==
  ASSUME NEW s
  PROVE  /\ Judge(s).class = Classification(s, Normalize(s))
         /\ Judge(s).readiness = Readiness(s, Normalize(s))
         /\ Judge(s).forbidden = ForbiddenActions(Judge(s).class)
         /\ Judge(s).blocked = BlockedServices(Normalize(s))
         /\ Judge(s).verdict = IF WorkloadReady(s, Normalize(s)) THEN "PASS"
                              ELSE IF Judge(s).class = "UNKNOWN" THEN "UNKNOWN" ELSE "BLOCK"
  BY DEF Judge, Classify, Readiness

\* The bundle gates come first and decide the classification.
LEMMA BadBundleBlocks ==
  ASSUME NEW s,
         \/ ~s.bundle.present
         \/ VersionDrift(s.bundle, s.release)
         \/ BuildDrift(s.bundle, s.release)
  PROVE  /\ Judge(s).class \in
              {"AWARENESS_BUNDLE_MISSING", "AWARENESS_BUNDLE_MISMATCH", "AWARENESS_BUNDLE_STALE"}
         /\ Judge(s).verdict = "BLOCK"
         /\ ~Judge(s).readiness.AWARENESS_READY
<1>1. ~BundleReady(s, Normalize(s))
  BY BundleFacts DEF BundleReady
<1>2. Judge(s).class \in
        {"AWARENESS_BUNDLE_MISSING", "AWARENESS_BUNDLE_MISMATCH", "AWARENESS_BUNDLE_STALE"}
  BY NeverUntrusted, BundleFacts, JudgeFields DEF Classification
<1>3. ~WorkloadReady(s, Normalize(s))
  BY <1>1 DEF WorkloadReady
<1>4. Judge(s).verdict = "BLOCK"
  BY <1>2, <1>3, JudgeFields
<1>5. ~Readiness(s, Normalize(s)).AWARENESS_READY
  BY <1>1 DEF Readiness
<1> QED  BY <1>2, <1>4, <1>5, JudgeFields

\* A node classified HEALTHY passes, and no node is ever classified
\* WORKFLOW_REMEDIATION_UNSAFE: the Scylla gate before it has failed by then.
LEMMA OnlyPassIsUnforbidden ==
  ASSUME NEW s, Judge(s).verdict # "PASS"
  PROVE  "mark node DAY1_COMPLETE" \in Judge(s).forbidden
<1>1. ~WorkloadReady(s, Normalize(s))
  BY JudgeFields
<1>2. Judge(s).class # "HEALTHY"
  BY <1>1, JudgeFields DEF Classification
<1>3. Judge(s).class # "WORKFLOW_REMEDIATION_UNSAFE"
  BY UnsafeWorkflowNeedsScyllaDown, JudgeFields DEF Classification
<1> QED  BY <1>2, <1>3, JudgeFields DEF ForbiddenActions, When

\* The certificate verdicts tell a missing file from an unreadable one.
LEMMA CertificateVerdicts ==
  ASSUME NEW s
  PROVE  /\ Judge(s).class = "PKI_MISSING" => \E x \in PKIFiles : ~s.pki[x].present
         /\ "re-issue PKI artifacts" \in Judge(s).forbidden => \A x \in PKIFiles : s.pki[x].present
<1>1. Judge(s).class = "PKI_MISSING" => HasFact(Normalize(s), "PKI_MISSING", "pki")
  BY JudgeFields DEF Classification
<1>2. Judge(s).class = "PKI_UNREADABLE" => ~HasFact(Normalize(s), "PKI_MISSING", "pki")
  BY JudgeFields DEF Classification
<1>3. ASSUME Judge(s).class # "PKI_UNREADABLE"
      PROVE  "re-issue PKI artifacts" \notin Judge(s).forbidden
  <2>1. Judge(s).forbidden \subseteq
          {"mark node DAY1_COMPLETE", "classify architecture-sensitive failures"}
    BY <1>3, JudgeFields DEF ForbiddenActions, When
  <2> QED  BY <2>1
<1> QED  BY <1>1, <1>2, <1>3, CertificateFacts

\* What a PASS was judged from.
LEMMA PassImplies ==
  ASSUME NEW s, Judge(s).verdict = "PASS"
  PROVE  /\ s.bundle.present /\ s.bundle.status = "LOADED"
         /\ ~VersionDrift(s.bundle, s.release) /\ ~BuildDrift(s.bundle, s.release)
         /\ \A x \in PKIFiles : s.pki[x].present /\ s.pki[x].readable
         /\ \A p \in {9042, 2379, 9000} \cap DOMAIN s.ports : s.ports[p]
         /\ \A u \in DOMAIN s.services :
              u.name = "scylla-server" /\ u.base = "scylla-server"
                => s.services[u].active # "failed"
<1>1. WorkloadReady(s, Normalize(s))
  BY JudgeFields
<1>2. /\ s.bundle.present /\ s.bundle.status = "LOADED"
      /\ ~VersionDrift(s.bundle, s.release) /\ ~BuildDrift(s.bundle, s.release)
  BY <1>1, BundleFacts DEF WorkloadReady, BundleReady
<1>3. \A x \in PKIFiles : s.pki[x].present /\ s.pki[x].readable
  BY <1>1, CertificateFacts DEF WorkloadReady
<1>4. \A p \in {9042, 2379, 9000} \cap DOMAIN s.ports : s.ports[p]
  BY <1>1 DEF WorkloadReady, ScyllaReady, EtcdReady, ObjectstoreReady, PortReady
<1>5. ASSUME NEW u \in DOMAIN s.services, u.name = "scylla-server", u.base = "scylla-server",
             s.services[u].active = "failed"
      PROVE  FALSE
  <2>1. ServiceFailFact(u) \in Normalize(s)
    BY <1>5, ServicesEmit DEF Normalize, RawFacts
  <2>2. /\ ServiceFailFact(u).kind = "SCYLLA_CQL_UNREACHABLE"
        /\ ServiceFailFact(u).service = "scylla-server"
    BY <1>5, ServiceFailEmits
  <2>3. HasFact(Normalize(s), "SCYLLA_CQL_UNREACHABLE", "scylla-server")
    BY <2>1, <2>2 DEF HasFact
  <2> QED  BY <1>1, <2>3 DEF WorkloadReady, ScyllaReady
<1> QED  BY <1>2, <1>3, <1>4, <1>5

\* A PASS stands on every rung of the ladder but the release index.
LEMMA PassLadder ==
  ASSUME NEW s, Judge(s).verdict = "PASS", DOMAIN s.services # {}
  PROVE  \A k \in 1..Len(Ladder) :
           Ladder[k] # "PACKAGE_BOM_READY" => Judge(s).readiness[Ladder[k]]
<1>1. WorkloadReady(s, Normalize(s))
  BY JudgeFields
<1> DEFINE r == Readiness(s, Normalize(s))
<1>2. /\ r.NODE_SEEN /\ r.MCP_REACHABLE /\ r.LOCAL_RUNTIME_OBSERVED
      /\ r.AWARENESS_READY /\ r.ETCD_MEMBER_READY /\ r.PKI_READY /\ r.SCYLLA_READY
      /\ r.OBJECTSTORE_READY /\ r.GATEWAY_READY /\ r.WORKLOAD_READY /\ r.DAY1_COMPLETE
  BY <1>1 DEF Readiness, WorkloadReady
<1>3. r.MCP_TRUSTED
  BY NeverUntrusted DEF Readiness
<1>4. r.WORKFLOW_READY
  BY <1>1, UnsafeWorkflowNeedsScyllaDown, NeverDependencyBlocked
     DEF Readiness, WorkloadReady, WorkflowReady
<1> HIDE DEF r
<1>5. ASSUME NEW k \in 1..Len(Ladder), Ladder[k] # "PACKAGE_BOM_READY"
      PROVE  r[Ladder[k]]
  <2>1. k \in 1..14
    BY <1>5 DEF Ladder
  <2>2. Ladder[k] \in {"NODE_SEEN", "MCP_REACHABLE", "MCP_TRUSTED", "AWARENESS_READY",
                      "ETCD_MEMBER_READY", "LOCAL_RUNTIME_OBSERVED", "PKI_READY",
                      "SCYLLA_READY", "OBJECTSTORE_READY", "GATEWAY_READY", "WORKFLOW_READY",
                      "WORKLOAD_READY", "DAY1_COMPLETE"}
    BY <1>5, <2>1 DEF Ladder
  <2> QED  BY <1>2, <1>3, <1>4, <2>2
<1>6. Judge(s).readiness = r
  BY JudgeFields DEF r
<1> QED  BY <1>5, <1>6

\* A backend port observed closed blocks the node and the backend's dependents.
LEMMA ClosedPortBlocks ==
  ASSUME NEW s, NEW q \in PortRules, Closed(s.ports, q.port)
  PROVE  Judge(s).verdict = "BLOCK" /\ q.fact.blocks \subseteq Judge(s).blocked
<1>1. q.fact \in Normalize(s)
  BY PortsEmit DEF Normalize, RawFacts
<1>2. q.fact.severity \in {"CRITICAL", "HIGH"}
  BY FactFields DEF PortRules
<1>3. q.fact.blocks \subseteq Judge(s).blocked
  BY <1>1, <1>2, JudgeFields DEF BlockedServices
<1>4. q.port \in {9042, 2379, 9000}
  BY DEF PortRules
<1>5. ~(ScyllaReady(s, Normalize(s)) /\ EtcdReady(s, Normalize(s)) /\ ObjectstoreReady(s, Normalize(s)))
  BY <1>4 DEF Closed, ScyllaReady, EtcdReady, ObjectstoreReady, PortReady
<1>6. ~WorkloadReady(s, Normalize(s))
  BY <1>5 DEF WorkloadReady
<1>7. Judge(s).class # "UNKNOWN"
  BY <1>5, JudgeFields DEF Classification
<1> QED  BY <1>3, <1>6, <1>7, JudgeFields

(***************************************************************************)
(* What a PASS is, without facts: nothing it rests on is seen down.        *)
(***************************************************************************)
Backing == {"scylla", "scylla-server", "minio", "etcd", "envoy"}

BundleSound(s) ==
  /\ s.bundle.present /\ s.bundle.status = "LOADED"
  /\ ~VersionDrift(s.bundle, s.release) /\ ~BuildDrift(s.bundle, s.release)

PKISound(s) == \A x \in PKIFiles : s.pki[x].present /\ s.pki[x].readable

UnitsSound(s) ==
  \A u \in DOMAIN s.services : u.name \in Backing => s.services[u].active # "failed"

PortsSound(s) ==
  /\ PortReady(s, 2379, {"etcd"})
  /\ PortReady(s, 9042, {"scylla", "scylla-server"})
  /\ PortReady(s, 9000, {"minio"})

Sound(s) == BundleSound(s) /\ PKISound(s) /\ UnitsSound(s) /\ PortsSound(s)

\* The units of the backends and of the gateway carry no prefix to trim.
PlainNames(s) == \A u \in DOMAIN s.services : u.name \in Backing => u.base = u.name

\* The facts that take a level below DAY1_COMPLETE away.
Counts(f) ==
  \/ f.kind \in {"AWARENESS_BUNDLE_MISMATCH", "AWARENESS_BUNDLE_STALE", "PKI_MISSING",
                 "PKI_UNREADABLE", "SCYLLA_SERVICE_FAILED"}
  \/ f.kind = "ETCD_UNREACHABLE" /\ f.service = "etcd"
  \/ /\ f.kind \in {"SCYLLA_CQL_UNREACHABLE", "SERVICE_FAILED"}
     /\ f.service \in {"scylla", "scylla-server"}
  \/ /\ f.kind \in {"OBJECTSTORE_TOPOLOGY_CONTRACT_MISSING", "SERVICE_FAILED"}
     /\ f.service = "minio"
  \/ f.kind \in {"GATEWAY_BOOTSTRAP_MISSING", "SERVICE_FAILED"} /\ f.service = "envoy"

\* A unit that has not failed has no fact of the other kinds but these.
LEMMA UnfailedEmits ==
  ASSUME NEW u, NEW obs, NEW ports, obs.active # "failed", NEW f \in UnitFacts(u, obs, ports)
  PROVE  \/ f.kind = "SERVICE_FAILED" /\ u.base \in {"node-agent", "etcd"}
         \/ f.kind \in {"UNIT_START_LIMIT_HIT", "START_LIMIT_HIT",
                        "SERVICE_ACTIVE_HEALTH_FAILED", "RUNTIME_HEALTH_MISMATCH"}
<1>1. CASE f \in {Fact("SERVICE_FAILED", u.name, "MEDIUM", {})} /\ IsCriticalUnit(u)
  BY <1>1, FactFields DEF IsCriticalUnit
<1>2. CASE f \in {Fact(kind, u.name, "HIGH", ServiceBlocks(u.name)) :
                    kind \in {"UNIT_START_LIMIT_HIT", "START_LIMIT_HIT"}}
  BY <1>2, FactFields
<1>3. CASE f \in {Fact(kind, u.name, "HIGH", {}) :
                    kind \in {"SERVICE_ACTIVE_HEALTH_FAILED", "RUNTIME_HEALTH_MISMATCH"}}
  BY <1>3, FactFields
<1> QED  BY <1>1, <1>2, <1>3 DEF UnitFacts, When

LEMMA PortRuleFacts ==
  ASSUME NEW q \in PortRules
  PROVE  /\ q.port \in {9042, 2379, 9000}
         /\ q.port = 9042 <=> q.fact.kind = "SCYLLA_CQL_UNREACHABLE"
         /\ q.port = 2379 <=> q.fact.kind = "ETCD_UNREACHABLE"
         /\ q.port = 9000 <=> q.fact.kind = "OBJECTSTORE_TOPOLOGY_CONTRACT_MISSING"
BY DEF PortRules, Fact

\* A sound snapshot has no fact that counts.
LEMMA SoundIsQuiet ==
  ASSUME NEW s, PlainNames(s), Sound(s), NEW f \in Normalize(s)
  PROVE  ~Counts(f)
<1>1. CASE f \in WorkflowFacts(s.services, RawFacts(s))
  BY <1>1, WorkflowEmits DEF Counts
<1>2. CASE f \in BundleStatusFacts(s.bundle)
  BY <1>2, BundleStatusEmits DEF Counts, Sound, BundleSound
<1>3. CASE f \in ReleaseIndexFacts(s.release)
  BY <1>3, ReleaseIndexEmits DEF Counts
<1>4. CASE f \in BundleVersionFacts(s.bundle, s.release)
  BY <1>4, BundleVersionEmits DEF Sound, BundleSound
<1>5. CASE f \in PKIFacts(s.pki)
  BY <1>5, PKIEmits DEF Sound, PKISound
<1>6. CASE f \in ScyllaConfigFacts(s.scylla)
  BY <1>6, ScyllaConfigEmits DEF Counts
<1>7. CASE f \in ServiceFacts(s.services, s.ports)
  <2>1. PICK u \in DOMAIN s.services : f \in UnitFacts(u, s.services[u], s.ports)
    BY <1>7 DEF ServiceFacts
  <2>2. f.kind \in UnitKinds /\ f.service = u.name
    BY <2>1, UnitEmits
  <2>3. CASE u.name \notin Backing
    BY <2>2, <2>3 DEF Counts, UnitKinds, Backing
  <2>4. CASE u.name \in Backing
    <3>1. s.services[u].active # "failed" /\ u.base = u.name
      BY <2>4 DEF Sound, UnitsSound, PlainNames
    <3>2. \/ f.kind = "SERVICE_FAILED" /\ u.name = "etcd"
          \/ f.kind \in {"UNIT_START_LIMIT_HIT", "START_LIMIT_HIT",
                         "SERVICE_ACTIVE_HEALTH_FAILED", "RUNTIME_HEALTH_MISMATCH"}
      BY <2>1, <2>4, <3>1, UnfailedEmits DEF Backing
    <3> QED  BY <2>2, <3>2 DEF Counts
  <2> QED  BY <2>3, <2>4
<1>8. CASE f \in PortFacts(s.ports)
  <2>1. PICK q \in PortRules : f = q.fact /\ Closed(s.ports, q.port)
    BY <1>8 DEF PortFacts
  <2>2. q.port \in {9042, 2379, 9000}
    BY PortRuleFacts
  <2> QED  BY <2>1, <2>2 DEF Closed, Sound, PortsSound, PortReady
<1> QED  BY <1>1, <1>2, <1>3, <1>4, <1>5, <1>6, <1>7, <1>8, NormalizeEmits, RawEmits

\* A unit of a backend or of the gateway that has failed takes its level away.
LEMMA FailedBackingCounts ==
  ASSUME NEW s, PlainNames(s), NEW u \in DOMAIN s.services, u.name \in Backing,
         s.services[u].active = "failed"
  PROVE  ~WorkloadReady(s, Normalize(s))
<1>1. ServiceFailFact(u) \in Normalize(s)
  BY ServicesEmit DEF Normalize, RawFacts
<1>2. u.base = u.name
  BY DEF PlainNames
<1>3. CASE u.name \in {"scylla", "scylla-server"}
  <2>1. HasFact(Normalize(s), "SCYLLA_CQL_UNREACHABLE", u.name)
    BY <1>1, <1>2, <1>3 DEF HasFact, ServiceFailFact, Fact
  <2> QED  BY <1>3, <2>1 DEF WorkloadReady, ScyllaReady
<1>4. CASE u.name = "minio"
  <2>1. HasFact(Normalize(s), "OBJECTSTORE_TOPOLOGY_CONTRACT_MISSING", "minio")
    BY <1>1, <1>2, <1>4 DEF HasFact, ServiceFailFact, Fact
  <2> QED  BY <2>1 DEF WorkloadReady, ObjectstoreReady
<1>5. CASE u.name = "etcd"
  <2>1. HasFact(Normalize(s), "ETCD_UNREACHABLE", "etcd")
    BY <1>1, <1>2, <1>5 DEF HasFact, ServiceFailFact, Fact
  <2> QED  BY <2>1 DEF WorkloadReady, EtcdReady
<1>6. CASE u.name = "envoy"
  <2>1. HasFact(Normalize(s), "GATEWAY_BOOTSTRAP_MISSING", "envoy")
    BY <1>1, <1>2, <1>6 DEF HasFact, ServiceFailFact, Fact
  <2> QED  BY <2>1 DEF WorkloadReady, GatewayReady
<1> QED  BY <1>3, <1>4, <1>5, <1>6 DEF Backing

\* The verdict is PASS exactly on sound snapshots.
LEMMA PassIsSound ==
  ASSUME NEW s, PlainNames(s)
  PROVE  Judge(s).verdict = "PASS" <=> Sound(s)
<1>1. Judge(s).verdict = "PASS" <=> WorkloadReady(s, Normalize(s))
  BY JudgeFields
<1>2. ASSUME WorkloadReady(s, Normalize(s))
      PROVE  Sound(s)
  <2>1. BundleSound(s) /\ PKISound(s)
    BY <1>1, <1>2, PassImplies DEF BundleSound, PKISound
  <2>2. UnitsSound(s)
    BY <1>2, FailedBackingCounts DEF UnitsSound
  <2>3. PortsSound(s)
    BY <1>2 DEF WorkloadReady, ScyllaReady, EtcdReady, ObjectstoreReady, PortsSound
  <2> QED  BY <2>1, <2>2, <2>3 DEF Sound
<1>3. ASSUME Sound(s)
      PROVE  WorkloadReady(s, Normalize(s))
  <2>1. ASSUME NEW k, NEW v, HasFact(Normalize(s), k, v)
        PROVE  ~Counts([kind |-> k, service |-> v])
    <3>1. PICK f \in Normalize(s) : f.kind = k /\ f.service = v
      BY <2>1 DEF HasFact
    <3> QED  BY <1>3, <3>1, SoundIsQuiet DEF Counts
  <2>2. BundleReady(s, Normalize(s)) /\ PKIReady(Normalize(s))
    BY <1>3, <2>1 DEF Sound, BundleSound, BundleReady, PKIReady, Counts
  <2>3. ScyllaReady(s, Normalize(s))
    BY <1>3, <2>1 DEF Sound, PortsSound, ScyllaReady, Counts
  <2>4. ObjectstoreReady(s, Normalize(s)) /\ EtcdReady(s, Normalize(s))
    BY <1>3, <2>1 DEF Sound, PortsSound, ObjectstoreReady, EtcdReady, Counts
  <2>5. GatewayReady(Normalize(s))
    BY <2>1 DEF GatewayReady, Counts
  <2> QED  BY <2>2, <2>3, <2>4, <2>5 DEF WorkloadReady
<1> QED  BY <1>1, <1>2, <1>3
=============================================================================
