---------------------------- MODULE Day1Evidence ----------------------------
(***************************************************************************)
(* Collector.Collect, followed by Normalize and Classify, on a node that   *)
(* keeps changing while it is read.                                        *)
(*                                                                         *)
(* Collect is straight-line code of one goroutine: release index, bundle   *)
(* manifest, the PKI files one after the other (Stat, then Open), the      *)
(* Scylla configuration, the systemd units one `systemctl show` after the  *)
(* other, and the two socket files of the kernel line by line.  Nothing    *)
(* holds the node still between two of these reads.                        *)
(***************************************************************************)
EXTENDS NodeState

CONSTANTS
  PKIList,     \* the PKI files in the order they are observed
  UnitList,    \* systemdUnitsToCollect
  SocketOrder, \* the order in which each socket file lists the ports
  StartStates, \* the states of the node when the first collection begins
  MaxChanges,  \* bound: how often the node changes
  MaxMisses    \* bound: how many reads of units or socket files fail

ASSUME ListsAssumption ==
  /\ PKIList \in Seq(PKIFiles)
  /\ \A f \in PKIFiles : \E i \in DOMAIN PKIList : PKIList[i] = f
  /\ UnitList \in Seq(Units)
  /\ \A u \in Units : \E i \in DOMAIN UnitList : UnitList[i] = u
ASSUME SocketOrderAssumption ==
  /\ SocketOrder \in [Families -> Seq(Ports)]
  /\ \A family \in Families, p \in Ports :
       \E i \in DOMAIN SocketOrder[family] : SocketOrder[family][i] = p
ASSUME UnitsAssumption == UnknownUnit \notin UnitStates /\ Units # {}
\* These names carry no globular- prefix for canonicalUnitBase to trim.
ASSUME NamesAssumption ==
  \A u \in Units :
    u.name \in {"scylla", "scylla-server", "minio", "etcd", "envoy"} => u.base = u.name
ASSUME StartAssumption == StartStates \subseteq NodeStates
ASSUME BoundsAssumption == MaxChanges \in Nat /\ MaxMisses \in Nat

VARIABLES
  node,     \* the node, which the collector does not control
  pc,       \* where Collect is
  i,        \* the PKI file, the unit or the socket line it is at
  draft,    \* the snapshot under construction
  verdict,  \* the verdict of the last call, NoVerdict while one is under way
  changes, misses,  \* how much of the bounds is used
  window,   \* history: the values of each source since this call began
  agreed,   \* history: the index and the bundle never disagreed in this call
  unread    \* history: the socket files not read to their end in this call

vars == <<node, pc, i, draft, verdict, changes, misses, window, agreed, unread>>

Steps ==
  {"idle", "release", "bundle", "stat", "open", "scylla", "units", "tcp", "tcp6", "judge"}

\* The release index and the bundle on the node agree, or cannot be compared.
FilesAgree(n) == ~Drift(ReadBundle(n.bundle), ReadRelease(n.release))

\* The zero value of NodeRuntimeSnapshot.
ZeroSnapshot ==
  [release  |-> [present |-> FALSE, version |-> "", build |-> ""],
   bundle   |-> [present |-> FALSE, version |-> "", build |-> "", status |-> ""],
   pki      |-> [f \in PKIFiles |-> [present |-> FALSE, readable |-> FALSE]],
   scylla   |-> [present |-> FALSE, seeds |-> FALSE],
   services |-> [u \in {} |-> UnknownUnit],
   ports    |-> [p \in {} |-> FALSE]]

Init ==
  /\ node \in StartStates
  /\ pc = "idle" /\ i = 1
  /\ draft = ZeroSnapshot
  /\ verdict = NoVerdict
  /\ changes = 0 /\ misses = 0
  /\ window = WindowAt(node)
  /\ agreed = FilesAgree(node)
  /\ unread = {}

(***************************************************************************)
(* The node: one source changes.                                           *)
(***************************************************************************)
Replace(field, values) == \E v \in values : node' = [node EXCEPT ![field] = v]

NodeChanges ==
  /\ changes < MaxChanges
  /\ changes' = changes + 1
  /\ \/ Replace("release", Files)
     \/ Replace("bundle", Files)
     \/ Replace("scylla", ScyllaStates)
     \/ \E f \in PKIFiles : Replace("pki", {[node.pki EXCEPT ![f] = v] : v \in PKIStates})
     \/ \E u \in Units : Replace("unit", {[node.unit EXCEPT ![u] = v] : v \in UnitStates})
     \/ \E p \in Ports : Replace("port", {[node.port EXCEPT ![p] = s] : s \in SocketStates})
  /\ node' # node
  /\ window' = Widen(window, node')
  /\ agreed' = (agreed /\ FilesAgree(node'))
  /\ UNCHANGED <<pc, i, draft, verdict, misses, unread>>

(***************************************************************************)
(* The collector.                                                          *)
(***************************************************************************)
Goto(from, to) == pc = from /\ pc' = to

NodeLeft == UNCHANGED <<node, changes, window, agreed>>

\* The read at hand succeeded, or there was none.
NoMiss == UNCHANGED <<misses, unread>>

\* The read at hand failed.
Miss == misses < MaxMisses /\ misses' = misses + 1

\* Mutant: the verdict of the previous call is left in place.
StartKeepsVerdict ==
  /\ Goto("idle", "release")
  /\ i' = 1
  /\ draft' = ZeroSnapshot
  /\ window' = WindowAt(node) /\ agreed' = FilesAgree(node)
  /\ unread' = {}
  /\ UNCHANGED <<node, verdict, changes, misses>>

\* A call of Collect: a new snapshot, everything in it still zero.
Start ==
  /\ Goto("idle", "release")
  /\ i' = 1
  /\ draft' = ZeroSnapshot
  /\ verdict' = NoVerdict
  /\ window' = WindowAt(node) /\ agreed' = FilesAgree(node)
  /\ unread' = {}
  /\ UNCHANGED <<node, changes, misses>>

ReadReleaseIndex ==
  /\ Goto("release", "bundle")
  /\ draft' = [draft EXCEPT !.release = ReadRelease(node.release)]
  /\ UNCHANGED <<i, verdict>> /\ NoMiss /\ NodeLeft

ReadBundleStatus ==
  /\ Goto("bundle", "stat")
  /\ draft' = [draft EXCEPT !.bundle = ReadBundle(node.bundle)]
  /\ UNCHANGED <<i, verdict>> /\ NoMiss /\ NodeLeft

\* Mutant: every Stat looks at the first file.
StatFirstPKIFile ==
  /\ i <= Len(PKIList)
  /\ Goto("stat", "open")
  /\ draft' = [draft EXCEPT !.pki[PKIList[i]].present = StatFinds(node.pki[PKIList[1]])]
  /\ UNCHANGED <<i, verdict>> /\ NoMiss /\ NodeLeft

StatPKIFile ==
  /\ i <= Len(PKIList)
  /\ Goto("stat", "open")
  /\ draft' = [draft EXCEPT !.pki[PKIList[i]].present = StatFinds(node.pki[PKIList[i]])]
  /\ UNCHANGED <<i, verdict>> /\ NoMiss /\ NodeLeft

OpenPKIFile ==
  /\ Goto("open", "stat")
  /\ draft' = [draft EXCEPT !.pki[PKIList[i]].readable = OpenSucceeds(node.pki[PKIList[i]])]
  /\ i' = i + 1
  /\ UNCHANGED verdict /\ NoMiss /\ NodeLeft

PKIDone ==
  /\ i > Len(PKIList)
  /\ Goto("stat", "scylla")
  /\ UNCHANGED <<i, draft, verdict>> /\ NoMiss /\ NodeLeft

\* Mutant: the unit loop starts where the PKI loop ended.
ReadScyllaConfigKeepsIndex ==
  /\ Goto("scylla", "units")
  /\ draft' = [draft EXCEPT !.scylla = ReadScylla(node.scylla)]
  /\ UNCHANGED <<i, verdict>> /\ NoMiss /\ NodeLeft

ReadScyllaConfig ==
  /\ Goto("scylla", "units")
  /\ draft' = [draft EXCEPT !.scylla = ReadScylla(node.scylla)]
  /\ i' = 1
  /\ UNCHANGED verdict /\ NoMiss /\ NodeLeft

Observe(u, obs) ==
  draft' = [draft EXCEPT !.services =
              [w \in DOMAIN draft.services \cup {u} |->
                 IF w = u THEN obs ELSE draft.services[w]]]

QueryUnit ==
  /\ i <= Len(UnitList)
  /\ Goto("units", "units")
  /\ Observe(UnitList[i], node.unit[UnitList[i]])
  /\ i' = i + 1
  /\ UNCHANGED verdict /\ NoMiss /\ NodeLeft

\* Mutant: a unit that does not answer is taken for a running one.
QueryUnitFailsActive ==
  /\ i <= Len(UnitList)
  /\ Goto("units", "units")
  /\ Observe(UnitList[i], [active |-> "active", sub |-> "running"])
  /\ i' = i + 1
  /\ UNCHANGED <<verdict, unread>> /\ Miss /\ NodeLeft

\* systemctl exits with an error, or the caller's context was cancelled: the
\* unit stays in the snapshot, its state unknown.
QueryUnitFails ==
  /\ i <= Len(UnitList)
  /\ Goto("units", "units")
  /\ Observe(UnitList[i], UnknownUnit)
  /\ i' = i + 1
  /\ UNCHANGED <<verdict, unread>> /\ Miss /\ NodeLeft

UnitsDone ==
  /\ i > Len(UnitList)
  /\ Goto("units", "tcp")
  /\ i' = 1
  /\ draft' = [draft EXCEPT !.ports = NoSocketSeen]
  /\ UNCHANGED verdict /\ NoMiss /\ NodeLeft

\* Where the scan goes when it is through with a socket file.
AfterFile(family) == IF family = "tcp" THEN "tcp6" ELSE "judge"

\* One port, as the file at hand lists it: /proc/net/tcp first, then
\* /proc/net/tcp6.  A listener in either is enough.
ReadSocketLine(family) ==
  /\ i <= Len(SocketOrder[family])
  /\ Goto(family, family)
  /\ LET p == SocketOrder[family][i]
     IN draft' = [draft EXCEPT !.ports[p] = @ \/ IsListed(node.port[p], family)]
  /\ i' = i + 1
  /\ UNCHANGED verdict /\ NoMiss /\ NodeLeft

\* The file cannot be opened, or a read of it fails half-way: the error is
\* dropped, and what is left of the file goes unseen.
SocketFileFails(family) ==
  /\ i <= Len(SocketOrder[family])
  /\ Goto(family, AfterFile(family))
  /\ i' = 1
  /\ unread' = unread \cup {family}
  /\ UNCHANGED <<draft, verdict>> /\ Miss /\ NodeLeft

SocketFileDone(family) ==
  /\ i > Len(SocketOrder[family])
  /\ Goto(family, AfterFile(family))
  /\ i' = 1
  /\ UNCHANGED <<draft, verdict>> /\ NoMiss /\ NodeLeft

NormalizeAndClassify ==
  /\ Goto("judge", "idle")
  /\ verdict' = Judge(draft)
  /\ UNCHANGED <<i, draft>> /\ NoMiss /\ NodeLeft

Collector ==
  \/ Start \/ ReadReleaseIndex \/ ReadBundleStatus
  \/ StatPKIFile \/ OpenPKIFile \/ PKIDone
  \/ ReadScyllaConfig
  \/ QueryUnit \/ QueryUnitFails \/ UnitsDone
  \/ \E family \in Families : \/ ReadSocketLine(family) \/ SocketFileFails(family)
                              \/ SocketFileDone(family)
  \/ NormalizeAndClassify

Next == NodeChanges \/ Collector

Spec == Init /\ [][Next]_vars

\* Collect never blocks for ever and is called again and again; the node need
\* not change and a query need not fail.
FairSpec == Spec /\ WF_vars(Collector)

(***************************************************************************)
(* Type invariant.                                                         *)
(***************************************************************************)
ReleaseReads == [present : BOOLEAN, version : Versions \cup {""}, build : Builds \cup {""}]
BundleReads  == [present : BOOLEAN, version : Versions \cup {""}, build : Builds \cup {""},
                 status : {"MISSING", "CORRUPT", "LOADED"}]
PKIReads     == [PKIFiles -> [present : BOOLEAN, readable : BOOLEAN]]
ScyllaReads  == [present : BOOLEAN, seeds : BOOLEAN]
ServiceReads == UNION {[observed -> UnitStates \cup {UnknownUnit}] : observed \in SUBSET Units}
PortReads    == UNION {[observed -> BOOLEAN] : observed \in SUBSET Ports}

\* The bundle of the zero snapshot has no status yet.
Snapshots ==
  [release : ReleaseReads, bundle : BundleReads \cup {ZeroSnapshot.bundle}, pki : PKIReads,
   scylla : ScyllaReads, services : ServiceReads, ports : PortReads]

\* The state of the pipeline has the shape its code gives it: the index stays
\* within the list the step walks, and a verdict exists only between two calls.
TypeOK ==
  /\ node \in NodeStates /\ window \in Windows
  /\ pc \in Steps
  /\ i \in Nat \ {0}
  /\ pc \in {"release", "bundle"} => i = 1
  /\ pc = "open" => i <= Len(PKIList)
  /\ pc \in {"tcp", "tcp6", "judge"} \/ verdict # NoVerdict => draft.ports \in [Ports -> BOOLEAN]
  /\ draft \in Snapshots
  /\ verdict # NoVerdict => pc = "idle" /\ verdict = Judge(draft)
  /\ changes \in 0..MaxChanges /\ misses \in 0..MaxMisses
  /\ agreed \in BOOLEAN /\ unread \in SUBSET Families

(***************************************************************************)
(* Properties.                                                             *)
(***************************************************************************)
Published == verdict # NoVerdict
Passed    == Published /\ verdict.verdict = "PASS"

\* The abstract gate: Collect publishes only what the node offered since the
\* call began.  Its evidence is the snapshot and the socket files left unread.
JudgeEvidence(e) == Judge(e.snapshot)

Gate == INSTANCE Day1Gate WITH
          Judge <- JudgeEvidence,
          open <- pc # "idle",
          evidence <- IF verdict = NoVerdict THEN NoEvidence
                      ELSE [snapshot |-> draft, unread |-> unread]

\* Where Collect has got to: the reads that are behind it.
HasReadRelease == pc \notin {"idle", "release"} \/ Published
HasReadBundle  == pc \notin {"idle", "release", "bundle"} \/ Published
HasReadPKI     == pc \in {"scylla", "units", "tcp", "tcp6", "judge"} \/ Published
HasReadScylla  == pc \in {"units", "tcp", "tcp6", "judge"} \/ Published
HasReadUnits   == pc \in {"tcp", "tcp6", "judge"} \/ Published
HasReadSockets == pc = "judge" \/ Published

HasStat(k) == HasReadPKI \/ (pc \in {"stat", "open"} /\ k < i) \/ (pc = "open" /\ k = i)
HasOpen(k) == HasReadPKI \/ (pc \in {"stat", "open"} /\ k < i)

\* The scan has passed line k of a socket file, or given the file up.
HasScanned(family, k) ==
  HasReadSockets \/ (pc = family /\ k < i) \/ (family = "tcp" /\ pc = "tcp6")

NodeInWindow ==
  /\ node.release \in window.release /\ node.bundle \in window.bundle
  /\ \A f \in PKIFiles : node.pki[f] \in window.pki[f]
  /\ node.scylla \in window.scylla
  /\ \A u \in Units : node.unit[u] \in window.unit[u]
  /\ \A p \in Ports : node.port[p] \in window.port[p]

\* At every step of Collect, what the snapshot under construction says of a
\* source already read was true of that source at some moment of THIS call, and
\* a unit in it is unknown only if its query failed.  A port that is not seen
\* was, at some moment, not in each of the files scanned so far.
ReadsWitnessed ==
  /\ NodeInWindow
  /\ HasReadRelease => \E v \in window.release : draft.release = ReadRelease(v)
  /\ HasReadBundle => \E v \in window.bundle : draft.bundle = ReadBundle(v)
  /\ \A k \in DOMAIN PKIList :
       LET f == PKIList[k]
       IN /\ HasStat(k) => \E v \in window.pki[f] : draft.pki[f].present = StatFinds(v)
          /\ HasOpen(k) => \E v \in window.pki[f] : draft.pki[f].readable = OpenSucceeds(v)
  /\ HasReadScylla => \E v \in window.scylla : draft.scylla = ReadScylla(v)
  /\ \A k \in DOMAIN UnitList :
       HasReadUnits \/ (pc = "units" /\ k < i) => UnitList[k] \in DOMAIN draft.services
  /\ \A u \in DOMAIN draft.services :
       \/ draft.services[u] \in window.unit[u]
       \/ draft.services[u] = UnknownUnit
  /\ \A p \in DOMAIN draft.ports : draft.ports[p] => \E s \in window.port[p] : s # {}
  /\ \A family \in Families \ unread : \A k \in DOMAIN SocketOrder[family] :
       LET p == SocketOrder[family][k]
       IN HasScanned(family, k) /\ ~draft.ports[p]
            => \E s \in window.port[p] : ~IsListed(s, family)

\* The pipeline implements the abstract gate: no observation survives from an
\* earlier call of Collect, and none is invented.
ImplementsGate == Gate!GateSpec

NothingMissed ==
  unread = {} /\ \A u \in DOMAIN draft.services : draft.services[u] # UnknownUnit

\* When nothing changed and no read failed during a call, its verdict is the
\* verdict of the node as it is: reading piecemeal costs nothing on a quiet node.
QuietNodeJudgedExactly ==
  Published /\ window = WindowAt(node) /\ NothingMissed
    => verdict = Judge(IdealSnapshot(node))

\* A backend port, and what hangs on the backend: whatever the rules for a
\* failed unit or for one at its start limit say it blocks.
Backends == {9042, 2379, 9000}
BackendUnit(p) == LET name == CASE p = 9042 -> "scylla" [] p = 2379 -> "etcd" [] p = 9000 -> "minio"
                  IN [name |-> name, base |-> name]
Dependents(p) ==
  ServiceFailFact(BackendUnit(p)).blocks \cup ServiceBlocks(BackendUnit(p).name)

\* A fault that lasts for the whole collection cannot slip through: behind a
\* PASS, every gate was open at some moment of the collection (each for itself:
\* the ports are read from two files, line by line, and need never have been
\* open together), and no bundle that disagreed with every release index of
\* that time was accepted.
PassIsWitnessed ==
  Passed =>
    /\ \E b \in window.bundle, r \in window.release :
         /\ b.state = "parsed"
         /\ ~Drift(ReadBundle(b), ReadRelease(r))
    /\ \A f \in PKIFiles : "readable" \in window.pki[f]
    /\ \A p \in Backends \cap Ports : \E s \in window.port[p] : s # {}
    /\ \A u \in Units :
         u.name = "scylla-server" =>
           \/ draft.services[u] = UnknownUnit
           \/ \E s \in window.unit[u] : s.active # "failed"

BundleClasses ==
  {"AWARENESS_BUNDLE_MISSING", "AWARENESS_BUNDLE_MISMATCH", "AWARENESS_BUNDLE_STALE"}

\* A bundle that is absent or disagrees with the release index decides the
\* classification, whatever else is broken on the node, and Day-1 is blocked.
\* The index is read before the bundle, so the two that are compared may never
\* have been on the node together; but where they never disagreed, it takes a
\* change of both within the call to make up a disagreement.
BadBundleDecides ==
  Published =>
    /\ ~draft.bundle.present \/ Drift(draft.bundle, draft.release)
         => /\ verdict.class \in BundleClasses
            /\ verdict.verdict = "BLOCK"
            /\ ~verdict.readiness.AWARENESS_READY
    /\ Drift(draft.bundle, draft.release) /\ agreed
         => window.release # {node.release} /\ window.bundle # {node.bundle}

\* Whatever the reason a node is held back for, completing Day-1 is among the
\* actions forbidden to whoever reads the verdict.
HeldBackMeansForbidden ==
  Published /\ ~Passed => "mark node DAY1_COMPLETE" \in verdict.forbidden

\* The advice on certificates never mistakes one cause for the other: issuing
\* is asked for only if a file was absent, and re-issuing is forbidden only if
\* every file was there, at some moment of the collection.
CertificateAdviceIsWitnessed ==
  Published =>
    /\ verdict.class = "PKI_MISSING" => \E f \in PKIFiles : "absent" \in window.pki[f]
    /\ "re-issue PKI artifacts" \in verdict.forbidden =>
         \A f \in PKIFiles : window.pki[f] # {"absent"}

\* A backend port that was closed for the whole collection blocks the node and
\* everything that the failure of the unit behind it would block, though the
\* lists for ports and the two for units are kept apart.
DownBackendBlocksDependents ==
  \A p \in Backends \cap Ports :
    Published /\ window.port[p] = {{}}
      => verdict.verdict = "BLOCK" /\ Dependents(p) \subseteq verdict.blocked

\* A PASS stands on the whole ladder, the release-index rung excepted: no level
\* below DAY1_COMPLETE is missing except possibly PACKAGE_BOM_READY.
PassStandsOnLadder ==
  Passed => \A k \in 1..Len(Ladder) :
              Ladder[k] # "PACKAGE_BOM_READY" => verdict.readiness[Ladder[k]]

\* m is n with some sources worse and none better, the release index aside.
Worse(n, m) ==
  /\ m.release = n.release
  /\ m.bundle # n.bundle => m.bundle.state # "parsed"
  /\ \A f \in PKIFiles : m.pki[f] # n.pki[f] => m.pki[f] # "readable"
  /\ m.scylla # n.scylla => m.scylla = "unseeded"
  /\ \A u \in Units : m.unit[u] # n.unit[u] => m.unit[u].active = "failed"
  /\ \A p \in Ports : m.port[p] \subseteq n.port[p]

\* A node that only gets worse between two calls never turns from held back to PASS.
\* (What it does during a call is no different, for the judgement is of the node.)
DegradationNeverUnblocks ==
  [][pc = "idle" /\ Worse(node, node') =>
       (Judge(IdealSnapshot(node')).verdict = "PASS"
          => Judge(IdealSnapshot(node)).verdict = "PASS")]_node

\* The steps Collect and its judgement have left when they are at PKI file,
\* unit or socket line j.
StepsFrom(label, j) ==
  LET files == 2 * Len(PKIList)
      units == Len(UnitList)
      tcp   == Len(SocketOrder["tcp"])
      tcp6  == Len(SocketOrder["tcp6"])
      rest  == units + tcp + tcp6
  IN [idle |-> 0, release |-> rest + files + 8, bundle |-> rest + files + 7,
      stat |-> rest + files + 8 - 2 * j, open |-> rest + files + 7 - 2 * j,
      scylla |-> rest + 5, units |-> rest + 5 - j,
      tcp |-> tcp + tcp6 + 4 - j, tcp6 |-> tcp6 + 3 - j, judge |-> 1][label]

StepsLeft == StepsFrom(pc, i)

\* However the node changes and whichever queries fail, a call runs down: each
\* step of the collector leaves it fewer, no change of the node adds one, and as
\* long as there is no verdict there is one left.
CollectRunsDown ==
  [][pc # "idle" => /\ StepsLeft \in Nat \ {0} /\ StepsLeft' <= StepsLeft
                    /\ Collector => StepsLeft' < StepsLeft]_vars

\* Once the node and its tools settle, the verdicts settle on the truth: no
\* old observation keeps a wrong verdict alive.
SettlesOnTruth ==
  <>[](Published => verdict = Judge(IdealSnapshot(node)))

(***************************************************************************)
(* What the repository says and the code does not do.                      *)
(***************************************************************************)
\* contracts/authority_contracts.yaml lists RELEASE_INDEX_MISSING as a gate
\* failure that blocks AWARENESS_READY and DAY1_COMPLETE.
ReleaseIndexGateBlocks ==
  Published /\ ~draft.release.present
    => ~verdict.readiness.AWARENESS_READY /\ ~verdict.readiness.DAY1_COMPLETE

\* serviceFailKind says that a unit under the globular- prefix and the bare
\* upstream unit classify the same way; a failed bare envoy, etcd or minio
\* unit holds the node back.
FailedUnitHoldsNodeBack ==
  Published /\ (\E u \in Units : /\ u.base \in {"envoy", "etcd", "minio"}
                                 /\ draft.services[u].active = "failed")
    => ~Passed

=============================================================================
