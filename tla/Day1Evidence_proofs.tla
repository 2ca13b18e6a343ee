------------------------ MODULE Day1Evidence_proofs ------------------------
(***************************************************************************)
(* Proofs about the Day-1 evidence pipeline, for every set of units, PKI   *)
(* files and ports and any number of changes of the node.                  *)
(***************************************************************************)
EXTENDS Day1Evidence, Day1Judge_proofs, TLAPS

(***************************************************************************)
(* The data.                                                               *)
(***************************************************************************)
\* Storing one more read keeps the snapshot under construction a snapshot.
LEMMA SnapshotGrows ==
  ASSUME NEW s \in Snapshots
  PROVE  /\ \A v \in ReleaseReads : [s EXCEPT !.release = v] \in Snapshots
         /\ \A v \in BundleReads : [s EXCEPT !.bundle = v] \in Snapshots
         /\ \A v \in PKIReads : [s EXCEPT !.pki = v] \in Snapshots
         /\ \A v \in ScyllaReads : [s EXCEPT !.scylla = v] \in Snapshots
         /\ \A v \in ServiceReads : [s EXCEPT !.services = v] \in Snapshots
         /\ \A v \in PortReads : [s EXCEPT !.ports = v] \in Snapshots
  BY DEF Snapshots

\* What the reads return.
LEMMA ReadsTyped ==
  /\ \A f \in Files : ReadRelease(f) \in ReleaseReads /\ ReadBundle(f) \in BundleReads
  /\ \A x \in ScyllaStates : ReadScylla(x) \in ScyllaReads
  /\ [Ports -> BOOLEAN] \subseteq PortReads
  /\ NoSocketSeen \in [Ports -> BOOLEAN]
  /\ ZeroSnapshot \in Snapshots
<1>1. \A f \in Files : ReadRelease(f) \in ReleaseReads /\ ReadBundle(f) \in BundleReads
  <2> TAKE f \in Files
  <2>1. /\ f.version \in Versions \cup {""} /\ f.build \in Builds \cup {""}
        /\ f.state \in {"absent", "corrupt", "parsed"}
    <3>1. CASE f = Absent
      BY <3>1 DEF Absent
    <3>2. CASE f = Corrupt
      BY <3>2 DEF Corrupt
    <3>3. CASE f \in [state : {"parsed"}, version : Versions \cup {""}, build : Builds \cup {""}]
      BY <3>3
    <3> QED  BY <3>1, <3>2, <3>3 DEF Files
  <2>2. ReadRelease(f) \in ReleaseReads
    BY <2>1 DEF ReadRelease, ReleaseReads
  <2>3. CASE f.state = "absent"
    BY <2>1, <2>2, <2>3 DEF ReadBundle, BundleReads
  <2>4. CASE f.state = "corrupt"
    BY <2>1, <2>2, <2>4 DEF ReadBundle, BundleReads
  <2>5. CASE f.state = "parsed"
    BY <2>1, <2>2, <2>5 DEF ReadBundle, BundleReads
  <2> QED  BY <2>1, <2>3, <2>4, <2>5
<1>2. \A x \in ScyllaStates : ReadScylla(x) \in ScyllaReads
  BY DEF ScyllaStates, ReadScylla, ScyllaReads
<1>3. [Ports -> BOOLEAN] \subseteq PortReads
  BY DEF PortReads
<1>4. NoSocketSeen \in [Ports -> BOOLEAN]
  BY DEF NoSocketSeen
<1>5. ZeroSnapshot \in Snapshots
  <2>1. ZeroSnapshot.services \in ServiceReads
    <3>1. [u \in {} |-> UnknownUnit] \in [{} -> UnitStates \cup {UnknownUnit}]
      OBVIOUS
    <3> QED  BY <3>1 DEF ServiceReads, ZeroSnapshot
  <2>2. ZeroSnapshot.ports \in PortReads
    <3>1. [p \in {} |-> FALSE] \in [{} -> BOOLEAN]
      OBVIOUS
    <3> QED  BY <3>1 DEF PortReads, ZeroSnapshot
  <2>3. ZeroSnapshot.pki \in PKIReads
    BY DEF PKIReads, ZeroSnapshot
  <2>4. ZeroSnapshot.release \in ReleaseReads /\ ZeroSnapshot.scylla \in ScyllaReads
    BY DEF ReleaseReads, ScyllaReads, ZeroSnapshot
  <2>5. ZeroSnapshot = [release |-> ZeroSnapshot.release, bundle |-> ZeroSnapshot.bundle,
                        pki |-> ZeroSnapshot.pki, scylla |-> ZeroSnapshot.scylla,
                        services |-> ZeroSnapshot.services, ports |-> ZeroSnapshot.ports]
    BY DEF ZeroSnapshot
  <2> QED  BY <2>1, <2>2, <2>3, <2>4, <2>5 DEF Snapshots
<1> QED  BY <1>1, <1>2, <1>3, <1>4, <1>5

\* Observing one more unit.
LEMMA ObserveGrows ==
  ASSUME NEW services \in ServiceReads, NEW u \in Units,
         NEW obs \in UnitStates \cup {UnknownUnit}
  PROVE  [w \in DOMAIN services \cup {u} |-> IF w = u THEN obs ELSE services[w]]
           \in ServiceReads
<1> PICK observed \in SUBSET Units : services \in [observed -> UnitStates \cup {UnknownUnit}]
  BY DEF ServiceReads
<1> DEFINE more == [w \in DOMAIN services \cup {u} |-> IF w = u THEN obs ELSE services[w]]
<1>1. more \in [observed \cup {u} -> UnitStates \cup {UnknownUnit}]
  OBVIOUS
<1>2. observed \cup {u} \in SUBSET Units
  OBVIOUS
<1> QED  BY <1>1, <1>2 DEF ServiceReads

\* The windows around a node and a node that changes.
LEMMA WindowsTyped ==
  ASSUME NEW n \in NodeStates
  PROVE  /\ WindowAt(n) \in Windows
         /\ \A w \in Windows : Widen(w, n) \in Windows
  BY DEF NodeStates, Windows, WindowAt, Widen

LEMMA NodeChangesTyped ==
  ASSUME node \in NodeStates, NodeChanges
  PROVE  node' \in NodeStates
<1>1. CASE Replace("release", Files)
  BY <1>1 DEF Replace, NodeStates
<1>2. CASE Replace("bundle", Files)
  BY <1>2 DEF Replace, NodeStates
<1>3. CASE Replace("scylla", ScyllaStates)
  BY <1>3 DEF Replace, NodeStates
<1>4. CASE \E f \in PKIFiles : Replace("pki", {[node.pki EXCEPT ![f] = v] : v \in PKIStates})
  BY <1>4 DEF Replace, NodeStates
<1>5. CASE \E u \in Units : Replace("unit", {[node.unit EXCEPT ![u] = v] : v \in UnitStates})
  BY <1>5 DEF Replace, NodeStates
<1>6. CASE \E p \in Ports : Replace("port", {[node.port EXCEPT ![p] = s] : s \in SocketStates})
  BY <1>6 DEF Replace, NodeStates
<1> QED  BY <1>1, <1>2, <1>3, <1>4, <1>5, <1>6 DEF NodeChanges

(***************************************************************************)
(* Type correctness.                                                       *)
(***************************************************************************)
USE DEF Goto, NodeLeft, NoMiss, Miss

LEMMA TypeInit == Init => TypeOK
<1> SUFFICES ASSUME Init PROVE TypeOK
  OBVIOUS
<1> USE DEF Init
<1>1. node \in NodeStates
  BY StartAssumption
<1>2. window \in Windows
  BY <1>1, WindowsTyped
<1>3. draft \in Snapshots
  BY ReadsTyped
<1>4. changes \in 0..MaxChanges /\ misses \in 0..MaxMisses
  BY BoundsAssumption
<1>5. i \in Nat \ {0} /\ i = 1 /\ pc \in Steps /\ pc = "idle"
  BY DEF Steps
<1>6. unread \in SUBSET Families /\ verdict = NoVerdict
  OBVIOUS
<1>7. agreed \in BOOLEAN
  BY DEF FilesAgree
<1> QED  BY <1>1, <1>2, <1>3, <1>4, <1>5, <1>6, <1>7 DEF TypeOK

\* One more line of a socket file keeps what was seen a function on the ports.
LEMMA LineGrows ==
  ASSUME NEW s \in Snapshots, s.ports \in [Ports -> BOOLEAN], NEW p \in Ports,
         NEW seen \in BOOLEAN
  PROVE  LET t == [s EXCEPT !.ports[p] = @ \/ seen]
         IN /\ t \in Snapshots /\ t.ports = [s.ports EXCEPT ![p] = @ \/ seen]
            /\ t.ports \in [Ports -> BOOLEAN]
            /\ t.release = s.release /\ t.bundle = s.bundle /\ t.pki = s.pki
            /\ t.scylla = s.scylla /\ t.services = s.services
<1> DEFINE ports == [s.ports EXCEPT ![p] = s.ports[p] \/ seen]
<1>1. ports \in [Ports -> BOOLEAN]
  OBVIOUS
<1>2. ports \in PortReads
  BY <1>1, ReadsTyped
<1>3. [s EXCEPT !.ports[p] = @ \/ seen] = [s EXCEPT !.ports = ports]
  BY DEF Snapshots
<1>4. [s EXCEPT !.ports = ports] \in Snapshots
  BY <1>2, SnapshotGrows
<1> QED  BY <1>1, <1>3, <1>4 DEF Snapshots

LEMMA TypeStep ==
  ASSUME TypeOK, [Next]_vars
  PROVE  TypeOK'
<1> USE DEF TypeOK, Steps
<1>1. CASE NodeChanges
  <2>1. node' \in NodeStates
    BY <1>1, NodeChangesTyped
  <2>2. window' \in Windows
    BY <1>1, <2>1, WindowsTyped DEF NodeChanges
  <2>3. agreed' \in BOOLEAN
    BY <1>1 DEF NodeChanges, FilesAgree
  <2> QED  BY <1>1, <2>1, <2>2, <2>3, BoundsAssumption DEF NodeChanges
<1>2. CASE Start
  <2>1. window' \in Windows /\ agreed' \in BOOLEAN
    BY <1>2, WindowsTyped DEF Start, FilesAgree
  <2>2. draft' \in Snapshots
    BY <1>2, ReadsTyped DEF Start
  <2>3. i' \in Nat \ {0} /\ i' = 1 /\ pc' \in Steps /\ pc' = "release"
    BY <1>2 DEF Start
  <2>4. unread' \in SUBSET Families /\ verdict' = NoVerdict /\ UNCHANGED <<node, changes, misses>>
    BY <1>2 DEF Start
  <2> QED  BY <2>1, <2>2, <2>3, <2>4
<1>3. CASE ReadReleaseIndex
  <2>1. draft' \in Snapshots
    BY <1>3, ReadsTyped, SnapshotGrows DEF ReadReleaseIndex, NodeStates
  <2> QED  BY <1>3, <2>1 DEF ReadReleaseIndex
<1>4. CASE ReadBundleStatus
  <2>1. draft' \in Snapshots
    BY <1>4, ReadsTyped, SnapshotGrows DEF ReadBundleStatus, NodeStates
  <2> QED  BY <1>4, <2>1 DEF ReadBundleStatus
<1>5. CASE StatPKIFile
  <2>1. [draft.pki EXCEPT ![PKIList[i]].present = StatFinds(node.pki[PKIList[i]])] \in PKIReads
    <3>1. draft.pki \in PKIReads /\ PKIList[i] \in PKIFiles
      BY <1>5, ListsAssumption DEF StatPKIFile, Snapshots
    <3>2. StatFinds(node.pki[PKIList[i]]) \in BOOLEAN
      BY DEF StatFinds
    <3> QED  BY <3>1, <3>2 DEF PKIReads
  <2>2. draft' = [draft EXCEPT !.pki =
                   [draft.pki EXCEPT ![PKIList[i]].present = StatFinds(node.pki[PKIList[i]])]]
    BY <1>5 DEF StatPKIFile
  <2>3. draft' \in Snapshots
    BY <2>1, <2>2, SnapshotGrows
  <2> QED  BY <1>5, <2>3 DEF StatPKIFile
<1>6. CASE OpenPKIFile
  <2>1. [draft.pki EXCEPT ![PKIList[i]].readable = OpenSucceeds(node.pki[PKIList[i]])] \in PKIReads
    <3>1. draft.pki \in PKIReads /\ PKIList[i] \in PKIFiles
      BY <1>6, ListsAssumption DEF OpenPKIFile, Snapshots
    <3>2. OpenSucceeds(node.pki[PKIList[i]]) \in BOOLEAN
      BY DEF OpenSucceeds
    <3> QED  BY <3>1, <3>2 DEF PKIReads
  <2>2. draft' = [draft EXCEPT !.pki =
                   [draft.pki EXCEPT ![PKIList[i]].readable = OpenSucceeds(node.pki[PKIList[i]])]]
    BY <1>6 DEF OpenPKIFile
  <2>3. draft' \in Snapshots
    BY <2>1, <2>2, SnapshotGrows
  <2> QED  BY <1>6, <2>3 DEF OpenPKIFile
<1>7. CASE PKIDone
  BY <1>7 DEF PKIDone
<1>8. CASE ReadScyllaConfig
  <2>1. draft' \in Snapshots
    BY <1>8, ReadsTyped, SnapshotGrows DEF ReadScyllaConfig, NodeStates
  <2> QED  BY <1>8, <2>1 DEF ReadScyllaConfig
<1>9. CASE QueryUnit
  <2>1. UnitList[i] \in Units /\ node.unit[UnitList[i]] \in UnitStates
    BY <1>9, ListsAssumption DEF QueryUnit, NodeStates
  <2>2. draft.services \in ServiceReads
    BY DEF Snapshots
  <2>3. [w \in DOMAIN draft.services \cup {UnitList[i]} |->
          IF w = UnitList[i] THEN node.unit[UnitList[i]] ELSE draft.services[w]] \in ServiceReads
    BY <2>1, <2>2, ObserveGrows
  <2>4. draft' \in Snapshots
    BY <1>9, <2>3, SnapshotGrows DEF QueryUnit, Observe
  <2> QED  BY <1>9, <2>4 DEF QueryUnit
<1>10. CASE QueryUnitFails
  <2>1. UnitList[i] \in Units
    BY <1>10, ListsAssumption DEF QueryUnitFails
  <2>2. draft.services \in ServiceReads
    BY DEF Snapshots
  <2>3. [w \in DOMAIN draft.services \cup {UnitList[i]} |->
          IF w = UnitList[i] THEN UnknownUnit ELSE draft.services[w]] \in ServiceReads
    BY <2>1, <2>2, ObserveGrows
  <2>4. draft' \in Snapshots
    BY <1>10, <2>3, SnapshotGrows DEF QueryUnitFails, Observe
  <2> QED  BY <1>10, <2>4, BoundsAssumption DEF QueryUnitFails
<1>11. CASE UnitsDone
  <2>1. draft' \in Snapshots /\ draft'.ports \in [Ports -> BOOLEAN]
    BY <1>11, ReadsTyped, SnapshotGrows DEF UnitsDone, Snapshots
  <2> QED  BY <1>11, <2>1 DEF UnitsDone
<1>12. ASSUME NEW family \in Families, ReadSocketLine(family)
       PROVE  TypeOK'
  <2>1. SocketOrder[family][i] \in Ports /\ pc \in {"tcp", "tcp6"} /\ pc' = pc
    BY <1>12, SocketOrderAssumption DEF ReadSocketLine, Families
  <2>2. IsListed(node.port[SocketOrder[family][i]], family) \in BOOLEAN
    BY DEF IsListed
  <2>3. draft' \in Snapshots /\ draft'.ports \in [Ports -> BOOLEAN]
    BY <1>12, <2>1, <2>2, LineGrows DEF ReadSocketLine
  <2> QED  BY <1>12, <2>1, <2>3 DEF ReadSocketLine
<1>13. ASSUME NEW family \in Families, SocketFileFails(family) \/ SocketFileDone(family)
       PROVE  TypeOK'
  <2>1. /\ pc \in {"tcp", "tcp6"} /\ pc' \in {"tcp6", "judge"} /\ i' = 1
        /\ UNCHANGED <<node, changes, window, agreed, draft, verdict>>
    BY <1>13 DEF SocketFileFails, SocketFileDone, AfterFile, Families
  <2>2. unread' \in SUBSET Families /\ misses' \in 0..MaxMisses
    BY <1>13, BoundsAssumption DEF SocketFileFails, SocketFileDone
  <2>3. draft.ports \in [Ports -> BOOLEAN] /\ verdict = NoVerdict
    BY <2>1
  <2> QED  BY <2>1, <2>2, <2>3
<1>14. CASE NormalizeAndClassify
  BY <1>14 DEF NormalizeAndClassify
<1>15. CASE UNCHANGED vars
  BY <1>15 DEF vars
<1> QED
  BY <1>1, <1>2, <1>3, <1>4, <1>5, <1>6, <1>7, <1>8, <1>9, <1>10, <1>11, <1>12, <1>13,
     <1>14, <1>15 DEF Next, Collector

\* The state of the pipeline keeps its shape, and a verdict exists only
\* between two calls, of the very snapshot that is kept with it.
THEOREM TypeCorrect == Spec => []TypeOK
  BY TypeInit, TypeStep, PTL DEF Spec

(***************************************************************************)
(* The inductive invariant: what Collect has read is witnessed.            *)
(***************************************************************************)
LEMMA WitnessInit == Init => ReadsWitnessed
<1> SUFFICES ASSUME Init PROVE ReadsWitnessed
  OBVIOUS
<1>1. NodeInWindow
  BY DEF Init, NodeInWindow, WindowAt
<1>2. verdict = NoVerdict /\ pc = "idle"
  BY DEF Init
<1>3. DOMAIN draft.services = {} /\ DOMAIN draft.ports = {}
  BY DEF Init, ZeroSnapshot
<1> QED
  BY <1>1, <1>2, <1>3
     DEF ReadsWitnessed, HasReadRelease, HasReadBundle, HasReadPKI, HasReadScylla, HasReadUnits,
         HasReadSockets, HasStat, HasOpen, HasScanned, Published, Families

\* The window of a changed node contains the old window and the new node.
LEMMA WidenGrows ==
  ASSUME NEW w \in Windows, NEW n \in NodeStates
  PROVE  /\ w.release \subseteq Widen(w, n).release /\ n.release \in Widen(w, n).release
         /\ w.bundle \subseteq Widen(w, n).bundle /\ n.bundle \in Widen(w, n).bundle
         /\ \A f \in PKIFiles : /\ w.pki[f] \subseteq Widen(w, n).pki[f]
                               /\ n.pki[f] \in Widen(w, n).pki[f]
         /\ w.scylla \subseteq Widen(w, n).scylla /\ n.scylla \in Widen(w, n).scylla
         /\ \A u \in Units : /\ w.unit[u] \subseteq Widen(w, n).unit[u]
                            /\ n.unit[u] \in Widen(w, n).unit[u]
         /\ \A p \in Ports : /\ w.port[p] \subseteq Widen(w, n).port[p]
                            /\ n.port[p] \in Widen(w, n).port[p]
  BY DEF Widen, Windows, NodeStates

LEMMA WitnessStep ==
  ASSUME TypeOK, ReadsWitnessed, [Next]_vars
  PROVE  ReadsWitnessed'
<1> DEFINE
  Rel == HasReadRelease => \E v \in window.release : draft.release = ReadRelease(v)
  Bun == HasReadBundle => \E v \in window.bundle : draft.bundle = ReadBundle(v)
  Sta == \A k \in DOMAIN PKIList :
           HasStat(k) => \E v \in window.pki[PKIList[k]] :
                           draft.pki[PKIList[k]].present = StatFinds(v)
  Opn == \A k \in DOMAIN PKIList :
           HasOpen(k) => \E v \in window.pki[PKIList[k]] :
                           draft.pki[PKIList[k]].readable = OpenSucceeds(v)
  Scy == HasReadScylla => \E v \in window.scylla : draft.scylla = ReadScylla(v)
  Lst == \A k \in DOMAIN UnitList :
           HasReadUnits \/ (pc = "units" /\ k < i) => UnitList[k] \in DOMAIN draft.services
  Uni == \A u \in DOMAIN draft.services :
           \/ draft.services[u] \in window.unit[u]
           \/ draft.services[u] = UnknownUnit
  Sen == \A p \in DOMAIN draft.ports : draft.ports[p] => \E s \in window.port[p] : s # {}
  Uns == \A family \in Families \ unread : \A k \in DOMAIN SocketOrder[family] :
           HasScanned(family, k) /\ ~draft.ports[SocketOrder[family][k]]
             => \E s \in window.port[SocketOrder[family][k]] : ~IsListed(s, family)
<1>A. NodeInWindow /\ Rel /\ Bun /\ Sta /\ Opn /\ Scy /\ Lst /\ Uni /\ Sen /\ Uns
  BY DEF ReadsWitnessed
<1>B. SUFFICES /\ NodeInWindow' /\ Rel' /\ Bun' /\ Sta' /\ Opn' /\ Scy' /\ Lst' /\ Uni'
               /\ Sen' /\ Uns'
  BY DEF ReadsWitnessed
<1>C. /\ pc \in Steps /\ i \in Nat \ {0} /\ draft \in Snapshots
      /\ node \in NodeStates /\ window \in Windows
      /\ pc # "idle" => verdict = NoVerdict
      /\ DOMAIN draft.services \subseteq Units /\ DOMAIN draft.ports \subseteq Ports
  BY DEF TypeOK, Snapshots, ServiceReads, PortReads
<1> USE DEF HasReadRelease, HasReadBundle, HasReadPKI, HasReadScylla, HasReadUnits,
            HasReadSockets, HasStat, HasOpen, HasScanned, Published
<1>D. ASSUME pc' \in {"bundle", "stat", "open", "scylla", "units"}, verdict' = NoVerdict,
             UNCHANGED window, draft'.ports = draft.ports
      PROVE  Sen' /\ Uns'
  <2>1. Sen'
    BY <1>A, <1>D
  <2> QED  BY <1>D, <2>1 DEF Families
<1>1. CASE NodeChanges
  <2>1. node' \in NodeStates /\ window' = Widen(window, node')
    BY <1>1, <1>C, NodeChangesTyped DEF NodeChanges
  <2>2. UNCHANGED <<pc, i, draft, verdict, unread>>
    BY <1>1 DEF NodeChanges
  <2>3. /\ window.release \subseteq window'.release /\ window.bundle \subseteq window'.bundle
        /\ \A f \in PKIFiles : window.pki[f] \subseteq window'.pki[f]
        /\ window.scylla \subseteq window'.scylla
        /\ \A u \in Units : window.unit[u] \subseteq window'.unit[u]
        /\ \A p \in Ports : window.port[p] \subseteq window'.port[p]
    BY <1>C, <2>1, WidenGrows
  <2>4. NodeInWindow'
    BY <1>C, <2>1, WidenGrows DEF NodeInWindow
  <2>5. Rel' /\ Bun' /\ Scy' /\ Lst'
    BY <1>A, <2>2, <2>3
  <2>6. Sta' /\ Opn'
    <3> SUFFICES ASSUME NEW k \in DOMAIN PKIList
                 PROVE  /\ HasStat(k)' => \E v \in window'.pki[PKIList[k]] :
                                             draft'.pki[PKIList[k]].present = StatFinds(v)
                        /\ HasOpen(k)' => \E v \in window'.pki[PKIList[k]] :
                                             draft'.pki[PKIList[k]].readable = OpenSucceeds(v)
      OBVIOUS
    <3>1. PKIList[k] \in PKIFiles
      BY ListsAssumption
    <3>2. window.pki[PKIList[k]] \subseteq window'.pki[PKIList[k]]
      BY <2>3, <3>1
    <3> QED  BY <1>A, <2>2, <3>2
  <2>7. Uni' /\ Sen'
    BY <1>A, <1>C, <2>2, <2>3
  <2>8. Uns'
    <3>1. \A family \in Families : \A k \in DOMAIN SocketOrder[family] :
            SocketOrder[family][k] \in Ports
      BY SocketOrderAssumption
    <3> QED  BY <1>A, <2>2, <2>3, <3>1
  <2> QED  BY <2>4, <2>5, <2>6, <2>7, <2>8
<1>2. CASE Start
  <2>1. NodeInWindow'
    BY <1>2 DEF Start, NodeInWindow, WindowAt
  <2>2. /\ pc' = "release" /\ verdict' = NoVerdict
        /\ DOMAIN draft'.services = {} /\ DOMAIN draft'.ports = {}
    BY <1>2 DEF Start, ZeroSnapshot
  <2> QED  BY <2>1, <2>2 DEF Families
<1>3. CASE ReadReleaseIndex
  <2>1. /\ pc = "release" /\ pc' = "bundle" /\ verdict' = NoVerdict
        /\ UNCHANGED <<node, window, unread, i>>
    BY <1>3, <1>C DEF ReadReleaseIndex
  <2>2. /\ draft'.release = ReadRelease(node.release)
        /\ draft'.services = draft.services /\ draft'.ports = draft.ports
    BY <1>3, <1>C DEF ReadReleaseIndex, Snapshots
  <2>3. NodeInWindow' /\ Sen' /\ Uns'
    BY <1>A, <1>D, <2>1, <2>2 DEF NodeInWindow
  <2> QED  BY <1>A, <2>1, <2>2, <2>3 DEF NodeInWindow
<1>4. CASE ReadBundleStatus
  <2>1. /\ pc = "bundle" /\ pc' = "stat" /\ verdict' = NoVerdict
        /\ UNCHANGED <<node, window, unread>> /\ i' = 1
    BY <1>4, <1>C DEF TypeOK, ReadBundleStatus
  <2>2. /\ draft'.bundle = ReadBundle(node.bundle)
        /\ draft'.services = draft.services /\ draft'.release = draft.release
        /\ draft'.ports = draft.ports
    BY <1>4, <1>C DEF ReadBundleStatus, Snapshots
  <2>3. NodeInWindow' /\ Sen' /\ Uns'
    BY <1>A, <1>D, <2>1, <2>2 DEF NodeInWindow
  <2>4. Sta' /\ Opn'
    BY <2>1, ListsAssumption
  <2> QED  BY <1>A, <2>1, <2>2, <2>3, <2>4 DEF NodeInWindow
<1>5. CASE StatPKIFile
  <2>1. /\ pc = "stat" /\ pc' = "open" /\ verdict' = NoVerdict /\ i <= Len(PKIList)
        /\ UNCHANGED <<node, window, unread, i>>
    BY <1>5, <1>C DEF StatPKIFile
  <2>2. PKIList[i] \in PKIFiles /\ draft.pki \in PKIReads
    BY <1>C, <2>1, ListsAssumption DEF Snapshots
  <2>3. /\ draft'.services = draft.services /\ draft'.release = draft.release
        /\ draft'.bundle = draft.bundle /\ draft'.ports = draft.ports
    BY <1>5, <1>C DEF StatPKIFile, Snapshots
  <2>4. draft'.pki = [draft.pki EXCEPT ![PKIList[i]].present = StatFinds(node.pki[PKIList[i]])]
    BY <1>5, <1>C DEF StatPKIFile, Snapshots
  <2>5. NodeInWindow' /\ Sen' /\ Uns'
    BY <1>A, <1>D, <2>1, <2>3 DEF NodeInWindow
  <2>6. node.pki[PKIList[i]] \in window.pki[PKIList[i]]
    BY <1>A, <2>2 DEF NodeInWindow
  <2>7. Sta' /\ Opn'
    <3> SUFFICES ASSUME NEW k \in DOMAIN PKIList
                 PROVE  /\ HasStat(k)' => \E v \in window.pki[PKIList[k]] :
                                             draft'.pki[PKIList[k]].present = StatFinds(v)
                        /\ HasOpen(k)' => \E v \in window.pki[PKIList[k]] :
                                             draft'.pki[PKIList[k]].readable = OpenSucceeds(v)
      BY <2>1
    <3>1. PKIList[k] \in PKIFiles
      BY ListsAssumption
    <3>2. CASE PKIList[k] = PKIList[i]
      <4>1. draft'.pki[PKIList[k]].present = StatFinds(node.pki[PKIList[i]])
        BY <2>2, <2>4, <3>2 DEF PKIReads
      <4>2. draft'.pki[PKIList[k]].readable = draft.pki[PKIList[k]].readable
        BY <2>2, <2>4, <3>2 DEF PKIReads
      <4> QED  BY <1>A, <2>1, <2>6, <3>2, <4>1, <4>2
    <3>3. CASE PKIList[k] # PKIList[i]
      <4>1. draft'.pki[PKIList[k]] = draft.pki[PKIList[k]]
        BY <2>2, <2>4, <3>1, <3>3 DEF PKIReads
      <4>2. k # i
        BY <3>3
      <4> QED  BY <1>A, <2>1, <4>1, <4>2
    <3> QED  BY <3>2, <3>3
  <2> QED  BY <1>A, <2>1, <2>3, <2>5, <2>7
<1>6. CASE OpenPKIFile
  <2>1. /\ pc = "open" /\ pc' = "stat" /\ verdict' = NoVerdict /\ i <= Len(PKIList)
        /\ UNCHANGED <<node, window, unread>> /\ i' = i + 1
    BY <1>6, <1>C DEF OpenPKIFile, TypeOK
  <2>2. PKIList[i] \in PKIFiles /\ draft.pki \in PKIReads
    BY <1>C, <2>1, ListsAssumption DEF Snapshots
  <2>3. /\ draft'.services = draft.services /\ draft'.release = draft.release
        /\ draft'.bundle = draft.bundle /\ draft'.ports = draft.ports
    BY <1>6, <1>C DEF OpenPKIFile, Snapshots
  <2>4. draft'.pki = [draft.pki EXCEPT ![PKIList[i]].readable = OpenSucceeds(node.pki[PKIList[i]])]
    BY <1>6, <1>C DEF OpenPKIFile, Snapshots
  <2>5. NodeInWindow' /\ Sen' /\ Uns'
    BY <1>A, <1>D, <2>1, <2>3 DEF NodeInWindow
  <2>6. node.pki[PKIList[i]] \in window.pki[PKIList[i]]
    BY <1>A, <2>2 DEF NodeInWindow
  <2>7. Sta' /\ Opn'
    <3> SUFFICES ASSUME NEW k \in DOMAIN PKIList
                 PROVE  /\ HasStat(k)' => \E v \in window.pki[PKIList[k]] :
                                             draft'.pki[PKIList[k]].present = StatFinds(v)
                        /\ HasOpen(k)' => \E v \in window.pki[PKIList[k]] :
                                             draft'.pki[PKIList[k]].readable = OpenSucceeds(v)
      BY <2>1
    <3>1. PKIList[k] \in PKIFiles /\ k \in Nat
      BY ListsAssumption
    <3>2. (HasStat(k)' => HasStat(k)) /\ (HasOpen(k)' => HasOpen(k) \/ k = i)
      BY <1>C, <2>1, <3>1
    <3>3. CASE PKIList[k] = PKIList[i]
      <4>1. draft'.pki[PKIList[k]].readable = OpenSucceeds(node.pki[PKIList[i]])
        BY <2>2, <2>4, <3>3 DEF PKIReads
      <4>2. draft'.pki[PKIList[k]].present = draft.pki[PKIList[k]].present
        BY <2>2, <2>4, <3>3 DEF PKIReads
      <4> QED  BY <1>A, <2>6, <3>2, <3>3, <4>1, <4>2
    <3>4. CASE PKIList[k] # PKIList[i]
      <4>1. draft'.pki[PKIList[k]] = draft.pki[PKIList[k]]
        BY <2>2, <2>4, <3>1, <3>4 DEF PKIReads
      <4>2. k # i
        BY <3>4
      <4> QED  BY <1>A, <3>2, <4>1, <4>2
    <3> QED  BY <3>3, <3>4
  <2> QED  BY <1>A, <2>1, <2>3, <2>5, <2>7
<1>7. CASE PKIDone
  <2>1. /\ pc = "stat" /\ pc' = "scylla" /\ verdict' = NoVerdict /\ i > Len(PKIList)
        /\ UNCHANGED <<node, window, unread, i, draft>>
    BY <1>7, <1>C DEF PKIDone
  <2>2. NodeInWindow' /\ Sen' /\ Uns'
    BY <1>A, <1>D, <2>1 DEF NodeInWindow
  <2>3. \A k \in DOMAIN PKIList : k < i
    BY <1>C, <2>1, ListsAssumption
  <2> QED  BY <1>A, <2>1, <2>2, <2>3
<1>8. CASE ReadScyllaConfig
  <2>1. /\ pc = "scylla" /\ pc' = "units" /\ verdict' = NoVerdict /\ i' = 1
        /\ UNCHANGED <<node, window, unread>>
    BY <1>8, <1>C DEF ReadScyllaConfig
  <2>2. /\ draft'.services = draft.services /\ draft'.release = draft.release
        /\ draft'.bundle = draft.bundle /\ draft'.pki = draft.pki
        /\ draft'.scylla = ReadScylla(node.scylla) /\ draft'.ports = draft.ports
    BY <1>8, <1>C DEF ReadScyllaConfig, Snapshots
  <2>3. NodeInWindow' /\ Sen' /\ Uns'
    BY <1>A, <1>D, <2>1, <2>2 DEF NodeInWindow
  <2>4. Lst'
    BY <2>1, ListsAssumption
  <2>5. Scy'
    BY <1>A, <2>1, <2>2 DEF NodeInWindow
  <2> QED  BY <1>A, <2>1, <2>2, <2>3, <2>4, <2>5
<1>9. CASE QueryUnit
  <2>1. /\ pc = "units" /\ pc' = "units" /\ verdict' = NoVerdict /\ i' = i + 1
        /\ i <= Len(UnitList) /\ UNCHANGED <<node, window, unread>>
    BY <1>9, <1>C DEF QueryUnit
  <2>2. /\ draft'.release = draft.release /\ draft'.bundle = draft.bundle
        /\ draft'.pki = draft.pki /\ draft'.scylla = draft.scylla
        /\ draft'.services = [w \in DOMAIN draft.services \cup {UnitList[i]} |->
              IF w = UnitList[i] THEN node.unit[UnitList[i]] ELSE draft.services[w]]
        /\ draft'.ports = draft.ports
    BY <1>9, <1>C DEF QueryUnit, Observe, Snapshots
  <2>3. NodeInWindow' /\ Sen' /\ Uns'
    BY <1>A, <1>D, <2>1, <2>2 DEF NodeInWindow
  <2>4. node.unit[UnitList[i]] \in window.unit[UnitList[i]]
    BY <1>A, <1>C, <2>1, ListsAssumption DEF NodeInWindow
  <2>5. Uni'
    BY <1>A, <2>1, <2>2, <2>4
  <2>6. Lst'
    BY <1>A, <1>C, <2>1, <2>2, ListsAssumption
  <2> QED  BY <1>A, <2>1, <2>2, <2>3, <2>5, <2>6
<1>10. CASE QueryUnitFails
  <2>1. /\ pc = "units" /\ pc' = "units" /\ verdict' = NoVerdict /\ i' = i + 1
        /\ i <= Len(UnitList) /\ UNCHANGED <<node, window, unread>>
    BY <1>10, <1>C DEF QueryUnitFails
  <2>2. /\ draft'.release = draft.release /\ draft'.bundle = draft.bundle
        /\ draft'.pki = draft.pki /\ draft'.scylla = draft.scylla
        /\ draft'.services = [w \in DOMAIN draft.services \cup {UnitList[i]} |->
              IF w = UnitList[i] THEN UnknownUnit ELSE draft.services[w]]
        /\ draft'.ports = draft.ports
    BY <1>10, <1>C DEF QueryUnitFails, Observe, Snapshots
  <2>3. NodeInWindow' /\ Sen' /\ Uns'
    BY <1>A, <1>D, <2>1, <2>2 DEF NodeInWindow
  <2>5. Uni'
    BY <1>A, <2>1, <2>2
  <2>6. Lst'
    BY <1>A, <1>C, <2>1, <2>2, ListsAssumption
  <2> QED  BY <1>A, <2>1, <2>2, <2>3, <2>5, <2>6
<1>11. CASE UnitsDone
  <2>1. /\ pc = "units" /\ pc' = "tcp" /\ verdict' = NoVerdict /\ i > Len(UnitList) /\ i' = 1
        /\ UNCHANGED <<node, window, unread>>
    BY <1>11, <1>C DEF UnitsDone
  <2>2. /\ draft'.release = draft.release /\ draft'.bundle = draft.bundle
        /\ draft'.pki = draft.pki /\ draft'.scylla = draft.scylla
        /\ draft'.services = draft.services /\ draft'.ports = NoSocketSeen
    BY <1>11, <1>C DEF UnitsDone, Snapshots
  <2>3. NodeInWindow' /\ Sen'
    BY <1>A, <2>1, <2>2 DEF NodeInWindow, NoSocketSeen
  <2>4. \A k \in DOMAIN UnitList : k < i
    BY <1>C, <2>1, ListsAssumption
  <2>5. Uns'
    <3>1. \A family \in Families : \A k \in DOMAIN SocketOrder[family] : k \in Nat /\ ~(k < 1)
      BY SocketOrderAssumption
    <3> QED  BY <2>1, <3>1
  <2>6. Lst'
    BY <1>A, <2>1, <2>2, <2>4
  <2> QED  BY <1>A, <2>1, <2>2, <2>3, <2>5, <2>6
<1>12. ASSUME NEW family \in Families, ReadSocketLine(family)
       PROVE  /\ NodeInWindow' /\ Rel' /\ Bun' /\ Sta' /\ Opn' /\ Scy' /\ Lst' /\ Uni'
              /\ Sen' /\ Uns'
  <2> DEFINE p == SocketOrder[family][i]
  <2>1. /\ pc = family /\ pc' = family /\ verdict' = NoVerdict /\ i <= Len(SocketOrder[family])
        /\ UNCHANGED <<node, window, unread>> /\ i' = i + 1 /\ family \in {"tcp", "tcp6"}
    BY <1>12, <1>C DEF ReadSocketLine, Families
  <2>2. p \in Ports /\ draft.ports \in [Ports -> BOOLEAN]
    BY <1>C, <2>1, SocketOrderAssumption DEF TypeOK
  <2>3. /\ draft'.release = draft.release /\ draft'.bundle = draft.bundle
        /\ draft'.pki = draft.pki /\ draft'.scylla = draft.scylla
        /\ draft'.services = draft.services
        /\ draft'.ports = [draft.ports EXCEPT ![p] = @ \/ IsListed(node.port[p], family)]
    <3>1. IsListed(node.port[p], family) \in BOOLEAN
      BY DEF IsListed
    <3>2. draft' = [draft EXCEPT !.ports[p] = @ \/ IsListed(node.port[p], family)]
      BY <1>12 DEF ReadSocketLine
    <3> HIDE DEF p
    <3> QED  BY <1>C, <2>2, <3>1, <3>2, LineGrows
  <2>4. node.port[p] \in window.port[p]
    BY <1>A, <2>2 DEF NodeInWindow
  <2>5. NodeInWindow' /\ Rel' /\ Bun' /\ Sta' /\ Opn' /\ Scy' /\ Lst' /\ Uni'
    BY <1>A, <2>1, <2>3 DEF NodeInWindow
  <2>6. \A q \in Ports :
          /\ draft.ports[q] => draft'.ports[q]
          /\ q # p => draft'.ports[q] = draft.ports[q]
          /\ draft'.ports[p] <=> draft.ports[p] \/ IsListed(node.port[p], family)
    BY <2>2, <2>3
  <2>7. Sen'
    <3> SUFFICES ASSUME NEW q \in Ports, draft'.ports[q]
                 PROVE  \E s \in window.port[q] : s # {}
      BY <2>1, <2>2, <2>3
    <3>1. CASE draft.ports[q]
      BY <1>A, <2>2, <3>1
    <3>2. CASE ~draft.ports[q]
      BY <2>4, <2>6, <3>2 DEF IsListed
    <3> QED  BY <3>1, <3>2
  <2>8. Uns'
    <3> SUFFICES ASSUME NEW f \in Families \ unread, NEW k \in DOMAIN SocketOrder[f],
                        HasScanned(f, k)', ~draft'.ports[SocketOrder[f][k]]
                 PROVE  \E s \in window.port[SocketOrder[f][k]] : ~IsListed(s, f)
      BY <2>1
    <3>1. k \in Nat /\ SocketOrder[f][k] \in Ports
      BY SocketOrderAssumption
    <3>2. ~draft.ports[SocketOrder[f][k]]
      BY <2>6, <3>1
    <3>3. CASE HasScanned(f, k)
      BY <1>A, <3>2, <3>3
    <3>4. CASE ~HasScanned(f, k)
      <4>1. f = family /\ k = i
        BY <1>C, <2>1, <3>1, <3>4
      <4> QED  BY <2>4, <2>6, <3>1, <4>1
    <3> QED  BY <3>3, <3>4
  <2> QED  BY <2>5, <2>7, <2>8
<1>13. ASSUME NEW family \in Families, SocketFileFails(family) \/ SocketFileDone(family)
       PROVE  /\ NodeInWindow' /\ Rel' /\ Bun' /\ Sta' /\ Opn' /\ Scy' /\ Lst' /\ Uni'
              /\ Sen' /\ Uns'
  <2>1. /\ pc = family /\ pc' = AfterFile(family) /\ verdict' = NoVerdict /\ i' = 1
        /\ UNCHANGED <<node, window, draft>> /\ unread \subseteq unread'
        /\ family \in {"tcp", "tcp6"}
        /\ family \in unread' \/ i > Len(SocketOrder[family])
    BY <1>13, <1>C DEF SocketFileFails, SocketFileDone, Families
  <2>2. NodeInWindow' /\ Rel' /\ Bun' /\ Sta' /\ Opn' /\ Scy' /\ Lst' /\ Uni' /\ Sen'
    BY <1>A, <2>1 DEF NodeInWindow, AfterFile
  <2>3. Uns'
    <3> SUFFICES ASSUME NEW f \in Families \ unread', NEW k \in DOMAIN SocketOrder[f],
                        HasScanned(f, k)', ~draft.ports[SocketOrder[f][k]]
                 PROVE  \E s \in window.port[SocketOrder[f][k]] : ~IsListed(s, f)
      BY <2>1
    <3>1. k \in Nat /\ k >= 1 /\ k <= Len(SocketOrder[f])
      BY SocketOrderAssumption
    <3>2. HasScanned(f, k)
      BY <1>C, <2>1, <3>1 DEF AfterFile, Families
    <3> QED  BY <1>A, <2>1, <3>2
  <2> QED  BY <2>2, <2>3
<1>14. CASE NormalizeAndClassify
  <2>1. /\ pc = "judge" /\ pc' = "idle"
        /\ UNCHANGED <<node, window, unread, i, draft>>
    BY <1>14, <1>C DEF NormalizeAndClassify
  <2>2. NodeInWindow'
    BY <1>A, <2>1 DEF NodeInWindow
  <2> QED  BY <1>A, <2>1, <2>2
<1>15. CASE UNCHANGED vars
  BY <1>A, <1>15 DEF vars, NodeInWindow
<1> QED
  BY <1>1, <1>2, <1>3, <1>4, <1>5, <1>6, <1>7, <1>8, <1>9, <1>10, <1>11, <1>12, <1>13,
     <1>14, <1>15 DEF Next, Collector

\* At every step of Collect, what was read so far was offered by the node
\* during this very call.
THEOREM CollectReadsAreWitnessed == Spec => []ReadsWitnessed
  BY TypeInit, TypeStep, WitnessInit, WitnessStep, PTL DEF Spec

(***************************************************************************)
(* The pipeline implements the abstract gate.                              *)
(***************************************************************************)
LEMMA JudgePublishes == ASSUME NEW s PROVE Judge(s) # NoVerdict
<1>1. Judge(s).verdict \in {"PASS", "UNKNOWN", "BLOCK"}
  BY DEF Judge, Classify
<1>2. NoVerdict.verdict = "none"
  BY DEF NoVerdict
<1> QED  BY <1>1, <1>2

\* The snapshot that is judged was offered by the node since Start.
EvidenceNow == [snapshot |-> draft, unread |-> unread]

LEMMA JudgedIsWitnessed ==
  ASSUME TypeOK, ReadsWitnessed, pc = "judge" \/ Published
  PROVE  Witnessed(EvidenceNow, window)
<1> USE DEF HasReadRelease, HasReadBundle, HasReadPKI, HasReadScylla, HasReadUnits,
            HasReadSockets, HasStat, HasOpen, HasScanned
<1>0. pc = "judge" \/ (pc = "idle" /\ Published)
  BY DEF TypeOK, Published
<1>1. /\ \E v \in window.release : draft.release = ReadRelease(v)
      /\ \E v \in window.bundle : draft.bundle = ReadBundle(v)
      /\ \E v \in window.scylla : draft.scylla = ReadScylla(v)
  BY <1>0 DEF ReadsWitnessed
<1>2. ASSUME NEW f \in PKIFiles
      PROVE  /\ \E v \in window.pki[f] : draft.pki[f].present = StatFinds(v)
             /\ \E v \in window.pki[f] : draft.pki[f].readable = OpenSucceeds(v)
  <2>1. PICK k \in DOMAIN PKIList : PKIList[k] = f
    BY ListsAssumption
  <2> QED  BY <1>0, <2>1 DEF ReadsWitnessed
<1>3. DOMAIN draft.services = Units
  <2>1. DOMAIN draft.services \subseteq Units
    BY DEF TypeOK, Snapshots, ServiceReads
  <2>2. ASSUME NEW u \in Units PROVE u \in DOMAIN draft.services
    <3>1. PICK k \in DOMAIN UnitList : UnitList[k] = u
      BY ListsAssumption
    <3> QED  BY <1>0, <3>1 DEF ReadsWitnessed
  <2> QED  BY <2>1, <2>2
<1>4. \A u \in Units : draft.services[u] \in window.unit[u] \cup {UnknownUnit}
  BY <1>3 DEF ReadsWitnessed
<1>5. DOMAIN draft.ports = Ports
  BY <1>0 DEF TypeOK, Published
<1>6. ASSUME NEW p \in Ports PROVE PortWitnessed(draft.ports[p], unread, window.port[p])
  <2>1. CASE draft.ports[p]
    BY <1>5, <2>1 DEF ReadsWitnessed, PortWitnessed
  <2>2. CASE ~draft.ports[p]
    <3>1. ASSUME NEW family \in Families \ unread
          PROVE  \E s \in window.port[p] : ~IsListed(s, family)
      <4>1. PICK k \in DOMAIN SocketOrder[family] : SocketOrder[family][k] = p
        BY SocketOrderAssumption
      <4> QED  BY <1>0, <2>2, <4>1 DEF ReadsWitnessed
    <3> QED  BY <2>2, <3>1 DEF PortWitnessed
  <2> QED  BY <2>1, <2>2
<1> QED  BY <1>1, <1>2, <1>3, <1>4, <1>5, <1>6 DEF Witnessed, EvidenceNow

LEMMA GateInit == Init => Gate!GateInit
  BY StartAssumption DEF Init, Gate!GateInit

LEMMA GateStep ==
  ASSUME TypeOK, ReadsWitnessed, [Next]_vars
  PROVE  [Gate!GateNext]_(Gate!gateVars)
<1> USE DEF Gate!GateNext, Gate!gateVars
<1>0. pc # "idle" => verdict = NoVerdict
  BY DEF TypeOK
<1>1. CASE NodeChanges
  <2>1. node' \in NodeStates
    BY <1>1, NodeChangesTyped DEF TypeOK
  <2> QED  BY <1>1, <2>1 DEF NodeChanges, Gate!GateNodeChanges
<1>2. CASE Start
  BY <1>2 DEF Start, Gate!GateOpen
<1>3. CASE NormalizeAndClassify
  <2>1. Witnessed(EvidenceNow, window) /\ UNCHANGED <<draft, unread, node, window>>
    BY <1>3, JudgedIsWitnessed DEF NormalizeAndClassify
  <2>2. verdict' = JudgeEvidence(EvidenceNow) /\ verdict' # NoVerdict
    BY <1>3, JudgePublishes DEF NormalizeAndClassify, JudgeEvidence, EvidenceNow
  <2> QED  BY <1>3, <2>1, <2>2 DEF NormalizeAndClassify, EvidenceNow, Gate!GatePublish
<1>4. CASE \/ ReadReleaseIndex \/ ReadBundleStatus \/ StatPKIFile \/ OpenPKIFile \/ PKIDone
           \/ ReadScyllaConfig \/ QueryUnit \/ QueryUnitFails \/ UnitsDone
           \/ \E family \in Families : \/ ReadSocketLine(family) \/ SocketFileFails(family)
                                       \/ SocketFileDone(family)
  <2>1. pc # "idle" /\ pc' # "idle" /\ UNCHANGED <<node, window, verdict>>
    BY <1>4 DEF ReadReleaseIndex, ReadBundleStatus, StatPKIFile, OpenPKIFile, PKIDone,
                ReadScyllaConfig, QueryUnit, QueryUnitFails, UnitsDone, ReadSocketLine,
                SocketFileFails, SocketFileDone, AfterFile, Families
  <2> QED  BY <1>0, <2>1
<1>5. CASE UNCHANGED vars
  BY <1>5 DEF vars
<1> QED
  BY <1>1, <1>2, <1>3, <1>4, <1>5 DEF Next, Collector

\* Collect, Normalize and Classify implement the abstract gate: a published
\* verdict is the judgement of a snapshot every part of which the node offered
\* since the collection was opened.
THEOREM PipelineImplementsGate == Spec => ImplementsGate
<1>1. Spec => [](TypeOK /\ ReadsWitnessed)
  BY TypeCorrect, CollectReadsAreWitnessed, PTL
<1>2. TypeOK /\ ReadsWitnessed /\ [Next]_vars => [Gate!GateNext]_(Gate!gateVars)
  BY GateStep
<1> QED
  BY <1>1, <1>2, GateInit, PTL DEF Spec, ImplementsGate, Gate!GateSpec

(***************************************************************************)
(* What a published verdict may be relied on for.                          *)
(***************************************************************************)
LEMMA PublishedJudgesDraft ==
  ASSUME TypeOK, ReadsWitnessed, Published
  PROVE  /\ verdict = Judge(draft)
         /\ Witnessed(EvidenceNow, window) /\ EvidenceNow.snapshot = draft
         /\ window \in Windows /\ NodeInWindow /\ draft.ports \in [Ports -> BOOLEAN]
  BY JudgedIsWitnessed DEF TypeOK, Published, ReadsWitnessed, EvidenceNow

\* Every release index and every bundle that was there during the call had a
\* counterpart at that moment, which it agreed with if they never disagreed.
Counterparts ==
  agreed =>
    /\ \A b \in window.bundle : \E r \in window.release : ~Drift(ReadBundle(b), ReadRelease(r))
    /\ \A r \in window.release : \E b \in window.bundle : ~Drift(ReadBundle(b), ReadRelease(r))

LEMMA CounterpartsInit == Init => Counterparts
<1> SUFFICES ASSUME Init PROVE Counterparts
  OBVIOUS
<1>1. window.bundle = {node.bundle} /\ window.release = {node.release}
  BY DEF Init, WindowAt
<1>2. agreed => ~Drift(ReadBundle(node.bundle), ReadRelease(node.release))
  BY DEF Init, FilesAgree
<1> QED  BY <1>1, <1>2 DEF Counterparts

LEMMA CounterpartsStep ==
  ASSUME Counterparts, [Next]_vars
  PROVE  Counterparts'
<1>1. CASE NodeChanges
  <2>1. /\ window'.bundle = window.bundle \cup {node'.bundle}
        /\ window'.release = window.release \cup {node'.release}
    BY <1>1 DEF NodeChanges, Widen
  <2>2. agreed' => agreed /\ ~Drift(ReadBundle(node'.bundle), ReadRelease(node'.release))
    BY <1>1 DEF NodeChanges, FilesAgree
  <2> QED  BY <2>1, <2>2 DEF Counterparts
<1>2. CASE Start
  <2>1. window'.bundle = {node.bundle} /\ window'.release = {node.release}
    BY <1>2 DEF Start, WindowAt
  <2>2. agreed' => ~Drift(ReadBundle(node.bundle), ReadRelease(node.release))
    BY <1>2 DEF Start, FilesAgree
  <2> QED  BY <2>1, <2>2 DEF Counterparts
<1>3. CASE UNCHANGED <<window, agreed>>
  BY <1>3 DEF Counterparts
<1>4. Next => NodeChanges \/ Start \/ UNCHANGED <<window, agreed>>
  BY DEF Next, Collector, ReadReleaseIndex, ReadBundleStatus, StatPKIFile, OpenPKIFile, PKIDone,
         ReadScyllaConfig, QueryUnit, QueryUnitFails, UnitsDone, ReadSocketLine,
         SocketFileFails, SocketFileDone, NormalizeAndClassify
<1> QED  BY <1>1, <1>2, <1>3, <1>4 DEF vars

\* A bundle that is absent or disagrees with the release index decides the
\* classification and blocks Day-1, whatever else is broken; a disagreement that
\* never was takes a change of both files within the call.
THEOREM BadBundleAlwaysDecides == Spec => []BadBundleDecides
<1>1. ASSUME TypeOK, ReadsWitnessed, Counterparts, Published,
             Drift(draft.bundle, draft.release), agreed
      PROVE  window.release # {node.release} /\ window.bundle # {node.bundle}
  <2>1. PICK b \in window.bundle, r \in window.release :
          draft.bundle = ReadBundle(b) /\ draft.release = ReadRelease(r)
    BY <1>1, PublishedJudgesDraft DEF Witnessed
  <2> QED  BY <1>1, <2>1 DEF Counterparts
<1>2. ASSUME TypeOK, ReadsWitnessed, Published,
             ~draft.bundle.present \/ Drift(draft.bundle, draft.release)
      PROVE  /\ verdict.class \in BundleClasses /\ verdict.verdict = "BLOCK"
             /\ ~verdict.readiness.AWARENESS_READY
  BY <1>2, PublishedJudgesDraft, BadBundleBlocks DEF BundleClasses, Drift
<1>3. TypeOK /\ ReadsWitnessed /\ Counterparts => BadBundleDecides
  BY <1>1, <1>2 DEF BadBundleDecides
<1>4. Spec => []Counterparts
  BY CounterpartsInit, CounterpartsStep, PTL DEF Spec
<1> QED  BY <1>3, <1>4, TypeCorrect, CollectReadsAreWitnessed, PTL

\* Whatever a node is held back for, completing Day-1 is forbidden.
THEOREM HeldBackIsForbidden == Spec => []HeldBackMeansForbidden
<1>1. TypeOK /\ ReadsWitnessed => HeldBackMeansForbidden
  BY PublishedJudgesDraft, OnlyPassIsUnforbidden DEF HeldBackMeansForbidden, Passed
<1> QED  BY <1>1, TypeCorrect, CollectReadsAreWitnessed, PTL

\* The advice on certificates is backed by what was seen of them.
THEOREM CertificateAdviceHolds == Spec => []CertificateAdviceIsWitnessed
<1>1. ASSUME TypeOK, ReadsWitnessed PROVE CertificateAdviceIsWitnessed
  <2> SUFFICES ASSUME Published PROVE CertificateAdviceIsWitnessed!2
    BY DEF CertificateAdviceIsWitnessed
  <2>1. \A f \in PKIFiles : \E v \in window.pki[f] : draft.pki[f].present = StatFinds(v)
    BY <1>1, PublishedJudgesDraft DEF Witnessed
  <2>2. ASSUME verdict.class = "PKI_MISSING" PROVE \E f \in PKIFiles : "absent" \in window.pki[f]
    <3>1. PICK f \in PKIFiles : ~draft.pki[f].present
      BY <1>1, <2>2, PublishedJudgesDraft, CertificateVerdicts
    <3> QED  BY <2>1, <3>1 DEF StatFinds
  <2>3. ASSUME "re-issue PKI artifacts" \in verdict.forbidden, NEW f \in PKIFiles
        PROVE  window.pki[f] # {"absent"}
    <3>1. draft.pki[f].present
      BY <1>1, <2>3, PublishedJudgesDraft, CertificateVerdicts
    <3> QED  BY <2>1, <3>1 DEF StatFinds
  <2> QED  BY <2>2, <2>3
<1> QED  BY <1>1, TypeCorrect, CollectReadsAreWitnessed, PTL

\* A PASS stands on every rung of the ladder but the release index.
THEOREM PassStandsOnWholeLadder == Spec => []PassStandsOnLadder
<1>1. ASSUME TypeOK, ReadsWitnessed, Passed
      PROVE  \A k \in 1..Len(Ladder) :
               Ladder[k] # "PACKAGE_BOM_READY" => verdict.readiness[Ladder[k]]
  <2>1. verdict = Judge(draft) /\ DOMAIN draft.services = Units
    BY <1>1, PublishedJudgesDraft DEF Passed, Witnessed
  <2> QED  BY <1>1, <2>1, PassLadder, UnitsAssumption DEF Passed
<1>2. TypeOK /\ ReadsWitnessed => PassStandsOnLadder
  BY <1>1 DEF PassStandsOnLadder
<1> QED  BY <1>2, TypeCorrect, CollectReadsAreWitnessed, PTL

\* A backend port closed for the whole collection blocks the node and every
\* service that depends on that backend.
THEOREM DownBackendAlwaysBlocks == Spec => []DownBackendBlocksDependents
<1>1. ASSUME TypeOK, ReadsWitnessed, NEW p \in Backends \cap Ports, Published,
             window.port[p] = {{}}
      PROVE  verdict.verdict = "BLOCK" /\ Dependents(p) \subseteq verdict.blocked
  <2>1. verdict = Judge(draft) /\ PortWitnessed(draft.ports[p], unread, window.port[p])
    BY <1>1, PublishedJudgesDraft DEF Witnessed, EvidenceNow
  <2>2. DOMAIN draft.ports = Ports
    BY <1>1, PublishedJudgesDraft
  <2>3. Closed(draft.ports, p)
    BY <1>1, <2>1, <2>2 DEF PortWitnessed, Closed
  <2>4. PICK q \in PortRules : q.port = p /\ q.fact.blocks = Dependents(p)
    <3> USE FactFields DEF PortRules, Dependents, BackendUnit, ServiceFailFact, ServiceBlocks
    <3>1. CASE p = 9042
      BY <3>1
    <3>2. CASE p = 2379
      BY <3>2
    <3>3. CASE p = 9000
      BY <3>3
    <3> QED  BY <3>1, <3>2, <3>3 DEF Backends
  <2> QED  BY <2>1, <2>3, <2>4, ClosedPortBlocks
<1>2. TypeOK /\ ReadsWitnessed => DownBackendBlocksDependents
  BY <1>1 DEF DownBackendBlocksDependents
<1> QED  BY <1>2, TypeCorrect, CollectReadsAreWitnessed, PTL

\* A fault that lasts for the whole collection cannot slip through to a PASS.
THEOREM PassIsAlwaysWitnessed == Spec => []PassIsWitnessed
<1>1. ASSUME TypeOK, ReadsWitnessed, Passed PROVE PassIsWitnessed!2
  <2> USE DEF Passed
  <2>1. /\ verdict = Judge(draft) /\ Judge(draft).verdict = "PASS"
        /\ Witnessed(EvidenceNow, window) /\ EvidenceNow.snapshot = draft
        /\ window \in Windows /\ NodeInWindow /\ draft.ports \in [Ports -> BOOLEAN]
    BY <1>1, PublishedJudgesDraft
  <2>2. \E b \in window.bundle, r \in window.release :
          b.state = "parsed" /\ ~Drift(ReadBundle(b), ReadRelease(r))
    <3>1. PICK b \in window.bundle, r \in window.release :
            draft.bundle = ReadBundle(b) /\ draft.release = ReadRelease(r)
      BY <2>1 DEF Witnessed
    <3>2. /\ ReadBundle(b).status = "LOADED"
          /\ ~Drift(ReadBundle(b), ReadRelease(r))
      BY <2>1, <3>1, PassImplies DEF Drift
    <3>3. b \in Files
      BY <2>1 DEF Windows
    <3>4. b.state # "absent" /\ b.state # "corrupt"
      BY <3>2 DEF ReadBundle
    <3>5. b.state = "parsed"
      <4>1. Absent.state = "absent" /\ Corrupt.state = "corrupt"
        BY DEF Absent, Corrupt
      <4>2. b # Absent /\ b # Corrupt
        BY <3>4, <4>1
      <4> QED  BY <3>3, <4>2 DEF Files
    <3> QED  BY <3>2, <3>5
  <2>3. ASSUME NEW f \in PKIFiles PROVE "readable" \in window.pki[f]
    <3>1. draft.pki[f].readable
      BY <2>1, PassImplies
    <3> QED  BY <2>1, <3>1 DEF Witnessed, OpenSucceeds
  <2>4. ASSUME NEW p \in Backends \cap Ports PROVE \E s \in window.port[p] : s # {}
    <3>1. draft.ports[p]
      BY <2>1, PassImplies DEF Backends
    <3> QED  BY <2>1, <3>1 DEF Witnessed, PortWitnessed
  <2>5. ASSUME NEW u \in Units, u.name = "scylla-server", draft.services[u] # UnknownUnit
        PROVE  \E s \in window.unit[u] : s.active # "failed"
    <3>1. u \in DOMAIN draft.services
      BY <2>1 DEF Witnessed
    <3>2. draft.services[u] \in window.unit[u]
      BY <1>1, <2>5, <3>1 DEF ReadsWitnessed
    <3>3. draft.services[u].active # "failed"
      BY <2>1, <2>5, <3>1, PassImplies, NamesAssumption
    <3> QED  BY <3>2, <3>3
  <2> QED  BY <2>2, <2>3, <2>4, <2>5
<1>2. TypeOK /\ ReadsWitnessed => PassIsWitnessed
  BY <1>1 DEF PassIsWitnessed
<1> QED  BY <1>2, TypeCorrect, CollectReadsAreWitnessed, PTL

\* Reading piecemeal costs nothing on a quiet node: the verdict is that of the
\* node as it is.
THEOREM QuietNodeIsJudgedExactly == Spec => []QuietNodeJudgedExactly
<1>1. ASSUME TypeOK, ReadsWitnessed, Published, window = WindowAt(node), NothingMissed
      PROVE  verdict = Judge(IdealSnapshot(node))
  <2>1. /\ verdict = Judge(draft) /\ Witnessed(EvidenceNow, window)
        /\ EvidenceNow.snapshot = draft /\ draft.ports \in [Ports -> BOOLEAN]
        /\ draft \in Snapshots /\ node \in NodeStates
    BY <1>1, PublishedJudgesDraft DEF TypeOK
  <2>2. /\ draft.release = ReadRelease(node.release) /\ draft.bundle = ReadBundle(node.bundle)
        /\ draft.scylla = ReadScylla(node.scylla)
    BY <1>1, <2>1 DEF Witnessed, WindowAt
  <2>3. draft.pki = [f \in PKIFiles |-> [present  |-> StatFinds(node.pki[f]),
                                        readable |-> OpenSucceeds(node.pki[f])]]
    <3>1. draft.pki \in [PKIFiles -> [present : BOOLEAN, readable : BOOLEAN]]
      BY <2>1 DEF Snapshots, PKIReads
    <3>2. ASSUME NEW f \in PKIFiles
          PROVE  draft.pki[f] = [present  |-> StatFinds(node.pki[f]),
                                 readable |-> OpenSucceeds(node.pki[f])]
      <4>1. /\ draft.pki[f].present = StatFinds(node.pki[f])
            /\ draft.pki[f].readable = OpenSucceeds(node.pki[f])
        BY <1>1, <2>1 DEF Witnessed, WindowAt
      <4>2. draft.pki[f] \in [present : BOOLEAN, readable : BOOLEAN]
        BY <3>1
      <4>3. draft.pki[f] = [present |-> draft.pki[f].present, readable |-> draft.pki[f].readable]
        BY <4>2
      <4> QED  BY <4>1, <4>3
    <3> QED  BY <3>1, <3>2
  <2>4. draft.services = node.unit
    <3>1. DOMAIN draft.services = Units /\ node.unit \in [Units -> UnitStates]
      BY <2>1 DEF Witnessed, NodeStates
    <3>2. PICK observed \in SUBSET Units :
            draft.services \in [observed -> UnitStates \cup {UnknownUnit}]
      BY <2>1 DEF Snapshots, ServiceReads
    <3>3. \A u \in Units : draft.services[u] = node.unit[u]
      BY <1>1, <3>1 DEF ReadsWitnessed, WindowAt, NothingMissed
    <3> QED  BY <3>1, <3>2, <3>3
  <2>5. draft.ports = [p \in Ports |-> node.port[p] # {}]
    <3>1. ASSUME NEW p \in Ports PROVE draft.ports[p] = (node.port[p] # {})
      <4>1. /\ PortWitnessed(draft.ports[p], unread, {node.port[p]}) /\ unread = {}
            /\ node.port[p] \in SUBSET Families
        BY <1>1, <2>1 DEF Witnessed, EvidenceNow, WindowAt, NothingMissed, NodeStates, SocketStates
      <4>2. draft.ports[p] => node.port[p] # {}
        BY <4>1 DEF PortWitnessed
      <4>3. ~draft.ports[p] => node.port[p] = {}
        BY <4>1 DEF PortWitnessed, IsListed
      <4> QED  BY <2>1, <4>2, <4>3
    <3> QED  BY <2>1, <3>1
  <2>6. draft = [release |-> draft.release, bundle |-> draft.bundle, pki |-> draft.pki,
                 scylla |-> draft.scylla, services |-> draft.services, ports |-> draft.ports]
    BY <2>1 DEF Snapshots
  <2>7. draft = IdealSnapshot(node)
    BY <2>2, <2>3, <2>4, <2>5, <2>6 DEF IdealSnapshot
  <2> QED  BY <2>1, <2>7
<1>2. TypeOK /\ ReadsWitnessed => QuietNodeJudgedExactly
  BY <1>1 DEF QuietNodeJudgedExactly
<1> QED  BY <1>2, TypeCorrect, CollectReadsAreWitnessed, PTL

\* A file that is there and well formed is a parsed one.
LEMMA OtherFilesParsed ==
  ASSUME NEW b \in Files, b.state # "absent", b.state # "corrupt"
  PROVE  b.state = "parsed"
<1>1. Absent.state = "absent" /\ Corrupt.state = "corrupt"
  BY DEF Absent, Corrupt
<1>2. b \notin {Absent, Corrupt}
  BY <1>1
<1>3. b \in [state : {"parsed"}, version : Versions \cup {""}, build : Builds \cup {""}]
  BY <1>2 DEF Files
<1> QED  BY <1>3

\* A sound node was sound before it got worse: nothing a PASS rests on is
\* gained by a change for the worse.
LEMMA WorseIsNoSounder ==
  ASSUME NEW n \in NodeStates, NEW m \in NodeStates, Worse(n, m), Sound(IdealSnapshot(m))
  PROVE  Sound(IdealSnapshot(n))
<1> DEFINE before == IdealSnapshot(n)
           after  == IdealSnapshot(m)
<1>1. m.bundle = n.bundle
  <2>1. ReadBundle(m.bundle).status = "LOADED"
    BY DEF Sound, BundleSound, IdealSnapshot
  <2>2. m.bundle.state \notin {"absent", "corrupt"} /\ m.bundle \in Files
    BY <2>1 DEF ReadBundle, NodeStates
  <2>3. m.bundle.state = "parsed"
    BY <2>2, OtherFilesParsed
  <2> QED  BY <2>3 DEF Worse
<1>2. BundleSound(before)
  <2>1. m.release = n.release
    BY DEF Worse
  <2>2. before.bundle = after.bundle /\ before.release = after.release
    BY <1>1, <2>1 DEF IdealSnapshot
  <2> QED  BY <2>2 DEF Sound, BundleSound
<1>3. PKISound(before)
  <2>1. \A f \in PKIFiles : m.pki[f] = "readable"
    BY DEF Sound, PKISound, IdealSnapshot, OpenSucceeds
  <2>2. \A f \in PKIFiles : n.pki[f] = "readable"
    BY <2>1 DEF Worse
  <2> QED  BY <2>2 DEF PKISound, IdealSnapshot, OpenSucceeds, StatFinds
<1>4. /\ before.services = n.unit /\ after.services = m.unit
      /\ DOMAIN n.unit = Units /\ DOMAIN m.unit = Units
      /\ before.ports = [p \in Ports |-> n.port[p] # {}]
      /\ after.ports = [p \in Ports |-> m.port[p] # {}]
  BY DEF IdealSnapshot, NodeStates
<1>5. UnitsSound(before)
  <2>1. \A u \in Units : u.name \in Backing => m.unit[u].active # "failed"
    BY <1>4 DEF Sound, UnitsSound
  <2>2. \A u \in Units : u.name \in Backing => n.unit[u] = m.unit[u]
    BY <2>1 DEF Worse
  <2> QED  BY <1>4, <2>1, <2>2 DEF UnitsSound
<1>6. PortsSound(before)
  <2>1. ASSUME NEW port, NEW owners, PortReady(after, port, owners)
        PROVE  PortReady(before, port, owners)
    BY <1>4, <2>1 DEF PortReady, NoneExpected, Worse
  <2> QED  BY <2>1 DEF Sound, PortsSound
<1> QED  BY <1>2, <1>3, <1>5, <1>6 DEF Sound

\* A node that only gets worse never turns from held back to PASS: at no moment,
\* and so between two calls.
THEOREM WorseNodeNeverPasses == Spec => DegradationNeverUnblocks
<1> DEFINE passes(n) == Judge(IdealSnapshot(n)).verdict = "PASS"
<1>1. ASSUME NEW n \in NodeStates
      PROVE  PlainNames(IdealSnapshot(n))
  <2>1. DOMAIN IdealSnapshot(n).services = Units
    BY DEF IdealSnapshot, NodeStates
  <2> QED  BY <2>1, NamesAssumption DEF PlainNames, Backing
<1>2. ASSUME TypeOK, TypeOK', Worse(node, node'), passes(node')
      PROVE  passes(node)
  <2>1. node \in NodeStates /\ node' \in NodeStates
    BY <1>2 DEF TypeOK
  <2>2. Sound(IdealSnapshot(node'))
    BY <1>1, <1>2, <2>1, PassIsSound
  <2>3. Sound(IdealSnapshot(node))
    BY <1>2, <2>1, <2>2, WorseIsNoSounder
  <2> QED  BY <1>1, <2>1, <2>3, PassIsSound
<1>3. TypeOK /\ TypeOK'
        => [pc = "idle" /\ Worse(node, node') => (passes(node') => passes(node))]_node
  BY <1>2
<1> QED  BY <1>3, TypeCorrect, PTL DEF DegradationNeverUnblocks

(***************************************************************************)
(* What a PASS stands for, exactly.                                        *)
(***************************************************************************)
\* The units of the backends and of the gateway are observed by plain names.
LEMMA JudgedNamesArePlain ==
  ASSUME TypeOK, ReadsWitnessed, Published
  PROVE  PlainNames(draft)
<1>1. DOMAIN draft.services = Units
  BY PublishedJudgesDraft DEF Witnessed
<1> QED  BY <1>1, NamesAssumption DEF PlainNames, Backing

\* PASS says that the bundle is loaded and agrees with the release index, every
\* PKI file can be read, no backing unit has failed and every backend port is
\* open, or unobserved on a node that does not run that backend - this and
\* nothing else, however many other facts the snapshot gives rise to.
THEOREM PassExactlyWhenSound == Spec => [](Published => (Passed <=> Sound(draft)))
<1>1. TypeOK /\ ReadsWitnessed => (Published => (Passed <=> Sound(draft)))
  BY PublishedJudgesDraft, JudgedNamesArePlain, PassIsSound DEF Passed
<1> QED  BY <1>1, TypeCorrect, CollectReadsAreWitnessed, PTL

\* Without a release index the comparison is left out and nothing takes its
\* place: such a node is at DAY1_COMPLETE whenever the rest of it is sound,
\* though the index is a gate of its own in the contracts.
THEOREM ReleaseIndexIsNoGate ==
  Spec => [](Published /\ ~draft.release.present =>
               (verdict.readiness.DAY1_COMPLETE <=>
                  /\ draft.bundle.present /\ draft.bundle.status = "LOADED"
                  /\ PKISound(draft) /\ UnitsSound(draft) /\ PortsSound(draft)))
<1>1. ASSUME TypeOK, ReadsWitnessed, Published, ~draft.release.present
      PROVE  verdict.readiness.DAY1_COMPLETE <=>
               /\ draft.bundle.present /\ draft.bundle.status = "LOADED"
               /\ PKISound(draft) /\ UnitsSound(draft) /\ PortsSound(draft)
  <2>1. /\ verdict = Judge(draft) /\ Witnessed(EvidenceNow, window)
        /\ EvidenceNow.snapshot = draft /\ window \in Windows
    BY <1>1, PublishedJudgesDraft
  <2>2. PICK v \in window.release : draft.release = ReadRelease(v)
    BY <2>1 DEF Witnessed
  <2>3. v \in Files /\ v.state = "absent"
    <3>1. v \in Files
      BY <2>1, <2>2 DEF Windows
    <3>2. ReadRelease(v).present <=> v.state # "absent"
      BY DEF ReadRelease
    <3> QED  BY <1>1, <2>2, <3>1, <3>2
  <2>4. v = Absent
    <3>1. Corrupt.state = "corrupt"
      BY DEF Corrupt
    <3> QED  BY <2>3, <3>1 DEF Files
  <2>5. draft.release.version = ""
    <3>1. ReadRelease(v).version = v.version
      BY DEF ReadRelease
    <3>2. Absent.version = ""
      BY DEF Absent
    <3> QED  BY <2>2, <2>4, <3>1, <3>2
  <2>6. ~VersionDrift(draft.bundle, draft.release) /\ ~BuildDrift(draft.bundle, draft.release)
    BY <2>5 DEF VersionDrift, BuildDrift, Comparable
  <2>7. Judge(draft).verdict = "PASS" <=> Sound(draft)
    BY <1>1, JudgedNamesArePlain, PassIsSound
  <2>8. Judge(draft).readiness.DAY1_COMPLETE <=> Judge(draft).verdict = "PASS"
    <3>1. Readiness(draft, Normalize(draft)).DAY1_COMPLETE = WorkloadReady(draft, Normalize(draft))
      BY DEF Readiness
    <3>2. Judge(draft).verdict = "PASS" <=> WorkloadReady(draft, Normalize(draft))
      BY JudgeFields
    <3>3. Judge(draft).readiness = Readiness(draft, Normalize(draft))
      BY JudgeFields
    <3> QED  BY <3>1, <3>2, <3>3
  <2> QED  BY <2>1, <2>6, <2>7, <2>8 DEF Sound, BundleSound
<1>2. TypeOK /\ ReadsWitnessed =>
        (Published /\ ~draft.release.present =>
           (verdict.readiness.DAY1_COMPLETE <=>
              /\ draft.bundle.present /\ draft.bundle.status = "LOADED"
              /\ PKISound(draft) /\ UnitsSound(draft) /\ PortsSound(draft)))
  BY <1>1
<1> QED  BY <1>2, TypeCorrect, CollectReadsAreWitnessed, PTL

\* The unit gates go by the observed name alone: whatever state the units under
\* other names are in, a globular-etcd or a globular-minio among them, changes
\* nothing about PASS.
THEOREM OnlyPlainNamesCount ==
  ASSUME NEW s \in Snapshots, PlainNames(s),
         NEW states \in [DOMAIN s.services -> UnitStates \cup {UnknownUnit}],
         \A u \in DOMAIN s.services : u.name \in Backing => states[u] = s.services[u]
  PROVE  Judge([s EXCEPT !.services = states]).verdict = "PASS" <=> Judge(s).verdict = "PASS"
<1> DEFINE t == [s EXCEPT !.services = states]
<1>1. /\ t.services = states /\ DOMAIN t.services = DOMAIN s.services
      /\ t.bundle = s.bundle /\ t.release = s.release /\ t.pki = s.pki /\ t.ports = s.ports
  BY DEF Snapshots
<1> HIDE DEF t
<1>2. PlainNames(t)
  BY <1>1 DEF PlainNames
<1>3. BundleSound(t) <=> BundleSound(s)
  BY <1>1 DEF BundleSound
<1>4. PKISound(t) <=> PKISound(s)
  BY <1>1 DEF PKISound
<1>5. UnitsSound(t) <=> UnitsSound(s)
  BY <1>1 DEF UnitsSound
<1>6. PortsSound(t) <=> PortsSound(s)
  BY <1>1 DEF PortsSound, PortReady, NoneExpected
<1>7. Judge(t).verdict = "PASS" <=> Judge(s).verdict = "PASS"
  BY <1>2, <1>3, <1>4, <1>5, <1>6, PassIsSound DEF Sound
<1> QED  BY <1>7 DEF t

(***************************************************************************)
(* A call comes to its end.                                                *)
(***************************************************************************)
\* The loops stop one behind the end of their lists.
IndexInv ==
  /\ pc = "stat" => i <= Len(PKIList) + 1
  /\ pc = "open" => i <= Len(PKIList)
  /\ pc = "units" => i <= Len(UnitList) + 1
  /\ pc = "tcp" => i <= Len(SocketOrder["tcp"]) + 1
  /\ pc = "tcp6" => i <= Len(SocketOrder["tcp6"]) + 1

ListLengths ==
  /\ Len(UnitList) \in Nat /\ Len(PKIList) \in Nat
  /\ Len(SocketOrder["tcp"]) \in Nat /\ Len(SocketOrder["tcp6"]) \in Nat

LEMMA LengthsAreNats == ListLengths
  BY ListsAssumption, SocketOrderAssumption DEF ListLengths, Families

LEMMA IndexStep == TypeOK /\ IndexInv /\ [Next]_vars => IndexInv'
<1> SUFFICES ASSUME TypeOK, IndexInv, [Next]_vars PROVE IndexInv'
  OBVIOUS
<1>1. i \in Nat \ {0} /\ (pc \in {"release", "bundle"} => i = 1) /\ pc \in Steps
  BY DEF TypeOK
<1> USE LengthsAreNats DEF ListLengths
<1>2. CASE UNCHANGED vars \/ NodeChanges
  BY <1>2 DEF IndexInv, vars, NodeChanges
<1>3. CASE Start \/ ReadReleaseIndex \/ ReadBundleStatus
  BY <1>1, <1>3 DEF IndexInv, Start, ReadReleaseIndex, ReadBundleStatus
<1>4. CASE StatPKIFile \/ OpenPKIFile \/ PKIDone \/ ReadScyllaConfig
  BY <1>1, <1>4 DEF IndexInv, StatPKIFile, OpenPKIFile, PKIDone, ReadScyllaConfig
<1>5. CASE QueryUnit \/ QueryUnitFails
  BY <1>1, <1>5 DEF IndexInv, QueryUnit, QueryUnitFails
<1>6. CASE UnitsDone \/ NormalizeAndClassify
  BY <1>6 DEF IndexInv, UnitsDone, NormalizeAndClassify
<1>7. ASSUME NEW family \in Families,
             ReadSocketLine(family) \/ SocketFileFails(family) \/ SocketFileDone(family)
      PROVE  IndexInv'
  BY <1>1, <1>7 DEF IndexInv, ReadSocketLine, SocketFileFails, SocketFileDone, AfterFile, Families
<1> QED  BY <1>2, <1>3, <1>4, <1>5, <1>6, <1>7 DEF Next, Collector

\* The lengths of the lists, and what the bound is at each step.
NU == Len(UnitList)
NP == Len(PKIList)
N4 == Len(SocketOrder["tcp"])
N6 == Len(SocketOrder["tcp6"])

LEMMA LengthsTyped == NU \in Nat /\ NP \in Nat /\ N4 \in Nat /\ N6 \in Nat
  BY LengthsAreNats DEF ListLengths, NU, NP, N4, N6

LEMMA StepsFromIs ==
  ASSUME NEW j \in Nat
  PROVE  /\ StepsFrom("idle", j) = 0 /\ StepsFrom("judge", j) = 1
         /\ StepsFrom("tcp6", j) = N6 + 3 - j /\ StepsFrom("tcp", j) = N4 + N6 + 4 - j
         /\ StepsFrom("units", j) = NU + N4 + N6 + 5 - j
         /\ StepsFrom("scylla", j) = NU + N4 + N6 + 5
         /\ StepsFrom("open", j) = NU + N4 + N6 + 2 * NP + 7 - 2 * j
         /\ StepsFrom("stat", j) = NU + N4 + N6 + 2 * NP + 8 - 2 * j
         /\ StepsFrom("bundle", j) = NU + N4 + N6 + 2 * NP + 7
         /\ StepsFrom("release", j) = NU + N4 + N6 + 2 * NP + 8
<1>1. ASSUME NEW label
      PROVE  StepsFrom(label, j) =
        [idle |-> 0, release |-> NU + N4 + N6 + 2 * NP + 8, bundle |-> NU + N4 + N6 + 2 * NP + 7,
         stat |-> NU + N4 + N6 + 2 * NP + 8 - 2 * j, open |-> NU + N4 + N6 + 2 * NP + 7 - 2 * j,
         scylla |-> NU + N4 + N6 + 5, units |-> NU + N4 + N6 + 5 - j,
         tcp |-> N4 + N6 + 4 - j, tcp6 |-> N6 + 3 - j, judge |-> 1][label]
  BY DEF StepsFrom, NU, NP, N4, N6
<1> QED  BY <1>1

LEMMA StepsLeftPositive ==
  TypeOK /\ IndexInv => StepsLeft \in Nat /\ (pc # "idle" => StepsLeft # 0)
<1> SUFFICES ASSUME TypeOK, IndexInv PROVE StepsLeft \in Nat /\ (pc # "idle" => StepsLeft # 0)
  OBVIOUS
<1>1. i \in Nat \ {0} /\ pc \in Steps /\ StepsLeft = StepsFrom(pc, i)
  BY DEF TypeOK, StepsLeft
<1>2. /\ pc \in {"stat", "open"} => i <= NP + 1
      /\ pc = "open" => i <= NP
      /\ pc = "units" => i <= NU + 1
      /\ pc = "tcp" => i <= N4 + 1
      /\ pc = "tcp6" => i <= N6 + 1
  BY <1>1, LengthsTyped DEF IndexInv, NU, NP, N4, N6
<1>3. CASE pc \in {"release", "bundle", "scylla", "judge", "idle"}
  BY <1>1, <1>3, StepsFromIs, LengthsTyped
<1>4. CASE pc \in {"stat", "open", "units"}
  BY <1>1, <1>2, <1>4, StepsFromIs, LengthsTyped
<1>5. CASE pc \in {"tcp", "tcp6"}
  BY <1>1, <1>2, <1>5, StepsFromIs, LengthsTyped
<1> QED  BY <1>1, <1>3, <1>4, <1>5 DEF Steps

\* Each step of the collector leaves one less.
LEMMA CollectorRunsDown ==
  ASSUME TypeOK, IndexInv, pc # "idle", Collector
  PROVE  StepsLeft' < StepsLeft
<1>1. i \in Nat /\ i >= 1 /\ i + 1 \in Nat /\ (pc \in {"release", "bundle"} => i = 1)
  BY DEF TypeOK
<1>2. NU \in Nat /\ NP \in Nat /\ N4 \in Nat /\ N6 \in Nat
  BY LengthsTyped
<1>3. StepsLeft = StepsFrom(pc, i) /\ StepsLeft' = StepsFrom(pc', i')
  BY DEF StepsLeft
<1>5. CASE ReadReleaseIndex \/ ReadBundleStatus
  <2>1. /\ i' = 1 /\ i = 1
        /\ \/ pc = "release" /\ pc' = "bundle"
           \/ pc = "bundle" /\ pc' = "stat"
    BY <1>1, <1>5 DEF ReadReleaseIndex, ReadBundleStatus
  <2> QED  BY <1>2, <1>3, <2>1, StepsFromIs
<1>6. CASE StatPKIFile
  <2>1. i' = i /\ pc = "stat" /\ pc' = "open"
    BY <1>6 DEF StatPKIFile
  <2> QED  BY <1>1, <1>2, <1>3, <2>1, StepsFromIs
<1>7. CASE OpenPKIFile
  <2>1. i' = i + 1 /\ pc = "open" /\ pc' = "stat"
    BY <1>7 DEF OpenPKIFile
  <2> QED  BY <1>1, <1>2, <1>3, <2>1, StepsFromIs
<1>8. CASE PKIDone
  <2>1. i' = i /\ pc = "stat" /\ pc' = "scylla" /\ i <= NP + 1
    BY <1>8 DEF PKIDone, IndexInv, NP
  <2> QED  BY <1>1, <1>2, <1>3, <2>1, StepsFromIs
<1>9. CASE ReadScyllaConfig
  <2>1. i' = 1 /\ pc = "scylla" /\ pc' = "units"
    BY <1>9 DEF ReadScyllaConfig
  <2> QED  BY <1>1, <1>2, <1>3, <2>1, StepsFromIs
<1>10. CASE QueryUnit \/ QueryUnitFails
  <2>1. i' = i + 1 /\ pc = "units" /\ pc' = "units"
    BY <1>10 DEF QueryUnit, QueryUnitFails
  <2> QED  BY <1>1, <1>2, <1>3, <2>1, StepsFromIs
<1>11. CASE UnitsDone
  <2>1. i' = 1 /\ pc = "units" /\ pc' = "tcp" /\ i <= NU + 1
    BY <1>11 DEF UnitsDone, IndexInv, NU
  <2> QED  BY <1>1, <1>2, <1>3, <2>1, StepsFromIs
<1>12. ASSUME NEW family \in Families, ReadSocketLine(family)
       PROVE  StepsLeft' < StepsLeft
  <2>1. i' = i + 1 /\ pc \in {"tcp", "tcp6"} /\ pc' = pc
    BY <1>12 DEF ReadSocketLine, Families
  <2> QED  BY <1>1, <1>2, <1>3, <2>1, StepsFromIs
<1>13. ASSUME NEW family \in Families, SocketFileFails(family) \/ SocketFileDone(family)
       PROVE  StepsLeft' < StepsLeft
  <2>1. /\ i' = 1
        /\ \/ pc = "tcp" /\ pc' = "tcp6" /\ i <= N4 + 1
           \/ pc = "tcp6" /\ pc' = "judge" /\ i <= N6 + 1
    BY <1>13 DEF SocketFileFails, SocketFileDone, AfterFile, Families, IndexInv, N4, N6
  <2> QED  BY <1>1, <1>2, <1>3, <2>1, StepsFromIs
<1>14. CASE NormalizeAndClassify
  <2>1. i' = i /\ pc = "judge" /\ pc' = "idle"
    BY <1>14 DEF NormalizeAndClassify
  <2> QED  BY <1>1, <1>3, <2>1, StepsFromIs
<1>15. ~Start
  BY DEF Start
<1> QED
  BY <1>5, <1>6, <1>7, <1>8, <1>9, <1>10, <1>11, <1>12, <1>13, <1>14, <1>15 DEF Collector

\* A call of Collect ends in a verdict after a number of steps known beforehand,
\* however the node changes and whichever queries fail meanwhile.
THEOREM EveryCallRunsDown == Spec => CollectRunsDown
<1>1. Init => IndexInv
  BY DEF Init, IndexInv
<1>2. TypeOK' /\ IndexInv' => (StepsLeft \in Nat)'
  <2>1. TypeOK /\ IndexInv => StepsLeft \in Nat
    BY StepsLeftPositive
  <2> QED  BY <2>1, PTL
<1>3. TypeOK /\ TypeOK' /\ IndexInv /\ [Next]_vars =>
        [pc # "idle" => /\ StepsLeft \in Nat \ {0} /\ StepsLeft' <= StepsLeft
                        /\ Collector => StepsLeft' < StepsLeft]_vars
  <2> SUFFICES ASSUME TypeOK, TypeOK', IndexInv, Next, pc # "idle"
               PROVE  /\ StepsLeft \in Nat \ {0} /\ StepsLeft' <= StepsLeft
                      /\ Collector => StepsLeft' < StepsLeft
    OBVIOUS
  <2>1. StepsLeft \in Nat \ {0} /\ StepsLeft' \in Nat
    BY <1>2, StepsLeftPositive, IndexStep
  <2>2. Collector => StepsLeft' < StepsLeft
    BY CollectorRunsDown
  <2>3. NodeChanges => StepsLeft' = StepsLeft
    BY DEF NodeChanges, StepsLeft
  <2> QED  BY <2>1, <2>2, <2>3 DEF Next
<1> QED  BY <1>1, <1>3, IndexStep, TypeCorrect, PTL DEF Spec, CollectRunsDown
=============================================================================
