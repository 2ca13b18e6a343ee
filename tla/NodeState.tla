----------------------------- MODULE NodeState ------------------------------
(***************************************************************************)
(* What is on a node, as far as the Collector can look: files, systemd     *)
(* units and sockets.  None of it belongs to package evidence; it is       *)
(* modelled from what the Collector reads and how it reads it.  The        *)
(* operators below say what one read of each source returns.               *)
(***************************************************************************)
EXTENDS Day1Classifier

CONSTANTS
  Ports,       \* the TCP ports reported on (knownPorts, or a subset of it)
  Versions,    \* non-empty version strings
  Builds,      \* non-empty build ids
  UnitStates   \* [active, sub] pairs systemd reports

ASSUME VersionsAssumption == "" \notin Versions

(***************************************************************************)
(* File contents.  A manifest or a release index is absent, unparseable,   *)
(* or parsed into a version and a build id, either of which may be empty.  *)
(***************************************************************************)
NamedFile(version, build) == [state |-> "parsed", version |-> version, build |-> build]
Absent  == [state |-> "absent", version |-> "", build |-> ""]
Corrupt == [state |-> "corrupt", version |-> "", build |-> ""]

Files ==
  {Absent, Corrupt}
    \cup [state : {"parsed"}, version : Versions \cup {""}, build : Builds \cup {""}]

PKIStates == {"absent", "unreadable", "readable"}

ScyllaStates == {"absent", "unseeded", "seeded"}

\* /proc/net/tcp and /proc/net/tcp6, and of one port: the files that list a
\* listener on it.
Families == {"tcp", "tcp6"}
SocketStates == SUBSET Families

NodeStates ==
  [release : Files, bundle : Files,
   pki : [PKIFiles -> PKIStates], scylla : ScyllaStates,
   unit : [Units -> UnitStates], port : [Ports -> SocketStates]]

(***************************************************************************)
(* The reads.                                                              *)
(***************************************************************************)
\* A malformed release index is present with an empty version.
ReadRelease(file) ==
  [present |-> file.state # "absent", version |-> file.version, build |-> file.build]

ReadBundle(file) ==
  [present |-> file.state # "absent", version |-> file.version, build |-> file.build,
   status  |-> CASE file.state = "absent"  -> "MISSING"
                 [] file.state = "corrupt" -> "CORRUPT"
                 [] OTHER                  -> "LOADED"]

ReadScylla(state) == [present |-> state # "absent", seeds |-> state = "seeded"]

\* observeFile: Stat, then Open.
StatFinds(state) == state # "absent"
OpenSucceeds(state) == state = "readable"

\* systemctl failed, or the context was cancelled.
UnknownUnit == [active |-> "unknown", sub |-> ""]

\* Before either socket file is read, no port listens.
NoSocketSeen == [p \in Ports |-> FALSE]

IsListed(sockets, family) == family \in sockets

\* What a collector that saw the node all at once would have read.
IdealSnapshot(n) ==
  [release  |-> ReadRelease(n.release),
   bundle   |-> ReadBundle(n.bundle),
   pki      |-> [f \in PKIFiles |-> [present  |-> StatFinds(n.pki[f]),
                                     readable |-> OpenSucceeds(n.pki[f])]],
   scylla   |-> ReadScylla(n.scylla),
   services |-> n.unit,
   ports    |-> [p \in Ports |-> n.port[p] # {}]]

\* No call of the pipeline has returned yet.
NoVerdict  == [verdict |-> "none"]
NoEvidence == [snapshot |-> "none"]

(***************************************************************************)
(* The values each source has had since collection began.                  *)
(***************************************************************************)
Windows ==
  [release : SUBSET Files, bundle : SUBSET Files,
   pki : [PKIFiles -> SUBSET PKIStates], scylla : SUBSET ScyllaStates,
   unit : [Units -> SUBSET UnitStates], port : [Ports -> SUBSET SocketStates]]

WindowAt(n) ==
  [release |-> {n.release}, bundle |-> {n.bundle},
   pki |-> [f \in PKIFiles |-> {n.pki[f]}], scylla |-> {n.scylla},
   unit |-> [u \in Units |-> {n.unit[u]}], port |-> [p \in Ports |-> {n.port[p]}]]

Widen(w, n) ==
  [release |-> w.release \cup {n.release}, bundle |-> w.bundle \cup {n.bundle},
   pki |-> [f \in PKIFiles |-> w.pki[f] \cup {n.pki[f]}],
   scylla |-> w.scylla \cup {n.scylla},
   unit |-> [u \in Units |-> w.unit[u] \cup {n.unit[u]}],
   port |-> [p \in Ports |-> w.port[p] \cup {n.port[p]}]]

\* A port is seen where one of the files lists it.  It goes unseen if each file
\* either was not read to its end or did not list it at some moment: the two are
\* read one after the other, so it may have been open all along.
PortWitnessed(seen, unread, sockets) ==
  IF seen THEN \E s \in sockets : s # {}
          ELSE \A family \in Families \ unread : \E s \in sockets : ~IsListed(s, family)

\* Evidence is a snapshot and the socket files that could not be read.  Every
\* observation in it was offered within w, not necessarily at the same moment
\* for any two of them; a unit may have gone unanswered.
Witnessed(e, w) == LET s == e.snapshot IN
  /\ \E v \in w.release : s.release = ReadRelease(v)
  /\ \E v \in w.bundle : s.bundle = ReadBundle(v)
  /\ \A f \in PKIFiles :
       /\ \E v \in w.pki[f] : s.pki[f].present = StatFinds(v)
       /\ \E v \in w.pki[f] : s.pki[f].readable = OpenSucceeds(v)
  /\ \E v \in w.scylla : s.scylla = ReadScylla(v)
  /\ DOMAIN s.services = Units
  /\ \A u \in Units : s.services[u] \in w.unit[u] \cup {UnknownUnit}
  /\ DOMAIN s.ports = Ports
  /\ \A p \in Ports : PortWitnessed(s.ports[p], e.unread, w.port[p])
=============================================================================
