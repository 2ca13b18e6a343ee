--------------------------- MODULE TrustEnvelope ---------------------------
(***************************************************************************)
(* The trust envelope of src/assurance/envelope.go: Compose folds what is  *)
(* known about the freshness of the awareness inputs and about the         *)
(* coverage of the matched failure mode into one verdict.  The inputs are  *)
(* recomputed for every query, so the module walks from one set of inputs  *)
(* to the next, one observation at a time, and asks what the envelope does *)
(* at every step.                                                          *)
(***************************************************************************)
EXTENDS Naturals, Sequences

CONSTANTS
  Kinds,      \* values of PrimaryMatchKind the queries produce
  Alarms,     \* alarms a staleness report may hold: [id, critical]
  MaxAlarms,  \* bound on the alarms of one report
  NoTuple,    \* a nil PerFailureMode
  NoReport    \* a nil Staleness

Levels == {"well_covered", "partial", "theoretical", "orphan"}
States == {"", "INTENTIONAL_GAP", "DEPRECATED"}
Legs   == {"mitigation", "test", "detector"}

AlarmIDs == {"bundle_age_exceeded", "yaml_newer_than_graph",
             "bundle_older_than_graph", "unknown_role_knowledge_files", "other"}

VARIABLES
  match,    \* ComposeInputs.MatchFound and PrimaryMatchKind
  tuple,    \* ComposeInputs.PerFailureMode
  report    \* ComposeInputs.Staleness

vars == <<match, tuple, report>>

\* A coverage tuple keeps of each count only whether it is positive.
Tuples  == [legs : SUBSET Legs, level : Levels, state : States]
Reports == [graphStale : BOOLEAN, alarms : Seq(Alarms),
            unknownRole : BOOLEAN, bundlePresent : BOOLEAN]
Matches == [found : BOOLEAN, kind : Kinds]

ASSUME TrustAssumption ==
  /\ Kinds \subseteq {"", "failure_mode", "invariant", "forbidden_fix", "raw_yaml"}
  /\ Alarms \subseteq [id : AlarmIDs, critical : BOOLEAN]
  /\ MaxAlarms \in Nat
  /\ NoTuple \notin Tuples /\ NoReport \notin Reports

-----------------------------------------------------------------------------
(* The freshness leg                                                       *)

\* Whether the alarm loop stops at this alarm.  An age alarm counts only when
\* it is critical; the severity of the others is not looked at.
Relevant(a) ==
  \/ a.id = "bundle_age_exceeded" /\ a.critical
  \/ a.id \in {"yaml_newer_than_graph", "bundle_older_than_graph",
               "unknown_role_knowledge_files"}

AlarmLabel(a) ==
  IF a.id = "unknown_role_knowledge_files" THEN "stale_unknown" ELSE "stale_repo"

\* Mutant: only the first alarm of the report is looked at.
TellingFirstOnly(alarms) == {i \in DOMAIN alarms : i = 1 /\ Relevant(alarms[i])}

Telling(alarms) == {i \in DOMAIN alarms : Relevant(alarms[i])}

First(I) == CHOOSE i \in I : \A j \in I : i <= j

\* The single freshness label: the graph first, then the first alarm the loop
\* stops at, then the unclassified files and the missing bundle.
Freshness(s) ==
  IF s = NoReport THEN "unknown"
  ELSE IF s.graphStale THEN "stale_repo"
  ELSE IF Telling(s.alarms) # {} THEN AlarmLabel(s.alarms[First(Telling(s.alarms))])
  ELSE IF s.unknownRole \/ ~s.bundlePresent THEN "stale_unknown"
  ELSE "fresh"

-----------------------------------------------------------------------------
(* The coverage leg and the verdict                                        *)

\* Mutant: the test on the number of legs is the wrong way round.
AtLeastTwoInverted(S) == \A x, y \in S : x = y

AtLeastTwo(S) == \E x, y \in S : x # y

TupleCoverage(t) ==
  IF t = NoTuple THEN "none"
  ELSE IF t.state = "INTENTIONAL_GAP" THEN "partial"
  ELSE CASE t.level = "well_covered"                -> "strong"
         [] t.level = "partial"                     ->
              IF AtLeastTwo(t.legs) THEN "sufficient" ELSE "partial"
         [] t.level \in {"theoretical", "orphan"}   -> "none"

\* The failure-mode vocabulary applies only when a failure mode was matched.
Coverage(m, t) ==
  IF m.kind \in {"", "failure_mode"} THEN TupleCoverage(t) ELSE "partial"

Linked(t, leg) == t # NoTuple /\ leg \in t.legs

Verdict(m, t, fresh, cov) ==
  IF ~m.found THEN "unknown"
  ELSE IF fresh # "fresh" THEN "stale"
  ELSE CASE cov = "none"       -> "unsafe"
         [] cov = "partial"    -> "limited"
         [] cov = "sufficient" -> "usable"
         [] cov = "strong"     -> IF Linked(t, "test") THEN "trusted" ELSE "usable"

-----------------------------------------------------------------------------
(* Limitations and required actions, one token per message                 *)

\* Mutant: a missing detector is not listed.
LimitationsNoDetector(m, t, fresh) ==
     {l \in {"no match"} : ~m.found}
  \cup {l \in {"stale inputs"} : fresh # "fresh"}
  \cup (IF t # NoTuple THEN {"mitigation", "test"} \ t.legs
        ELSE {l \in {"no coverage tuple"} : m.found})

Limitations(m, t, fresh) ==
     {l \in {"no match"} : ~m.found}
  \cup {l \in {"stale inputs"} : fresh # "fresh"}
  \cup (IF t # NoTuple THEN Legs \ t.legs
        ELSE {l \in {"no coverage tuple"} : m.found})

RequiredActions(m, t, fresh) ==
     {a \in {"inspect manually", "create provisional"} : ~m.found}
  \cup {a \in {"rebuild graph"} : fresh = "stale_repo"}
  \cup {a \in {"regenerate bundle"} : fresh \notin {"fresh", "stale_repo"}}
  \cup {a \in {"add a test"} : t # NoTuple /\ ~Linked(t, "test")}

Compose(m, t, s) ==
  LET fresh == Freshness(s)
      cov   == Coverage(m, t)
  IN [verdict     |-> Verdict(m, t, fresh, cov),
      freshness   |-> fresh,
      coverage    |-> cov,
      limitations |-> Limitations(m, t, fresh),
      actions     |-> RequiredActions(m, t, fresh),
      provenance  |-> t # NoTuple]

env == Compose(match, tuple, report)

-----------------------------------------------------------------------------
(* The inputs, one observation at a time                                   *)

HealthyReport ==
  [graphStale |-> FALSE, alarms |-> << >>, unknownRole |-> FALSE, bundlePresent |-> TRUE]

Init ==
  /\ match \in [found : {FALSE}, kind : Kinds]
  /\ tuple = NoTuple
  /\ report = NoReport

\* The query finds a match of some kind, or none.
MatchChanges ==
  /\ match' \in Matches \ {match}
  /\ UNCHANGED <<tuple, report>>

\* A coverage tuple becomes available for the match.
TupleArrives ==
  /\ tuple = NoTuple
  /\ tuple' \in [legs : {{}}, level : {"theoretical", "orphan"}, state : States]
  /\ UNCHANGED <<match, report>>

TupleLost ==
  /\ tuple # NoTuple
  /\ tuple' = NoTuple
  /\ UNCHANGED <<match, report>>

\* One leg is linked or unlinked; the level reported with it is the producer's.
LegChanges ==
  /\ tuple # NoTuple
  /\ \E leg \in Legs, level \in Levels :
       tuple' = [tuple EXCEPT !.level = level,
                              !.legs  = IF leg \in @ THEN @ \ {leg} ELSE @ \cup {leg}]
  /\ UNCHANGED <<match, report>>

ReportArrives ==
  /\ report = NoReport
  /\ report' = HealthyReport
  /\ UNCHANGED <<match, tuple>>

AlarmRaised ==
  /\ report # NoReport
  /\ Len(report.alarms) < MaxAlarms
  /\ \E a \in Alarms : report' = [report EXCEPT !.alarms = Append(@, a)]
  /\ UNCHANGED <<match, tuple>>

AlarmCleared ==
  /\ report # NoReport
  /\ \E i \in DOMAIN report.alarms :
       report' = [report EXCEPT !.alarms =
                    SubSeq(@, 1, i - 1) \o SubSeq(@, i + 1, Len(@))]
  /\ UNCHANGED <<match, tuple>>

\* The graph goes stale or is rebuilt, the bundle disappears or is published,
\* an unclassified file shows up or is resolved.
SourceChanges ==
  /\ report # NoReport
  /\ \/ report' = [report EXCEPT !.graphStale = ~@]
     \/ report' = [report EXCEPT !.unknownRole = ~@]
     \/ report' = [report EXCEPT !.bundlePresent = ~@]
  /\ UNCHANGED <<match, tuple>>

Next ==
  \/ MatchChanges \/ TupleArrives \/ TupleLost \/ LegChanges
  \/ ReportArrives \/ AlarmRaised \/ AlarmCleared \/ SourceChanges

Spec == Init /\ [][Next]_vars

-----------------------------------------------------------------------------
(* Properties                                                              *)

\* unsafe, unknown and stale all block a safety verdict.
Clearance(v) ==
  CASE v \in {"unsafe", "unknown", "stale"} -> 0
    [] v = "limited"                        -> 1
    [] v = "usable"                         -> 2
    [] v = "trusted"                        -> 3

\* The coverage decides only where there is a match on fresh inputs.
Deciding == match.found /\ env.freshness = "fresh"

\* The inputs and the envelope keep their types.
TypeOK ==
  /\ match \in Matches
  /\ tuple \in Tuples \cup {NoTuple}
  /\ report \in Reports \cup {NoReport}
  /\ env.verdict \in {"trusted", "usable", "limited", "unsafe", "stale", "unknown"}
  /\ env.freshness \in {"fresh", "stale_repo", "stale_unknown", "unknown"}
  /\ env.coverage \in {"none", "partial", "sufficient", "strong"}

\* Which leg of the envelope decides the verdict.  Five of the six rules above
\* Compose are kept by this.  The sixth, "coverage none => verdict must be unsafe
\* or unknown", is kept on fresh inputs and without a match; on stale inputs that
\* match the verdict is "stale", which blocks as well but is neither of the two.
LegsDecide ==
  /\ env.verdict = "unknown" <=> ~match.found
  /\ env.verdict = "stale" <=> match.found /\ env.freshness # "fresh"
  /\ env.coverage = "none" =>
       /\ Clearance(env.verdict) = 0
       /\ env.verdict \in {"unsafe", "unknown"} <=> ~match.found \/ env.freshness = "fresh"
  /\ env.coverage = "partial" => Clearance(env.verdict) <= 1
  /\ env.coverage = "sufficient" => (env.verdict = "usable" <=> Deciding)
  /\ env.verdict = "trusted" <=>
       /\ Deciding /\ env.coverage = "strong" /\ Linked(tuple, "test")

\* The alarm loop returns at the first alarm it knows, but no alarm hides
\* another: wherever in the report a repository alarm stands, and whatever
\* surrounds it, the verdict is held.  Nor does any report clear a query whose
\* bundle is missing or that met a file nobody can classify.
ClearedOnlyWhenQuiet ==
  Clearance(env.verdict) > 0 =>
    /\ report # NoReport
    /\ \A i \in DOMAIN report.alarms : ~Relevant(report.alarms[i])
    /\ ~report.graphStale /\ ~report.unknownRole /\ report.bundlePresent

\* A tuple as its producer fills it in: the level is that of the legs, unless
\* a lifecycle hint stands in for it.
WellFormed(t) ==
  /\ t # NoTuple /\ t.state = ""
  /\ t.level = "well_covered" <=> t.legs = Legs
  /\ t.level = "partial" <=> t.legs \notin {{}, Legs}

\* An envelope that is not trusted says what is missing: for a failure-mode
\* query with a well-formed tuple, no limitation listed means trusted; and a
\* trusted envelope asks for no further action.
HeldBackSaysWhy ==
  /\ match.kind \in {"", "failure_mode"} /\ WellFormed(tuple) /\ env.limitations = {}
       => env.verdict = "trusted"
  /\ env.verdict = "trusted" => env.actions = {}

WorseReport(s, t) ==
  \/ t = NoReport
  \/ /\ s # NoReport /\ t # NoReport
     /\ s.graphStale => t.graphStale
     /\ s.unknownRole => t.unknownRole
     /\ t.bundlePresent => s.bundlePresent
     /\ \A i \in DOMAIN s.alarms : \E j \in DOMAIN t.alarms : t.alarms[j] = s.alarms[i]

WorseTuple(t, u) ==
  \/ u = NoTuple
  \/ /\ t # NoTuple /\ u # NoTuple
     /\ u.legs \subseteq t.legs /\ u.state = t.state /\ u.level = t.level

\* Bad news never strengthens the verdict: a step that only raises alarms,
\* lets a source go stale, removes a leg of coverage, or loses the match, the
\* tuple or the report leaves the query at most as cleared as it was.
WorseNewsNeverClears ==
  [][/\ match'.found => match.found
     /\ match'.kind = match.kind
     /\ WorseTuple(tuple, tuple')
     /\ WorseReport(report, report')
     => Clearance(env'.verdict) <= Clearance(env.verdict)]_vars

=============================================================================
