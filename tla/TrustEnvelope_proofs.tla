------------------------ MODULE TrustEnvelope_proofs ------------------------
(***************************************************************************)
(* Proofs about the trust envelope: the type invariant is inductive, and   *)
(* with it the rules Compose states for itself, the alarm loop and the     *)
(* monotonicity of the verdict hold for any alarms and reports of any      *)
(* length.                                                                 *)
(***************************************************************************)
EXTENDS TrustEnvelope, TLAPS

Verdicts    == {"trusted", "usable", "limited", "unsafe", "stale", "unknown"}
Freshnesses == {"fresh", "stale_repo", "stale_unknown", "unknown"}
Coverages   == {"none", "partial", "sufficient", "strong"}

\* The fields of the composed envelope.
LEMMA EnvelopeFields ==
  /\ env.verdict = Verdict(match, tuple, Freshness(report), Coverage(match, tuple))
  /\ env.freshness = Freshness(report)
  /\ env.coverage = Coverage(match, tuple)
BY Zenon DEF env, Compose

\* The freshness label is one of four, whatever the report.
LEMMA FreshnessType == ASSUME NEW s PROVE Freshness(s) \in Freshnesses
BY DEF Freshness, AlarmLabel, Freshnesses

\* A report is fresh exactly when nothing in it is amiss: the loop stops at the
\* first alarm it knows, and every label it can return there is a stale one.
LEMMA FreshMeansQuiet ==
  ASSUME NEW s
  PROVE  Freshness(s) = "fresh" <=>
           /\ s # NoReport /\ ~s.graphStale
           /\ Telling(s.alarms) = {}
           /\ ~s.unknownRole /\ s.bundlePresent
BY DEF Freshness, AlarmLabel

\* Coverage is defined on every tuple a query can carry.
LEMMA CoverageType ==
  ASSUME NEW m, NEW t \in Tuples \cup {NoTuple}
  PROVE  Coverage(m, t) \in Coverages
<1>1. TupleCoverage(t) \in Coverages
  <2>1. CASE t = NoTuple
    BY <2>1 DEF TupleCoverage, Coverages
  <2>2. CASE t # NoTuple
    <3>1. t.level \in Levels
      BY <2>2 DEF Tuples
    <3>. QED BY <2>2, <3>1 DEF TupleCoverage, Coverages, Levels
  <2>. QED BY <2>1, <2>2
<1>. QED BY <1>1 DEF Coverage, Coverages

\* What each coverage and freshness leads to.
LEMMA VerdictTable ==
  ASSUME NEW m, NEW t, NEW fresh, NEW cov \in Coverages
  PROVE  LET v == Verdict(m, t, fresh, cov) IN
         /\ v \in Verdicts
         /\ ~m.found => v = "unknown"
         /\ m.found /\ fresh # "fresh" => v = "stale"
         /\ m.found /\ fresh = "fresh" /\ cov = "none" => v = "unsafe"
         /\ m.found /\ fresh = "fresh" /\ cov = "partial" => v = "limited"
         /\ m.found /\ fresh = "fresh" /\ cov = "sufficient" => v = "usable"
         /\ m.found /\ fresh = "fresh" /\ cov = "strong" =>
              v = IF Linked(t, "test") THEN "trusted" ELSE "usable"
<1>1. CASE cov = "none"
  BY <1>1 DEF Verdict, Verdicts
<1>2. CASE cov = "partial"
  BY <1>2 DEF Verdict, Verdicts
<1>3. CASE cov = "sufficient"
  BY <1>3 DEF Verdict, Verdicts
<1>4. CASE cov = "strong"
  BY <1>4 DEF Verdict, Verdicts
<1>. QED BY <1>1, <1>2, <1>3, <1>4 DEF Coverages

-----------------------------------------------------------------------------
(* Types                                                                   *)

Inputs ==
  /\ match \in Matches
  /\ tuple \in Tuples \cup {NoTuple}
  /\ report \in Reports \cup {NoReport}

LEMMA InputsStep == ASSUME Inputs, [Next]_vars PROVE Inputs'
<1>. USE DEF Inputs
<1>1. CASE MatchChanges
  BY <1>1 DEF MatchChanges
<1>2. CASE TupleArrives
  <2>1. tuple' \in Tuples
    BY <1>2 DEF TupleArrives, Tuples, Legs, Levels
  <2>. QED BY <1>2, <2>1 DEF TupleArrives
<1>3. CASE TupleLost
  BY <1>3 DEF TupleLost
<1>4. CASE LegChanges
  <2>1. PICK leg \in Legs, level \in Levels :
          tuple' = [tuple EXCEPT !.level = level,
                                 !.legs  = IF leg \in @ THEN @ \ {leg} ELSE @ \cup {leg}]
    BY <1>4 DEF LegChanges
  <2>2. tuple \in Tuples
    BY <1>4 DEF LegChanges
  <2>3. tuple' \in Tuples
    <3>1. CASE leg \in tuple.legs
      <4>1. tuple' = [tuple EXCEPT !.level = level, !.legs = tuple.legs \ {leg}]
        BY <2>1, <2>2, <3>1 DEF Tuples
      <4>. QED BY <2>2, <4>1 DEF Tuples
    <3>2. CASE leg \notin tuple.legs
      <4>1. tuple' = [tuple EXCEPT !.level = level, !.legs = tuple.legs \cup {leg}]
        BY <2>1, <2>2, <3>2 DEF Tuples
      <4>. QED BY <2>2, <4>1 DEF Tuples
    <3>. QED BY <3>1, <3>2
  <2>. QED BY <1>4, <2>3 DEF LegChanges
<1>5. CASE ReportArrives
  <2>1. << >> \in Seq(Alarms)
    OBVIOUS
  <2>2. HealthyReport \in Reports
    BY <2>1 DEF HealthyReport, Reports
  <2>. QED BY <1>5, <2>2 DEF ReportArrives
<1>6. CASE AlarmRaised
  <2>1. PICK a \in Alarms : report' = [report EXCEPT !.alarms = Append(@, a)]
    BY <1>6 DEF AlarmRaised
  <2>2. report \in Reports
    BY <1>6 DEF AlarmRaised
  <2>3. Append(report.alarms, a) \in Seq(Alarms)
    BY <2>2 DEF Reports
  <2>4. report' \in Reports
    BY <2>1, <2>2, <2>3 DEF Reports
  <2>. QED BY <1>6, <2>4 DEF AlarmRaised
<1>7. CASE AlarmCleared
  <2>1. PICK i \in DOMAIN report.alarms :
          report' = [report EXCEPT !.alarms =
                       SubSeq(@, 1, i - 1) \o SubSeq(@, i + 1, Len(@))]
    BY <1>7 DEF AlarmCleared
  <2>2. report \in Reports
    BY <1>7 DEF AlarmCleared
  <2>3. report.alarms \in Seq(Alarms) /\ i \in 1 .. Len(report.alarms)
    BY <2>1, <2>2 DEF Reports
  <2>4. SubSeq(report.alarms, 1, i - 1) \in Seq(Alarms)
    BY <2>3
  <2>5. SubSeq(report.alarms, i + 1, Len(report.alarms)) \in Seq(Alarms)
    BY <2>3
  <2>7. SubSeq(report.alarms, 1, i - 1) \o SubSeq(report.alarms, i + 1, Len(report.alarms))
          \in Seq(Alarms)
    BY <2>4, <2>5
  <2>6. report' \in Reports
    BY <2>1, <2>2, <2>7 DEF Reports
  <2>. QED BY <1>7, <2>6 DEF AlarmCleared
<1>8. CASE SourceChanges
  <2>1. report \in Reports
    BY <1>8 DEF SourceChanges
  <2>2. report' \in Reports
    BY <1>8, <2>1 DEF SourceChanges, Reports
  <2>. QED BY <1>8, <2>2 DEF SourceChanges
<1>9. CASE UNCHANGED vars
  BY <1>9 DEF vars
<1>. QED BY <1>1, <1>2, <1>3, <1>4, <1>5, <1>6, <1>7, <1>8, <1>9 DEF Next

\* Every set of inputs the walk reaches is well typed.
THEOREM InputsAlways == Spec => []Inputs
<1>1. Init => Inputs
  BY DEF Init, Inputs, Matches
<1>2. Inputs /\ [Next]_vars => Inputs'
  BY InputsStep
<1>. QED BY <1>1, <1>2, PTL DEF Spec

\* The inputs and the envelope keep their types.
THEOREM TypeCorrect == Spec => []TypeOK
<1>1. Inputs => TypeOK
  <2>. SUFFICES ASSUME Inputs PROVE TypeOK
    OBVIOUS
  <2>1. Coverage(match, tuple) \in Coverages
    BY CoverageType DEF Inputs
  <2>2. Verdict(match, tuple, Freshness(report), Coverage(match, tuple)) \in Verdicts
    BY <2>1, VerdictTable
  <2>3. /\ env.verdict \in Verdicts /\ env.freshness \in Freshnesses
        /\ env.coverage \in Coverages
    BY <2>1, <2>2, FreshnessType, EnvelopeFields
  <2>. QED BY <2>3 DEF TypeOK, Inputs, Verdicts, Freshnesses, Coverages
<1>. QED BY <1>1, InputsAlways, PTL

-----------------------------------------------------------------------------
(* Safety                                                                  *)

\* The legs of the envelope decide the verdict as LegsDecide says, for every input:
\* what Compose keeps of the rules written above it, and where it does not keep the
\* one on no coverage.
THEOREM LegsAlwaysDecide == Spec => []LegsDecide
<1>1. Inputs => LegsDecide
  <2>. SUFFICES ASSUME Inputs PROVE LegsDecide
    OBVIOUS
  <2>1. Coverage(match, tuple) \in Coverages
    BY CoverageType DEF Inputs
  <2>3. env.coverage \in Coverages
    BY <2>1, EnvelopeFields
  <2>4. /\ env.verdict \in Verdicts
        /\ ~match.found => env.verdict = "unknown"
        /\ match.found /\ env.freshness # "fresh" => env.verdict = "stale"
        /\ match.found /\ env.freshness = "fresh" /\ env.coverage = "none" => env.verdict = "unsafe"
        /\ match.found /\ env.freshness = "fresh" /\ env.coverage = "partial" => env.verdict = "limited"
        /\ match.found /\ env.freshness = "fresh" /\ env.coverage = "sufficient" => env.verdict = "usable"
        /\ match.found /\ env.freshness = "fresh" /\ env.coverage = "strong" =>
             env.verdict = IF Linked(tuple, "test") THEN "trusted" ELSE "usable"
    <3>1. env.verdict = Verdict(match, tuple, env.freshness, env.coverage)
      BY EnvelopeFields
    <3>. QED BY <2>3, <3>1, VerdictTable
  <2>5. env.coverage = "none" =>
          /\ Clearance(env.verdict) = 0
          /\ env.verdict \in {"unsafe", "unknown"} <=> ~match.found \/ env.freshness = "fresh"
    BY <2>4 DEF Clearance
  <2>6. env.coverage = "partial" => Clearance(env.verdict) <= 1
    BY <2>4 DEF Clearance
  <2>7. env.verdict = "trusted" <=>
          Deciding /\ env.coverage = "strong" /\ Linked(tuple, "test")
    BY <2>3, <2>4 DEF Coverages, Deciding
  <2>8. env.coverage = "sufficient" => (env.verdict = "usable" <=> Deciding)
    BY <2>4 DEF Deciding
  <2>9. /\ env.verdict = "unknown" <=> ~match.found
        /\ env.verdict = "stale" <=> match.found /\ env.freshness # "fresh"
    BY <2>3, <2>4 DEF Coverages
  <2>. QED BY <2>5, <2>6, <2>7, <2>8, <2>9, Zenon DEF LegsDecide
<1>. QED BY <1>1, InputsAlways, PTL

\* No alarm hides another, and no missing source is cleared.
THEOREM NoAlarmHidesAnother == Spec => []ClearedOnlyWhenQuiet
<1>1. Inputs => ClearedOnlyWhenQuiet
  <2>. SUFFICES ASSUME Inputs, Clearance(env.verdict) > 0
                PROVE  /\ report # NoReport
                       /\ \A i \in DOMAIN report.alarms : ~Relevant(report.alarms[i])
                       /\ ~report.graphStale /\ ~report.unknownRole /\ report.bundlePresent
    BY DEF ClearedOnlyWhenQuiet
  <2>1. Coverage(match, tuple) \in Coverages
    BY CoverageType DEF Inputs
  <2>2. env.verdict \notin {"unsafe", "unknown", "stale"}
    BY DEF Clearance
  <2>3. Freshness(report) = "fresh"
    BY <2>1, <2>2, VerdictTable, EnvelopeFields
  <2>. QED BY <2>3, FreshMeansQuiet DEF Telling
<1>. QED BY <1>1, InputsAlways, PTL

\* What holds a verdict back is among the limitations, and a trusted envelope asks
\* for nothing.
THEOREM HeldBackAlwaysSaysWhy == Spec => []HeldBackSaysWhy
<1>1. Inputs => HeldBackSaysWhy
  <2>. SUFFICES ASSUME Inputs PROVE HeldBackSaysWhy
    OBVIOUS
  <2>1. /\ env.limitations = Limitations(match, tuple, Freshness(report))
        /\ env.actions = RequiredActions(match, tuple, Freshness(report))
    BY Zenon DEF env, Compose
  <2>2. Coverage(match, tuple) \in Coverages
    BY CoverageType DEF Inputs
  <2>3. ASSUME match.kind \in {"", "failure_mode"}, WellFormed(tuple), env.limitations = {}
        PROVE  env.verdict = "trusted"
    <3>1. match.found /\ Freshness(report) = "fresh" /\ tuple # NoTuple
      BY <2>1, <2>3 DEF Limitations, WellFormed
    <3>2. Legs \subseteq tuple.legs
      BY <2>1, <2>3, <3>1 DEF Limitations
    <3>3. tuple.legs = Legs /\ tuple.level = "well_covered" /\ tuple.state = ""
      BY <2>3, <3>1, <3>2 DEF Inputs, Tuples, WellFormed
    <3>4. Coverage(match, tuple) = "strong"
      BY <2>3, <3>1, <3>3 DEF Coverage, TupleCoverage
    <3>5. Linked(tuple, "test")
      BY <3>1, <3>3 DEF Linked, Legs
    <3>. QED BY <2>2, <3>1, <3>4, <3>5, VerdictTable, EnvelopeFields
  <2>4. ASSUME env.verdict = "trusted"
        PROVE  env.actions = {}
    <3>1. match.found /\ Freshness(report) = "fresh" /\ Linked(tuple, "test")
      BY <2>2, <2>4, VerdictTable, EnvelopeFields DEF Coverages
    <3>. QED BY <2>1, <3>1 DEF RequiredActions
  <2>. QED BY <2>3, <2>4 DEF HeldBackSaysWhy
<1>. QED BY <1>1, InputsAlways, PTL

-----------------------------------------------------------------------------
(* Monotonicity                                                            *)

\* What a verdict clears, as a function of the three legs.
Cleared(m, t, s) == Clearance(Verdict(m, t, Freshness(s), Coverage(m, t)))

\* A quiet report does not come from a worse one.
LEMMA FreshnessMonotone ==
  ASSUME NEW s, NEW t, WorseReport(s, t), Freshness(t) = "fresh"
  PROVE  Freshness(s) = "fresh"
<1>1. /\ t # NoReport /\ ~t.graphStale /\ ~t.unknownRole /\ t.bundlePresent
      /\ Telling(t.alarms) = {}
  BY FreshMeansQuiet
<1>2. /\ s # NoReport /\ ~s.graphStale /\ ~s.unknownRole /\ s.bundlePresent
      /\ \A i \in DOMAIN s.alarms : \E j \in DOMAIN t.alarms : t.alarms[j] = s.alarms[i]
  BY <1>1 DEF WorseReport
<1>3. Telling(s.alarms) = {}
  BY <1>1, <1>2 DEF Telling
<1>. QED BY <1>2, <1>3, FreshMeansQuiet

\* Clearance by coverage.
Ceiling(cov) ==
  CASE cov = "none" -> 0 [] cov = "partial" -> 1
    [] cov = "sufficient" -> 2 [] cov = "strong" -> 3

LEMMA CeilingType == ASSUME NEW c \in Coverages PROVE Ceiling(c) \in 0 .. 3
BY DEF Ceiling, Coverages

\* Losing legs of a tuple of the same level never raises its coverage.
LEMMA CoverageMonotone ==
  ASSUME NEW m, NEW t \in Tuples \cup {NoTuple}, NEW u \in Tuples \cup {NoTuple},
         WorseTuple(t, u)
  PROVE  /\ Ceiling(Coverage(m, u)) <= Ceiling(Coverage(m, t))
         /\ Coverage(m, u) = "strong" => Coverage(m, t) = "strong"
         /\ Linked(u, "test") => Linked(t, "test")
<1>1. Linked(u, "test") => Linked(t, "test")
  BY DEF Linked, WorseTuple
<1>2. Coverage(m, t) \in Coverages /\ Coverage(m, u) \in Coverages
  BY CoverageType
<1>3. CASE m.kind \notin {"", "failure_mode"}
  <2>1. Coverage(m, t) = "partial" /\ Coverage(m, u) = "partial"
    BY <1>3 DEF Coverage
  <2>. QED BY <1>1, <2>1 DEF Ceiling
<1>4. CASE m.kind \in {"", "failure_mode"} /\ u = NoTuple
  <2>1. Coverage(m, u) = "none"
    BY <1>4 DEF Coverage, TupleCoverage
  <2>2. Ceiling(Coverage(m, u)) = 0
    BY <2>1 DEF Ceiling
  <2>. QED BY <1>1, <1>2, <2>1, <2>2, CeilingType
<1>5. CASE m.kind \in {"", "failure_mode"} /\ u # NoTuple
  <2>1. /\ t # NoTuple /\ t.state = u.state /\ t.level = u.level /\ u.legs \subseteq t.legs
        /\ t.level \in Levels
    BY <1>5 DEF WorseTuple, Tuples
  <2>2. AtLeastTwo(u.legs) => AtLeastTwo(t.legs)
    BY <2>1 DEF AtLeastTwo
  <2>6. Coverage(m, t) = TupleCoverage(t) /\ Coverage(m, u) = TupleCoverage(u)
    BY <1>5 DEF Coverage
  <2>7. CASE TupleCoverage(t) = TupleCoverage(u)
    BY <1>1, <1>2, <2>6, <2>7, CeilingType
  <2>8. CASE TupleCoverage(t) # TupleCoverage(u)
    <3>1. t.state # "INTENTIONAL_GAP" /\ t.level = "partial"
      BY <1>5, <2>1, <2>8 DEF TupleCoverage, Levels
    <3>2. TupleCoverage(t) = "sufficient" /\ TupleCoverage(u) = "partial"
      BY <1>5, <2>1, <2>2, <2>8, <3>1 DEF TupleCoverage
    <3>. QED BY <1>1, <2>6, <3>2 DEF Ceiling
  <2>. QED BY <2>7, <2>8
<1>. QED BY <1>3, <1>4, <1>5

\* Clearance of a fresh, matched query.
LEMMA ClearedTable ==
  ASSUME NEW m, NEW t \in Tuples \cup {NoTuple}, NEW s
  PROVE  /\ ~m.found \/ Freshness(s) # "fresh" => Cleared(m, t, s) = 0
         /\ m.found /\ Freshness(s) = "fresh" =>
              Cleared(m, t, s) =
                IF Coverage(m, t) = "strong" /\ ~Linked(t, "test") THEN 2
                ELSE Ceiling(Coverage(m, t))
<1>1. Coverage(m, t) \in Coverages
  BY CoverageType
<1>. QED BY <1>1, VerdictTable DEF Cleared, Clearance, Ceiling, Coverages

\* Bad news never strengthens the verdict, whatever the report holds.
THEOREM BadNewsNeverClears == Spec => WorseNewsNeverClears
<1>1. ASSUME Inputs, Inputs',
             match'.found => match.found, match'.kind = match.kind,
             WorseTuple(tuple, tuple'), WorseReport(report, report')
      PROVE  Clearance(env'.verdict) <= Clearance(env.verdict)
  <2>1. Clearance(env.verdict) = Cleared(match, tuple, report)
    BY EnvelopeFields DEF Cleared
  <2>2. Clearance(env'.verdict) = Cleared(match', tuple', report')
    BY DEF Cleared, env, Compose
  <2>3. /\ tuple \in Tuples \cup {NoTuple} /\ tuple' \in Tuples \cup {NoTuple}
    BY <1>1 DEF Inputs
  <2>4. Coverage(match', tuple') = Coverage(match, tuple')
    BY <1>1 DEF Coverage
  <2>5. /\ Ceiling(Coverage(match, tuple')) <= Ceiling(Coverage(match, tuple))
        /\ Coverage(match, tuple') = "strong" => Coverage(match, tuple) = "strong"
        /\ Linked(tuple', "test") => Linked(tuple, "test")
    BY <1>1, <2>3, CoverageMonotone
  <2>6. Coverage(match, tuple) \in Coverages /\ Coverage(match, tuple') \in Coverages
    BY <2>3, CoverageType
  <2>7. CASE ~match'.found \/ Freshness(report') # "fresh"
    <3>1. Cleared(match', tuple', report') = 0
      BY <2>3, <2>7, ClearedTable
    <3>2. Cleared(match, tuple, report) >= 0
      BY <2>3, <2>6, ClearedTable DEF Ceiling, Coverages
    <3>. QED BY <2>1, <2>2, <3>1, <3>2
  <2>8. CASE match'.found /\ Freshness(report') = "fresh"
    <3>1. match.found /\ Freshness(report) = "fresh"
      BY <1>1, <2>8, FreshnessMonotone
    <3>2. Cleared(match, tuple, report) =
            IF Coverage(match, tuple) = "strong" /\ ~Linked(tuple, "test") THEN 2
            ELSE Ceiling(Coverage(match, tuple))
      BY <2>3, <3>1, ClearedTable
    <3>3. Cleared(match', tuple', report') =
            IF Coverage(match, tuple') = "strong" /\ ~Linked(tuple', "test") THEN 2
            ELSE Ceiling(Coverage(match, tuple'))
      BY <2>3, <2>4, <2>8, ClearedTable
    <3>. QED BY <2>1, <2>2, <2>5, <2>6, <3>2, <3>3 DEF Ceiling, Coverages
  <2>. QED BY <2>7, <2>8
<1>2. Inputs /\ Inputs' /\ [Next]_vars =>
        [/\ match'.found => match.found
         /\ match'.kind = match.kind
         /\ WorseTuple(tuple, tuple')
         /\ WorseReport(report, report')
         => Clearance(env'.verdict) <= Clearance(env.verdict)]_vars
  BY <1>1
<1>. QED BY <1>2, InputsAlways, PTL DEF Spec, WorseNewsNeverClears

=============================================================================
