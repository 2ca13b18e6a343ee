-------------------------- MODULE KnowledgeReports --------------------------
(***************************************************************************)
(* The tools that report on the knowledge itself: awareness_selfcheck and  *)
(* awareness_assurance of the MCP server, the commands of the same names,  *)
(* and the five lookup tools.  Each loads the knowledge once, with the     *)
(* loader of module Preflight, file by file, while people save the files;  *)
(* what it then says may be true of no single moment.                      *)
(*                                                                         *)
(* Of Preflight's state it uses the files, the load and their history.     *)
(* Which entries with a last_verified date are overdue is up to the clock. *)
(***************************************************************************)
EXTENDS Preflight

CONSTANTS
  Ids, NoId,   \* IDs of entries, and the empty one
  IdOf,        \* the ID of each entry (the name of a boundary)
  RefsOf,      \* the references of each entry: a kind and an ID
  Bare,        \* entries without what the self-check asks of their kind
  Blank,       \* entries without a title, summary or statement
  Dated        \* entries with last_verified and stale_after_days

Refs == [kind : Core \cup Extended, id : Ids \cup {NoId}]

ASSUME ReportAssumption ==
  /\ NoId \notin Ids
  /\ IdOf \in [Entries -> Ids \cup {NoId}]
  /\ RefsOf \in [Entries -> SUBSET Refs]
  \* An incident pattern without a failure mode refers to none.
  /\ \A e \in Entries : Kind(e) = "incident_pattern" =>
       [kind |-> "failure_mode", id |-> NoId] \notin RefsOf[e]
  /\ Bare \subseteq Entries /\ Blank \subseteq Entries
  /\ Dated \subseteq {e \in Entries : Kind(e) \in {"invariant", "failure_mode"}}

VARIABLES
  request,  \* which tool was called
  report,   \* what it said
  copies    \* what the load appended: a place and an entry it found there

reportVars == <<request, report, copies>>
allVars    == <<vars, reportVars>>
\* The state of Preflight no report touches.
others     == <<disk, dirty, edits, tool, paths, asked, warned, blind, matches, entries,
                answer, still>>

LookupKinds == {"decision", "forbidden_assumption", "authority_rule", "required_test",
                "remediation_contract"}
ReportTools == {"selfcheck", "assurance"} \cup LookupKinds

NoWarnings == [lacking |-> {}, stale |-> {}, refs |-> {}]
NoCounts   == [k \in Core \cup Extended |-> 0]
Nothing    == [said |-> "nothing", errors |-> {}, warnings |-> NoWarnings, counts |-> NoCounts,
               gaps |-> {}, found |-> {}]

-----------------------------------------------------------------------------
(* Selfcheck, Validate and Assurance                                       *)

KnownIn(b) == [k \in Core \cup Extended |-> {IdOf[e] : e \in OfKind(b, k)}]

Dangling(b, checked, known) ==
  {x \in b \X Refs : /\ x[2] \in RefsOf[x[1]]
                     /\ <<Kind(x[1]), x[2].kind>> \in checked
                     /\ x[2].id \notin known[x[2].kind]}

\* Whose references to what Selfcheck counts as errors.
SelfcheckErrs ==
  {<<"decision", "invariant">>, <<"decision", "failure_mode">>,
   <<"forbidden_assumption", "invariant">>,
   <<"required_test", "invariant">>, <<"required_test", "failure_mode">>,
   <<"subsystem_boundary", "invariant">>, <<"authority_rule", "invariant">>,
   <<"remediation_contract", "failure_mode">>}

SelfcheckWarns == {<<"authority_rule", "forbidden_assumption">>}

\* Mutant: an ID counts as known before its file was read.
SelfcheckErrorsAnyId(b) == Dangling(b, SelfcheckErrs, KnownIn(Entries))

SelfcheckErrors(b) == Dangling(b, SelfcheckErrs, KnownIn(b))

\* A date that does not parse is warned of like one that is overdue.
SelfcheckWarnings(b, overdue) ==
  [lacking |-> b \cap Bare,
   stale   |-> b \cap overdue,
   refs    |-> Dangling(b, SelfcheckWarns, KnownIn(b))]

\* Validate looks at incident patterns too, but not at remediation contracts; an
\* entry with an empty ID is reported, not looked at further, and not known.
ValidateRefs ==
  (SelfcheckErrs \ {<<"remediation_contract", "failure_mode">>})
    \cup {<<"incident_pattern", "invariant">>, <<"incident_pattern", "failure_mode">>}

Validate(b) ==
  LET named == {e \in b : IdOf[e] # NoId}
  IN  [anonymous |-> b \ named,
       blank     |-> {e \in named \cap Blank :
                        Kind(e) \notin {"subsystem_boundary", "incident_pattern"}},
       refs      |-> Dangling(named, ValidateRefs, KnownIn(named))]

\* Of an entry in a file the profile lists twice there are two copies.
Counts == [k \in Core \cup Extended |-> Cardinality({x \in copies : Kind(x[2]) = k})]

AssuranceWarnings(b) ==
  {k \in {"invariant", "failure_mode"} : OfKind(b, k) \cap Bare # {}}
    \cup {k \in {"subsystem_boundary", "decision"} : OfKind(b, k) = {}}

-----------------------------------------------------------------------------
(* A call                                                                  *)

InitReports ==
  /\ Init
  /\ request = "selfcheck" /\ report = Nothing /\ copies = {}

\* Mutant: the load goes on from what the last call read.
CallReportOnOldBase(t, task) ==
  /\ pc \in {"idle", "answered"}
  /\ pc' = "load" /\ request' = t /\ query' = task /\ report' = Nothing
  /\ seen' = [f \in FileSet |-> {disk[f]}]
  /\ StartPassOnOldBase("items")
  /\ UNCHANGED <<others, copies>>

\* A tool is called, or the command run, and begins to load.
CallReport(t, task) ==
  /\ pc \in {"idle", "answered"}
  /\ pc' = "load" /\ request' = t /\ query' = task /\ report' = Nothing
  /\ seen' = [f \in FileSet |-> {disk[f]}]
  /\ StartPass("items") /\ copies' = {}
  /\ UNCHANGED others

Said(what) == [Nothing EXCEPT !.said = what]

\* Mutant: what is missing is only warned about.
ReportOnLenient(b, overdue) ==
  CASE request = "selfcheck" -> [Said("ok") EXCEPT !.errors = SelfcheckErrors(b)]
    [] request = "assurance" -> [Said("report") EXCEPT !.counts = Counts]
    [] OTHER -> [Said("report") EXCEPT !.found = OfKind(MatchedPreflightItems(b), request)]

ReportOn(b, overdue) ==
  CASE request = "selfcheck" ->
         [Said(IF SelfcheckErrors(b) = {} THEN "ok" ELSE "not ok")
            EXCEPT !.errors = SelfcheckErrors(b), !.warnings = SelfcheckWarnings(b, overdue)]
    [] request = "assurance" ->
         [Said("report") EXCEPT !.counts = Counts, !.gaps = AssuranceWarnings(b)]
    [] OTHER ->
         [Said("report") EXCEPT !.found = OfKind(MatchedPreflightItems(b), request)]

AppendFile ==
  \E n \in listing : /\ ReadPlace(n)
                     /\ copies' = copies \cup ({n} \X disk[Files[n]].holds)
                     /\ UNCHANGED <<request, report>>

\* A load that failed is an error of the report tools; the lookup tools answer
\* with a count of zero.
EndReport ==
  /\ Loaded("items")
  /\ pc' = "answered"
  /\ \E overdue \in SUBSET Dated :
       report' = IF ~failed THEN ReportOn(base, overdue)
                 ELSE Said(IF request \in LookupKinds THEN "report" ELSE "error")
  /\ UNCHANGED <<others, query, seen, loading, request, copies>>

NextReports ==
  \/ \E t \in ReportTools, task \in Tasks : CallReport(t, task)
  \/ (OpenKind \/ StatFile \/ EditKnowledge) /\ UNCHANGED reportVars
  \/ AppendFile \/ EndReport

SpecReports == InitReports /\ [][NextReports]_allVars
-----------------------------------------------------------------------------
(* Properties                                                              *)

Answers == Answered /\ ~failed

\* Types of the variables; a self-check says ok exactly when its load did not fail
\* and it has no error to report, and a failed load reports nothing: the report
\* tools say error, the lookup tools that they found nothing.
ReportTypeOK ==
  /\ \A f \in FileSet : disk[f] \in ContentsOf(f) /\ seen[f] \subseteq ContentsOf(f)
  /\ edits \in 0..MaxEdits
  /\ pc \in {"idle", "load", "answered"} /\ request \in ReportTools /\ query \subseteq Words
  /\ kinds \subseteq Core \cup Extended /\ sought \cup listing \subseteq Places
  /\ base \subseteq Entries /\ failed \in BOOLEAN
  /\ copies \subseteq Places \X Entries
  /\ report.said \in {"nothing", "ok", "not ok", "report", "error"}
  /\ report.said = "ok" <=> (request = "selfcheck" /\ Answers /\ report.errors = {})
  /\ (Answered /\ failed) =>
       report = Said(IF request \in LookupKinds THEN "report" ELSE "error")
  /\ report.found \subseteq Entries

Loadable(e) == HomeOf[e] \in Within("items", Kind(e))

Targets(ref) == {d \in Entries : Loadable(d) /\ Kind(d) = ref.kind /\ IdOf[d] = ref.id}

\* A report keeps to what the files held while it was made, although it loads them
\* one by one: whoever is reported was there at some moment, the target it is
\* reported for was not there throughout, the counts lie between what stayed and
\* what passed by at the places that were read (an entry counts once for each place
\* of its file), and a lookup leaves out nothing that stayed and applies.
ReportIsWitnessed ==
  Answers =>
    /\ \A x \in report.errors \cup report.warnings.refs :
         Present(x[1]) /\ \A d \in Targets(x[2]) : ~Steady(d)
    /\ \A e \in report.warnings.lacking \cup report.warnings.stale : Present(e)
    /\ request = "assurance" =>
         \A k \in Core \cup Extended :
           /\ Cardinality({x \in PlacesFor("items", k) \X Entries :
                             HomeOf[x[2]] = Files[x[1]] /\ Steady(x[2])}) <= report.counts[k]
           /\ report.counts[k] <=
                Cardinality({x \in PlacesFor("items", k) \X Entries :
                               HomeOf[x[2]] = Files[x[1]] /\ Present(x[2])})
    /\ request \in LookupKinds =>
         /\ \A e \in report.found : Present(e)
         /\ \A e \in Entries :
              (Kind(e) = request /\ Loadable(e) /\ Steady(e) /\ Applies(e)) => e \in report.found

\* When the self-check says ok, no reference it answers for was dangling during the
\* whole call, not even into a core file that is broken and so counts as empty,
\* and Validate finds nothing dangling in what was loaded except from incident
\* patterns, which Selfcheck does not look at, and to the empty ID, which only
\* Selfcheck takes for a known one.
OkIsEarned ==
  (Answers /\ report.said = "ok") =>
    /\ \A e \in Entries : (Loadable(e) /\ Steady(e)) =>
         \A ref \in RefsOf[e] : <<Kind(e), ref.kind>> \in SelfcheckErrs =>
            \E d \in Targets(ref) : Present(d)
    /\ \A x \in Validate(base).refs : Kind(x[1]) = "incident_pattern" \/ x[2].id = NoId

=============================================================================
