----------------------------- MODULE Preflight -----------------------------
(***************************************************************************)
(* The preflight verdicts: awareness_preflight of the MCP server, the      *)
(* preflight command of the CLI and the frontend_verify_change tool.  One  *)
(* call loads the knowledge files two or three times over, file by file,   *)
(* while people and their editors go on saving them; what an answer then   *)
(* says was, or was not, on the disk is what the module is about.          *)
(*                                                                         *)
(* Text is a set of words.  An entry of a knowledge file is the number of  *)
(* its ID in the order of IDs, so `<' is the tie-break of the search.      *)
(***************************************************************************)
EXTENDS Naturals, FiniteSets, Sequences

CONSTANTS
  Words,       \* words of tasks, paths and entries; a path is one word
  Dropped,     \* words searchTerms leaves out: stop words, shorter than three
  Specific,    \* words with '/', '.' or '_', which score double
  Paths,       \* source files of the working tree
  DiffName,    \* the line git diff has for a path: its name, or the name quoted
  StatusNames, \* the names git status may have for it: that, or a new directory
  Unnamed,     \* paths git status may have no line for: see GitStatus
  Files,       \* the knowledge files, in the order the loaders meet them
  Again,       \* the places in Files where a directory the profile lists holds a
               \* file that it lists directly as well
  KindOf,      \* the kind of entry each file holds
  Root,        \* files with a conventional name in the awareness root
  Profiled,    \* core files the profile lists, directly or by directory
  Direct,      \* those of Profiled that it lists directly
  HomeOf,      \* the file of each entry
  Blob,        \* the words Search looks for in each entry
  Trigger,     \* the words MatchedPreflightItems looks for in each entry
  Blockers,    \* forbidden fixes whose ID is on the frontend block list
  ConcernsOf,  \* what the name of a path raises: see Concerns
  Settles,     \* invariants whose ID settles a concern
  Tasks,       \* tasks a caller describes: sets of words
  MaxMatches,  \* results the search keeps (12 in the code)
  MaxEdits     \* bound on the changes of files in one behaviour

Entries   == DOMAIN HomeOf
Places    == DOMAIN Files
FileSet   == {Files[n] : n \in Places}
CoreKinds == <<"invariant", "failure_mode", "forbidden_fix", "incident_pattern">>
ExtKinds  == <<"decision", "forbidden_assumption", "required_test",
               "subsystem_boundary", "authority_rule", "preflight_question",
               "remediation_contract">>
Core      == {CoreKinds[i] : i \in DOMAIN CoreKinds}
Extended  == {ExtKinds[i] : i \in DOMAIN ExtKinds}
AllKinds  == CoreKinds \o ExtKinds
Concerns  == {"source", "status", "action", "workflow", "layout"}
Kind(e)   == KindOf[HomeOf[e]]
Home(f)   == {e \in Entries : HomeOf[e] = f}

ASSUME KnowledgeAssumption ==
  /\ IsFiniteSet(Words) /\ Dropped \subseteq Words /\ Specific \subseteq Words /\ Paths \subseteq Words
  /\ DiffName \in [Paths -> Words] /\ Unnamed \subseteq Paths
  /\ StatusNames \in [Paths -> {S \in SUBSET Words : S # {}}]
  /\ Files \in Seq(FileSet) /\ Again \subseteq Places
  /\ \A n \in Again : Files[n] \in Direct
  /\ \A f \in FileSet : \E n \in Places \ Again : Files[n] = f
  /\ \A m, n \in Places \ Again : Files[m] = Files[n] => m = n
  /\ KindOf \in [FileSet -> Core \cup Extended]
  /\ Root \subseteq FileSet /\ Direct \subseteq Profiled
  /\ Profiled \subseteq {f \in FileSet : KindOf[f] \in Core}
  /\ {f \in FileSet : KindOf[f] \in Extended} \subseteq Root
  /\ Entries \subseteq Nat /\ IsFiniteSet(Entries) /\ HomeOf \in [Entries -> FileSet]
  /\ Blob \in [Entries -> SUBSET Words] /\ Trigger \in [Entries -> SUBSET Words]
  /\ Blockers \subseteq {e \in Entries : Kind(e) = "forbidden_fix"}
  /\ ConcernsOf \in [Paths -> SUBSET Concerns]
  /\ Settles \in [Concerns -> SUBSET {e \in Entries : Kind(e) = "invariant"}]
  /\ Tasks \subseteq SUBSET Words
  /\ MaxMatches \in Nat /\ MaxEdits \in Nat

Tools  == {"preflight", "frontend"}
Passes == {"raw", "full", "items"}

\* What a read of a knowledge file meets.  A half-written save is broken YAML.
Sound(S)      == [state |-> "sound", holds |-> S]
Bad           == [state : {"missing", "unreadable", "broken"}, holds : {{}}]
ContentsOf(f) == Bad \cup {Sound(S) : S \in SUBSET Home(f)}

VARIABLES
  disk,     \* contents of the knowledge files
  dirty,    \* paths that differ from HEAD or are untracked
  edits,    \* changes of disk and dirty so far
  pc,       \* "idle", "diff", "status", "load" or "answered"
  tool,     \* the tool that is answering
  query,    \* words of the task and of the changed files
  paths,    \* the changed files, by the names the call has for them
  asked,    \* whether the call asked for the changed files of git
  warned,   \* whether the answer warns that git was unavailable
  pass,     \* the load that is under way
  kinds,    \* kinds this load has still to open
  sought,   \* places of the open kind that are still to be looked for
  listing,  \* places of the open kind that are still to be read
  base,     \* entries this load has read
  failed,   \* whether this load recorded an error
  blind,    \* passes that came back empty because of an error
  matches,  \* entries the raw pass found
  entries,  \* entries the frontend tool read again in full
  answer,   \* verdict, confidence and the entries the answer names
  seen,     \* history: contents each file had during the call
  still     \* history: paths dirty ever since the call began

vars == <<disk, dirty, edits, pc, tool, query, paths, asked, warned, pass, kinds,
          sought, listing, base, failed, blind, matches, entries, answer, seen, still>>
world   == <<disk, dirty, edits, seen, still>>
loading == <<pass, kinds, sought, listing, base, failed>>

NoAnswer == [verdict |-> "none", confidence |-> "none", named |-> {}]

-----------------------------------------------------------------------------
(* Search and matching                                                     *)

Terms == query \ Dropped

Hits(e) == Blob[e] \cap Terms

Score(e) == Cardinality(Hits(e)) + Cardinality(Hits(e) \cap Specific)

Before(d, e) == \/ Score(d) > Score(e)
                \/ Score(d) = Score(e) /\ d < e

\* Mutant: the results are kept from the wrong end of the list.
SearchWorst(b) ==
  LET found == {e \in b : Score(e) > 0}
  IN  {e \in found : Cardinality({d \in found : Before(e, d)}) < MaxMatches}

Search(b) ==
  LET found == {e \in b : Score(e) > 0}
  IN  {e \in found : Cardinality({d \in found : Before(d, e)}) < MaxMatches}

\* Tests and questions match the words of the task as they stand, the others
\* the search terms.  A question asks at least one thing.
Applies(e) ==
  IF Kind(e) \in {"required_test", "preflight_question"}
  THEN Trigger[e] \cap query # {}
  ELSE Trigger[e] \cap Terms # {}

MatchedPreflightItems(b) ==
  {e \in b : Kind(e) \in Extended \ {"subsystem_boundary"} /\ Applies(e)}

-----------------------------------------------------------------------------
(* Verdicts                                                                *)

OfKind(S, k) == {e \in S : Kind(e) = k}

\* Of the search results the preflight tools name these kinds, from two points.
RawNamed ==
  {e \in matches : Score(e) >= 2 /\
     Kind(e) \notin {"required_test", "subsystem_boundary", "preflight_question"}}

Verdict(named, items) ==
  IF OfKind(named, "forbidden_assumption") # {} \/ OfKind(items, "preflight_question") # {}
  THEN <<"warn", "insufficient_evidence">>
  ELSE IF OfKind(named, "failure_mode") # {} THEN <<"warn", "suspected">>
  ELSE <<"ok", "confirmed">>

PreflightAnswer(items) ==
  LET v == Verdict(RawNamed \cup items, items)
  IN  [verdict |-> v[1], confidence |-> v[2], named |-> RawNamed \cup items]

\* A concern a path raises, or the word workflow in the task, and no invariant
\* of the answer settles.
FrontendWarnings ==
  {w \in paths \X Concerns :
     /\ w[2] \in ConcernsOf[w[1]] \/ (w[2] = "workflow" /\ "workflow" \in query)
     /\ entries \cap Settles[w[2]] = {}}

FrontendVerdict(tests) ==
  IF entries \cap Blockers # {} THEN <<"block", "confirmed">>
  ELSE IF OfKind(entries, "failure_mode") # {} \/ FrontendWarnings # {}
       THEN <<"warn", "suspected">>
  ELSE IF OfKind(entries, "invariant") # {} /\ tests # {}
       THEN <<"warn", "insufficient_evidence">>
  ELSE <<"allow", "confirmed">>

FrontendAnswer(items) ==
  LET tests == OfKind(items, "required_test")
      v     == FrontendVerdict(tests)
  IN  [verdict |-> v[1], confidence |-> v[2], named |-> entries \cup tests]

-----------------------------------------------------------------------------
(* A call                                                                  *)

Init ==
  /\ disk = [f \in FileSet |-> Sound(Home(f))]
  /\ dirty \in SUBSET Paths
  /\ edits = 0
  /\ pc = "idle" /\ tool = "preflight" /\ query = {} /\ paths = {}
  /\ asked = FALSE /\ warned = FALSE
  /\ pass = "raw" /\ kinds = {} /\ sought = {} /\ listing = {} /\ base = {} /\ failed = FALSE
  /\ blind = {} /\ matches = {} /\ entries = {} /\ answer = NoAnswer
  /\ seen = [f \in FileSet |-> {}] /\ still = {}

\* The files a pass opens for a kind.  The raw pass looks for the conventional
\* names, the items pass goes by the profile, the full pass opens only what the
\* profile lists as a file; the extended kinds are always those of the root.
Within(p, k) ==
  IF k \in Extended \/ p = "raw" THEN Root ELSE IF p = "items" THEN Profiled ELSE Direct

\* A file in two places is read twice by the items pass, and only by that.
PlacesFor(p, k) ==
  {n \in IF p = "items" THEN Places ELSE Places \ Again :
     Files[n] \in Within(p, k) /\ KindOf[Files[n]] = k}

\* The kinds of a pass; a kind without files takes no step.
KindsOf == [p \in Passes |->
  {k \in IF p = "full" THEN Core \ {"incident_pattern"} ELSE Core \cup Extended :
     PlacesFor(p, k) # {}}]

\* Mutant: a load goes on from the base of the one before it.
StartPassOnOldBase(p) ==
  /\ pass' = p
  /\ kinds' = KindsOf[p]
  /\ sought' = {} /\ listing' = {} /\ base' = base /\ failed' = FALSE

\* A load begins with every kind still to be opened and an empty base.
StartPass(p) ==
  /\ pass' = p
  /\ kinds' = KindsOf[p]
  /\ sought' = {} /\ listing' = {} /\ base' = {} /\ failed' = FALSE

Begin(t, task, files, changed) ==
  /\ pc \in {"idle", "answered"}
  /\ tool' = t /\ query' = task \cup files /\ paths' = files
  /\ asked' = changed /\ pc' = IF changed THEN "diff" ELSE "load"
  /\ warned' = FALSE /\ blind' = {} /\ matches' = {} /\ entries' = {}
  /\ answer' = NoAnswer
  /\ seen' = [f \in FileSet |-> {disk[f]}] /\ still' = dirty
  /\ StartPass("raw")
  /\ UNCHANGED <<disk, dirty, edits>>

CallMCP == \E task \in Tasks, files \in SUBSET Paths, changed \in BOOLEAN :
             Begin("preflight", task, files, changed)

\* The CLI runs the same steps in a process of its own; it takes no file list.
CallCLI == \E task \in Tasks, changed \in BOOLEAN :
             Begin("preflight", task, {}, changed)

CallFrontend == \E task \in Tasks, files \in SUBSET Paths :
                  Begin("frontend", task, files, FALSE)

Add(names) == query' = query \cup names /\ paths' = paths \cup names

\* git diff lists the tracked changes, and nothing when it fails: its error is
\* dropped.
GitDiff ==
  /\ pc = "diff"
  /\ \E tracked \in SUBSET dirty : Add({DiffName[p] : p \in tracked})
  /\ pc' = "status"
  /\ UNCHANGED <<world, tool, asked, warned, loading, blind, matches, entries, answer>>

\* What the lines of git status leave the call with: some name for every change.
\* The files of a new directory have one line, `dir/', between them, and an unusual
\* name stays in its quotes.  The old name of a rename has no line, nor has a name
\* of one letter on the first line, which is cut to less than four characters.
StatusLists(listed, name) ==
  /\ dirty \ Unnamed \subseteq listed
  /\ \A p \in listed : name[p] \in StatusNames[p]

\* Mutant: a failing git status is dropped as a failing git diff is.
GitStatusSilent ==
  /\ pc = "status"
  /\ \/ \E listed \in SUBSET dirty : \E name \in [listed -> Words] :
          StatusLists(listed, name) /\ Add({name[p] : p \in listed})
     \/ UNCHANGED <<query, paths>>
  /\ pc' = "load"
  /\ UNCHANGED <<world, tool, asked, warned, loading, blind, matches, entries, answer>>

GitStatus ==
  /\ pc = "status"
  /\ \/ \E listed \in SUBSET dirty : \E name \in [listed -> Words] :
          /\ StatusLists(listed, name)
          /\ Add({name[p] : p \in listed}) /\ warned' = FALSE
     \/ warned' = TRUE /\ UNCHANGED <<query, paths>>
  /\ pc' = "load"
  /\ UNCHANGED <<world, tool, asked, loading, blind, matches, entries, answer>>

-----------------------------------------------------------------------------
(* Loading                                                                 *)

\* Kinds and files are taken in the order the loaders have.
First(x, S, order) ==
  \E i \in DOMAIN order : /\ order[i] = x /\ x \in S
                          /\ \A j \in 1..(i - 1) : order[j] \notin S

Least(n, S) == n \in S /\ \A m \in S : n <= m

\* The files of a core kind are looked for first (expandPaths, and nothing of the
\* sort in the full pass), one by one, and then read, one by one.
OpenKind ==
  /\ pc = "load" /\ sought = {} /\ listing = {}
  /\ \E k \in kinds :
       LET expands == k \in Core /\ pass # "full"
       IN  /\ First(k, kinds, AllKinds)
           /\ kinds' = kinds \ {k}
           /\ sought'  = IF expands THEN PlacesFor(pass, k) ELSE {}
           /\ listing' = IF expands THEN {} ELSE PlacesFor(pass, k)
  /\ UNCHANGED <<world, pc, tool, query, paths, asked, warned, pass, base, failed,
                 blind, matches, entries, answer>>

StatFile ==
  /\ pc = "load"
  /\ \E n \in sought :
       /\ Least(n, sought)
       /\ sought'  = sought \ {n}
       /\ listing' = IF disk[Files[n]].state = "missing" THEN listing ELSE listing \cup {n}
  /\ UNCHANGED <<world, pc, tool, query, paths, asked, warned, pass, kinds, base, failed,
                 blind, matches, entries, answer>>

\* Mutant: a file that does not parse counts as an empty one whatever its kind.
FailsOnlyUnreadable(f) == disk[f].state = "unreadable"

Fails(f) ==
  \/ disk[f].state = "unreadable"
  \/ disk[f].state = "broken" /\ KindOf[f] \in Extended

\* A broken core file has no entries, a broken extended file is an error; the
\* full pass passes over whatever it cannot use.
ReadPlace(n) ==
  LET f == Files[n]
  IN  /\ pc = "load" /\ sought = {} /\ Least(n, listing)
      /\ base' = base \cup disk[f].holds
      /\ failed' = (failed \/ (pass # "full" /\ Fails(f)))
      /\ listing' = listing \ {n}
      /\ UNCHANGED <<world, pc, tool, query, paths, asked, warned, pass, kinds, sought,
                     blind, matches, entries, answer>>

ReadFile == \E n \in listing : ReadPlace(n)

Loaded(p) == pc = "load" /\ pass = p /\ kinds = {} /\ sought = {} /\ listing = {}

\* One error empties a whole pass.
Outcome(found) == IF failed THEN {} ELSE found
NowBlind(p)    == IF failed THEN blind \cup {p} ELSE blind

EndRaw ==
  /\ Loaded("raw")
  /\ matches' = Outcome(Search(base)) /\ blind' = NowBlind("raw")
  /\ StartPass(IF tool = "frontend" THEN "full" ELSE "items")
  /\ UNCHANGED <<world, pc, tool, query, paths, asked, warned, entries, answer>>

\* Mutant: the full entries are not filtered by what the search found.
EndFullUnfiltered ==
  /\ Loaded("full")
  /\ entries' = base
  /\ StartPass("items")
  /\ UNCHANGED <<world, pc, tool, query, paths, asked, warned, blind, matches, answer>>

EndFull ==
  /\ Loaded("full")
  /\ entries' = base \cap matches
  /\ StartPass("items")
  /\ UNCHANGED <<world, pc, tool, query, paths, asked, warned, blind, matches, answer>>

EndItems ==
  /\ Loaded("items")
  /\ LET items == Outcome(MatchedPreflightItems(base))
     IN  answer' = IF tool = "frontend" THEN FrontendAnswer(items)
                   ELSE PreflightAnswer(items)
  /\ blind' = NowBlind("items")
  /\ pc' = "answered"
  /\ UNCHANGED <<world, tool, query, paths, asked, warned, loading, matches, entries>>

-----------------------------------------------------------------------------
(* The people at work beside the call                                      *)

InCall == pc \in {"diff", "status", "load"}

\* A knowledge file is saved, half saved, removed or made unreadable.
EditKnowledge ==
  /\ edits < MaxEdits /\ edits' = edits + 1
  /\ \E f \in FileSet : \E c \in ContentsOf(f) \ {disk[f]} :
       /\ disk' = [disk EXCEPT ![f] = c]
       /\ seen' = IF InCall THEN [seen EXCEPT ![f] = @ \cup {c}] ELSE seen
  /\ UNCHANGED <<dirty, still, pc, tool, query, paths, asked, warned, loading, blind,
                 matches, entries, answer>>

\* A source file is edited, committed or reverted.
EditSource ==
  /\ edits < MaxEdits /\ edits' = edits + 1
  /\ \E p \in Paths :
       /\ dirty' = IF p \in dirty THEN dirty \ {p} ELSE dirty \cup {p}
       /\ still' = IF InCall THEN still \ {p} ELSE still
  /\ UNCHANGED <<disk, seen, pc, tool, query, paths, asked, warned, loading, blind,
                 matches, entries, answer>>

Call == CallMCP \/ CallCLI \/ CallFrontend
Step == GitDiff \/ GitStatus \/ OpenKind \/ StatFile \/ ReadFile \/ EndRaw \/ EndFull \/ EndItems
Next == Call \/ Step \/ EditKnowledge \/ EditSource

Spec == Init /\ [][Next]_vars

-----------------------------------------------------------------------------
(* Properties                                                              *)

Answered == pc = "answered"

Steady(e)  == \A c \in seen[HomeOf[e]] : e \in c.holds
Present(e) == \E c \in seen[HomeOf[e]] : e \in c.holds

\* Types of the variables; the entries the frontend tool reads again are among
\* those its search found.
TypeOK ==
  /\ \A f \in FileSet : disk[f] \in ContentsOf(f) /\ seen[f] \subseteq ContentsOf(f)
  /\ dirty \subseteq Paths /\ still \subseteq Paths
  /\ paths \subseteq Words /\ (tool = "frontend" => paths \subseteq Paths)
  /\ edits \in 0..MaxEdits
  /\ pc \in {"idle", "diff", "status", "load", "answered"}
  /\ tool \in Tools /\ query \subseteq Words /\ asked \in BOOLEAN /\ warned \in BOOLEAN
  /\ pass \in Passes /\ failed \in BOOLEAN /\ blind \subseteq {"raw", "items"}
  /\ kinds \subseteq Core \cup Extended /\ sought \cup listing \subseteq Places
  /\ base \subseteq Entries /\ matches \subseteq Entries /\ entries \subseteq matches
  /\ pass = "full" => tool = "frontend"
  /\ Answered <=> answer # NoAnswer

\* Whatever an answer names was in a knowledge file at some moment of the call:
\* nothing is left over from an earlier load or an earlier call, although each
\* pass builds its base file by file (LoadFromPaths).  The core entries of the
\* frontend tool stand in a file that has the conventional name and that the
\* profile lists as a file, for both of its loads must come across them.
AnswersAreWitnessed ==
  Answered => \A e \in answer.named :
    /\ Present(e)
    /\ (tool = "frontend" /\ Kind(e) \in Core) => HomeOf[e] \in Root \cap Direct

\* An entry can be outranked only by entries of the root that were there.
Outranked(e) ==
  Cardinality({d \in Entries : HomeOf[d] \in Root /\ Present(d)
                               /\ Score(d) > 0 /\ Before(d, e)}) >= MaxMatches

\* Knowledge that stays on the disk for the whole call is not lost to edits of
\* other files: unless a load failed or enough better results pushed it out, a
\* steady question or forbidden assumption leaves evidence insufficient, a
\* steady failure mode makes the preflight warn, and a steady fix of the block
\* list that both searches can reach makes the frontend tool block.
NothingSteadyIsMissed ==
  Answered => \A e \in Entries : Steady(e) =>
    /\ (/\ tool = "preflight" /\ "items" \notin blind /\ Applies(e)
        /\ Kind(e) \in {"forbidden_assumption", "preflight_question"})
       => answer.confidence = "insufficient_evidence"
    /\ (/\ tool = "preflight" /\ "raw" \notin blind /\ HomeOf[e] \in Root
        /\ Kind(e) = "failure_mode" /\ Score(e) >= 2 /\ ~Outranked(e))
       => answer.verdict = "warn"
    /\ (/\ tool = "frontend" /\ "raw" \notin blind
        /\ HomeOf[e] \in Root \cap Direct /\ e \in Blockers
        /\ Score(e) > 0 /\ ~Outranked(e))
       => answer.verdict = "block"

\* One knowledge file that cannot be used for the whole call empties the answer
\* of every other one, and nothing in it says so: the preflight reports ok and
\* confirmed, the frontend tool never blocks (RawKnowledgeFallback and
\* ExtendedPreflightItemsFromPaths return nil on any error).
BadFileSilencesTheCall ==
  Answered =>
    \A f \in FileSet :
      (/\ f \in Root
       /\ KindOf[f] \in Core => f \in Profiled
       /\ \A c \in seen[f] : c.state = "unreadable"
                             \/ (c.state = "broken" /\ KindOf[f] \in Extended))
      => /\ answer.named = {}
         /\ answer.verdict # "block"
         /\ tool = "preflight" => answer.verdict = "ok"

\* A call that asked git for the changed files and carries no warning has, for
\* every file that was changed all along, a name git status gives it (the file's
\* own, that of a new directory it is in, or one in quotes), although the error of
\* git diff is dropped and the two commands see different working trees; but not
\* for the files git status, or the call's reading of it, leaves out.
UnwarnedCallSawTheChanges ==
  (Answered /\ asked /\ ~warned) =>
    \A p \in still \ Unnamed : StatusNames[p] \cap paths # {}

=============================================================================
