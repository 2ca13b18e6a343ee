-------------------------- MODULE Preflight_proofs --------------------------
(***************************************************************************)
(* Proofs about Preflight and, in the last part, about KnowledgeReports,   *)
(* which loads in the same way: for any knowledge files, any number of     *)
(* entries, of changes beside the call and of results the search keeps.    *)
(*                                                                         *)
(* The properties speak of the contents the files had during the call,     *)
(* `seen', which only grows until the next call begins.  The invariant     *)
(* says where in a load an entry that stays, or a file that stays bad, may *)
(* be: still to come, or already in the base, or in the failure.           *)
(***************************************************************************)
EXTENDS KnowledgeReports, FiniteSetTheorems, TLAPS

\* The state has a value for every file, and is that of no earlier call.
Shape ==
  /\ DOMAIN disk = FileSet /\ disk = [f \in FileSet |-> disk[f]]
  /\ DOMAIN seen = FileSet /\ seen = [f \in FileSet |-> seen[f]]
  /\ pc \in {"diff", "status"} => pass = "raw" /\ tool # "frontend"
  /\ (InCall /\ pass = "raw") => matches = {}
  /\ InCall => \A f \in FileSet : disk[f] \in seen[f]

Reached(f) == f \in Within(pass, KindOf[f]) /\ (pass = "full" => KindOf[f] \in Core)

\* Whatever was read was there, and in a file the pass opens.
ReadInv ==
  /\ \A n \in sought \cup listing : Reached(Files[n])
  /\ \A k \in kinds : pass = "full" => k \in Core
  /\ \A e \in base : Present(e) /\ Reached(HomeOf[e])
  /\ \A e \in matches : Present(e) /\ HomeOf[e] \in Root
  /\ \A e \in entries : Kind(e) \in Core /\ HomeOf[e] \in Direct

\* Kinds and places that are still to be read.
Pending(n) == n \in sought \/ n \in listing

Coming(f) == KindOf[f] \in kinds \/ \E n \in Places : Files[n] = f /\ Pending(n)

InPass(f) == /\ f \in Within(pass, KindOf[f])
             /\ pass = "full" => KindOf[f] \in Core \ {"incident_pattern"}

\* An entry that stays is read.
GatherInv ==
  InCall => \A e \in Entries : (Steady(e) /\ InPass(HomeOf[e])) => Coming(HomeOf[e]) \/ e \in base

Spoiled(f) == \A c \in seen[f] : \/ c.state = "unreadable"
                                 \/ c.state = "broken" /\ KindOf[f] \in Extended

\* A file that stays bad makes the load fail, and a failed search finds nothing.
SpoilInv ==
  InCall => \A f \in FileSet : Spoiled(f) =>
    /\ (pass # "full" /\ InPass(f)) => Coming(f) \/ failed
    /\ (pass # "raw" /\ f \in Root) => matches = {}

\* An entry that stays is found, if no error and no better result is in the way.
Deserved(e) == Steady(e) /\ HomeOf[e] \in Root /\ Score(e) > 0 /\ ~Outranked(e)

RankInv ==
  (InCall /\ pass # "raw" /\ "raw" \notin blind) =>
    \A e \in Entries : Deserved(e) =>
      /\ e \in matches
      /\ (pass = "items" /\ tool = "frontend" /\ e \in Blockers /\ HomeOf[e] \in Direct)
         => e \in entries

\* Paths that are dirty throughout were dirty whenever git was asked.
ChangeInv ==
  /\ InCall => still \subseteq dirty
  /\ (pc \in {"load", "answered"} /\ asked /\ ~warned) =>
       \A p \in still \ Unnamed : StatusNames[p] \cap paths # {}

Inv ==
  /\ TypeOK /\ Shape /\ ReadInv /\ GatherInv /\ SpoilInv /\ RankInv /\ ChangeInv
  /\ AnswersAreWitnessed /\ NothingSteadyIsMissed /\ BadFileSilencesTheCall

-----------------------------------------------------------------------------
(* The constants                                                           *)

\* The kinds by name.
LEMMA KindNames ==
  /\ Core = {"invariant", "failure_mode", "forbidden_fix", "incident_pattern"}
  /\ Extended = {"decision", "forbidden_assumption", "required_test", "subsystem_boundary",
                 "authority_rule", "preflight_question", "remediation_contract"}
  /\ Core \cap Extended = {}
<1>1. Core = {"invariant", "failure_mode", "forbidden_fix", "incident_pattern"}
  BY DEF Core, CoreKinds
<1>2. Extended = {"decision", "forbidden_assumption", "required_test", "subsystem_boundary",
                  "authority_rule", "preflight_question", "remediation_contract"}
  BY DEF Extended, ExtKinds
<1>3. QED
  BY <1>1, <1>2

\* Each entry has a file and the file a kind.
LEMMA EntryHasHome ==
  ASSUME NEW e \in Entries
  PROVE  /\ HomeOf[e] \in FileSet
         /\ Kind(e) = KindOf[HomeOf[e]] /\ Kind(e) \in Core \cup Extended
         /\ Blob[e] \subseteq Words /\ e \in Nat
BY KnowledgeAssumption DEF Kind

\* What a file may contain are its own entries, and none when it is bad.
LEMMA ContentsHold ==
  ASSUME NEW f \in FileSet, NEW c \in ContentsOf(f)
  PROVE  /\ c.holds \subseteq Home(f) /\ Home(f) \subseteq Entries
         /\ c.state \in {"sound", "missing", "unreadable", "broken"}
         /\ c.state # "sound" => c.holds = {}
BY DEF ContentsOf, Bad, Sound, Home

\* A pass opens only files there are.
LEMMA WithinIsFiles ==
  ASSUME NEW p, NEW k
  PROVE  Within(p, k) \subseteq FileSet
BY KnowledgeAssumption DEF Within

\* A file a pass opens has a place among those of its kind.
LEMMA FileHasPlace ==
  ASSUME NEW p, NEW f \in FileSet, f \in Within(p, KindOf[f])
  PROVE  \E n \in Places : Files[n] = f /\ n \in PlacesFor(p, KindOf[f])
<1>1. PICK n \in Places \ Again : Files[n] = f
  BY KnowledgeAssumption
<1>2. n \in PlacesFor(p, KindOf[f])
  BY <1>1 DEF PlacesFor
<1>3. QED
  BY <1>1, <1>2

\* Each place a pass opens holds a file of the kind.
LEMMA PlacesHold ==
  ASSUME NEW p, NEW k, NEW n \in PlacesFor(p, k)
  PROVE  n \in Places /\ Files[n] \in FileSet /\ Files[n] \in Within(p, k)
         /\ KindOf[Files[n]] = k
BY DEF PlacesFor, FileSet

\* A score is a number.
LEMMA ScoreIsNatural ==
  ASSUME NEW e \in Entries
  PROVE  Score(e) \in Nat
<1>1. IsFiniteSet(Hits(e)) /\ IsFiniteSet(Hits(e) \cap Specific)
  <2>1. Hits(e) \subseteq Words /\ Hits(e) \cap Specific \subseteq Words
    BY EntryHasHome DEF Hits
  <2>2. QED
    BY <2>1, KnowledgeAssumption, FS_Subset
<1>2. QED
  BY <1>1, FS_CardinalityType DEF Score

-----------------------------------------------------------------------------
(* Steps                                                                   *)

\* Every call begins in the same way.
LEMMA CallIsBegin ==
  ASSUME Call
  PROVE  \E t \in Tools, task \in SUBSET Words, files \in SUBSET Paths, changed \in BOOLEAN :
           Begin(t, task, files, changed) /\ (t = "frontend" => ~changed)
<1>1. Tasks \subseteq SUBSET Words /\ {} \in SUBSET Paths
  BY KnowledgeAssumption
<1>2. QED
  BY <1>1 DEF Call, CallMCP, CallCLI, CallFrontend, Tools

\* What a step of a call or of its neighbours leaves of the history.
Later ==
  /\ \A f \in FileSet : seen[f] \subseteq seen'[f]
  /\ \A e \in Entries : /\ Steady(e)' => Steady(e)
                        /\ Present(e) => Present(e)'
  /\ \A f \in FileSet : Spoiled(f)' => Spoiled(f)

LEMMA SeenGrows ==
  ASSUME Shape, Step \/ EditKnowledge \/ EditSource \/ UNCHANGED vars
  PROVE  Later
<1>1. \A f \in FileSet : seen[f] \subseteq seen'[f]
  <2>1. CASE EditKnowledge
    BY <2>1 DEF EditKnowledge, Shape
  <2>2. CASE Step \/ EditSource \/ UNCHANGED vars
    BY <2>2 DEF Step, GitDiff, GitStatus, OpenKind, StatFile, ReadFile, ReadPlace, EndRaw,
                EndFull, EndItems, EditSource, world, vars
  <2>3. QED
    BY <2>1, <2>2
<1>2. QED
  BY <1>1, EntryHasHome DEF Later, Steady, Present, Spoiled

\* The ranking depends on the words of the query alone.
SameRanking ==
  \A e \in Entries : /\ Score(e)' = Score(e)
                     /\ Applies(e)' = Applies(e)
                     /\ \A d \in Entries : Before(d, e)' = Before(d, e)

LEMMA QueryRanks ==
  ASSUME query' = query
  PROVE  SameRanking
BY DEF SameRanking, Score, Applies, Before, Hits, Terms

\* Who is outranked stays outranked.
LEMMA OutrankedStays ==
  ASSUME Later, SameRanking, NEW e \in Entries, Outranked(e)
  PROVE  Outranked(e)'
<1> DEFINE Better  == {d \in Entries : HomeOf[d] \in Root /\ Present(d) /\ Score(d) > 0
                                       /\ Before(d, e)}
           Better2 == {d \in Entries : HomeOf[d] \in Root /\ Present(d)' /\ Score(d)' > 0
                                       /\ Before(d, e)'}
<1>1. Better \subseteq Better2
  BY DEF Later, SameRanking
<1>2. IsFiniteSet(Better2) /\ IsFiniteSet(Better)
  BY KnowledgeAssumption, FS_Subset
<1>3. Cardinality(Better) <= Cardinality(Better2)
  BY <1>1, <1>2, FS_Subset
<1>4. Cardinality(Better) \in Nat /\ Cardinality(Better2) \in Nat
  BY <1>2, FS_CardinalityType
<1>5. Cardinality(Better) >= MaxMatches
  BY DEF Outranked
<1>6. Cardinality(Better2) >= MaxMatches
  BY <1>3, <1>4, <1>5, KnowledgeAssumption
<1>7. QED
  BY <1>6 DEF Outranked

LEMMA DeservedStays ==
  ASSUME Later, SameRanking, NEW e \in Entries, Deserved(e)'
  PROVE  Deserved(e)
<1>1. Outranked(e) => Outranked(e)'
  BY OutrankedStays
<1>2. Steady(e) /\ Score(e)' = Score(e)
  BY DEF Later, SameRanking, Deserved
<1>3. QED
  BY <1>1, <1>2 DEF Deserved

-----------------------------------------------------------------------------
(* Types and shape                                                         *)

\* The kinds of a pass are those with a place, but for what the full pass leaves.
LEMMA PassKinds ==
  ASSUME NEW p \in Passes
  PROVE  /\ KindsOf[p] \subseteq Core \cup Extended
         /\ p = "full" => KindsOf[p] \subseteq Core
         /\ \A f \in FileSet :
              (/\ f \in Within(p, KindOf[f])
               /\ p = "full" => KindOf[f] \in Core \ {"incident_pattern"})
              => KindOf[f] \in KindsOf[p]
<1>1. KindsOf[p] = {k \in IF p = "full" THEN Core \ {"incident_pattern"} ELSE Core \cup Extended :
                      PlacesFor(p, k) # {}}
  BY DEF KindsOf
<1>2. ASSUME NEW f \in FileSet, f \in Within(p, KindOf[f]),
             p = "full" => KindOf[f] \in Core \ {"incident_pattern"}
      PROVE  KindOf[f] \in KindsOf[p]
  <2>1. PlacesFor(p, KindOf[f]) # {} /\ KindOf[f] \in Core \cup Extended
    BY <1>2, FileHasPlace, KnowledgeAssumption
  <2>2. QED
    BY <1>1, <1>2, <2>1
<1>3. QED
  BY <1>1, <1>2

LEMMA BeginShape ==
  ASSUME Inv, NEW t \in Tools, NEW task \in SUBSET Words, NEW files \in SUBSET Paths,
         NEW changed \in BOOLEAN, Begin(t, task, files, changed), t = "frontend" => ~changed
  PROVE  TypeOK' /\ Shape'
<1>1. disk' = disk /\ seen' = [f \in FileSet |-> {disk[f]}]
  BY DEF Begin
<1>2. \A f \in FileSet : disk'[f] \in ContentsOf(f) /\ seen'[f] \subseteq ContentsOf(f)
  BY <1>1 DEF Inv, TypeOK
<1>3. pc' \in {"diff", "load"} /\ pass' = "raw" /\ sought' = {} /\ listing' = {}
      /\ base' = {} /\ failed' = FALSE /\ kinds' \subseteq Core \cup Extended
  BY PassKinds DEF Begin, StartPass, Passes
<1>4. tool' = t /\ query' \subseteq Words /\ paths' \subseteq Paths /\ paths' \subseteq Words /\ asked' \in BOOLEAN
      /\ warned' = FALSE /\ blind' = {} /\ matches' = {} /\ entries' = {}
      /\ answer' = NoAnswer /\ still' \subseteq Paths
  BY KnowledgeAssumption DEF Begin, Inv, TypeOK
<1>5. dirty' \subseteq Paths /\ edits' \in 0..MaxEdits
  BY DEF Begin, Inv, TypeOK
<1>6. TypeOK'
  BY <1>2, <1>3, <1>4, <1>5 DEF TypeOK, Answered, Passes
<1>7. pc' = IF changed THEN "diff" ELSE "load"
  BY DEF Begin
<1>8. Shape'
  BY <1>1, <1>3, <1>4, <1>7 DEF Shape, InCall, Inv
<1>9. QED
  BY <1>6, <1>8

\* The answers are told apart from none.
LEMMA AnswerIsSome ==
  ASSUME NEW items
  PROVE  PreflightAnswer(items) # NoAnswer /\ FrontendAnswer(items) # NoAnswer
<1>1. PreflightAnswer(items).verdict # "none"
  BY DEF PreflightAnswer, Verdict
<1>2. FrontendAnswer(items).verdict # "none"
  BY DEF FrontendAnswer, FrontendVerdict
<1>3. QED
  BY <1>1, <1>2 DEF NoAnswer

LEMMA StepShape ==
  ASSUME Inv, Step \/ EditKnowledge \/ EditSource \/ UNCHANGED vars
  PROVE  TypeOK' /\ Shape'
<1> USE DEF Inv
<1>0. tool # "frontend" \/ pc \notin {"diff", "status"}
  BY DEF Shape
<1>1. CASE GitDiff
  <2>1. PICK tracked \in SUBSET dirty : Add({DiffName[p] : p \in tracked})
    BY <1>1 DEF GitDiff
  <2>2. query' \subseteq Words /\ paths' \subseteq Words
    BY <2>1, KnowledgeAssumption DEF Add, TypeOK
  <2>3. QED
    BY <1>0, <1>1, <2>2 DEF GitDiff, TypeOK, Shape, world, loading, InCall, Answered
<1>2. CASE GitStatus
  <2>1. query' \subseteq Words /\ paths' \subseteq Words /\ warned' \in BOOLEAN
    <3>1. CASE UNCHANGED <<query, paths>> /\ warned' = TRUE
      BY <3>1 DEF TypeOK
    <3>2. ASSUME NEW listed \in SUBSET dirty, NEW name \in [listed -> Words],
                 Add({name[p] : p \in listed}), warned' = FALSE
          PROVE  query' \subseteq Words /\ paths' \subseteq Words /\ warned' \in BOOLEAN
      BY <3>2 DEF Add, TypeOK
    <3>3. QED
      BY <1>2, <3>1, <3>2 DEF GitStatus
  <2>2. QED
    BY <1>0, <1>2, <2>1 DEF GitStatus, TypeOK, Shape, world, loading, InCall, Answered
<1>3. CASE OpenKind
  <2>1. PICK k \in kinds : /\ kinds' = kinds \ {k}
                           /\ sought' \cup listing' \subseteq PlacesFor(pass, k)
    BY <1>3 DEF OpenKind
  <2>2. sought' \cup listing' \subseteq Places
    BY <2>1, PlacesHold
  <2>3. QED
    BY <1>3, <2>1, <2>2 DEF OpenKind, TypeOK, Shape, world, InCall, Answered
<1>12. CASE StatFile
  <2>1. sought' \cup listing' \subseteq Places
    BY <1>12 DEF StatFile, TypeOK
  <2>2. QED
    BY <1>12, <2>1 DEF StatFile, TypeOK, Shape, world, InCall, Answered
<1>4. CASE ReadFile
  <2>1. PICK n \in listing : ReadPlace(n)
    BY <1>4 DEF ReadFile
  <2>2. base' = base \cup disk[Files[n]].holds /\ listing' = listing \ {n} /\ sought' = sought
        /\ failed' = (failed \/ (pass # "full" /\ Fails(Files[n])))
    BY <2>1 DEF ReadPlace
  <2>3. disk[Files[n]].holds \subseteq Entries
    <3>1. Files[n] \in FileSet
      BY DEF TypeOK, FileSet
    <3>2. QED
      BY <3>1, ContentsHold DEF TypeOK
  <2>4. base' \subseteq Entries /\ sought' \cup listing' \subseteq Places /\ failed' \in BOOLEAN
    BY <2>2, <2>3 DEF TypeOK
  <2>5. QED
    BY <2>1, <2>4 DEF ReadPlace, TypeOK, Shape, world, InCall, Answered
<1>5. CASE EndRaw
  <2>1. matches' \subseteq Entries /\ entries' \subseteq matches'
    <3>1. Search(base) \subseteq base
      BY DEF Search
    <3>2. entries = {}
      BY <1>5 DEF EndRaw, Loaded, Shape, TypeOK, InCall
    <3>3. QED
      BY <1>5, <3>1, <3>2 DEF EndRaw, Outcome, TypeOK
  <2>2. kinds' \subseteq Core \cup Extended
    BY <1>5, PassKinds DEF EndRaw, StartPass, Passes
  <2>3. QED
    BY <1>5, <2>1, <2>2 DEF EndRaw, TypeOK, Shape, world, InCall, Answered, StartPass,
                     NowBlind, Passes, Loaded, Tools
<1>6. CASE EndFull
  <2>1. kinds' \subseteq Core \cup Extended
    BY <1>6, PassKinds DEF EndFull, StartPass, Passes
  <2>2. QED
    BY <1>6, <2>1 DEF EndFull, TypeOK, Shape, world, InCall, Answered, StartPass, Loaded, Passes
<1>7. CASE EndItems
  <2>1. answer' # NoAnswer
    BY <1>7, AnswerIsSome DEF EndItems
  <2>2. QED
    BY <1>7, <2>1 DEF EndItems, TypeOK, Shape, world, loading, InCall, Answered, NowBlind
<1>8. CASE EditKnowledge
  <2> DEFINE Saved(f, c) ==
               /\ disk' = [disk EXCEPT ![f] = c]
               /\ seen' = IF InCall THEN [seen EXCEPT ![f] = seen[f] \cup {c}] ELSE seen
  <2>0. PICK f \in FileSet : \E c \in ContentsOf(f) : Saved(f, c)
    BY <1>8 DEF EditKnowledge
  <2>1. PICK c \in ContentsOf(f) : Saved(f, c)
    BY <2>0
  <2>2. \A g \in FileSet : /\ disk'[g] = IF g = f THEN c ELSE disk[g]
                           /\ seen'[g] = IF g = f /\ InCall THEN seen[g] \cup {c} ELSE seen[g]
    BY <2>1 DEF Shape
  <2>3. \A g \in FileSet : disk'[g] \in ContentsOf(g) /\ seen'[g] \subseteq ContentsOf(g)
    BY <2>2 DEF TypeOK
  <2>4. edits' \in 0..MaxEdits
    BY <1>8, KnowledgeAssumption DEF EditKnowledge, TypeOK
  <2>5. TypeOK'
    BY <1>8, <2>3, <2>4 DEF EditKnowledge, TypeOK, loading, Answered
  <2>6. InCall' <=> InCall
    BY <1>8 DEF EditKnowledge, InCall
  <2>7. DOMAIN disk' = FileSet /\ DOMAIN seen' = FileSet /\ disk' = [g \in FileSet |-> disk'[g]]
        /\ seen' = [g \in FileSet |-> seen'[g]]
    BY <2>1 DEF Shape
  <2>8. InCall' => \A g \in FileSet : disk'[g] \in seen'[g]
    BY <2>2, <2>6 DEF Shape
  <2>9. Shape'
    BY <1>8, <2>6, <2>7, <2>8 DEF Shape, EditKnowledge, loading
  <2>10. QED
    BY <2>5, <2>9
<1>9. CASE EditSource
  <2>1. dirty' \subseteq Paths /\ still' \subseteq Paths /\ edits' \in 0..MaxEdits
    BY <1>9, KnowledgeAssumption DEF EditSource, TypeOK
  <2>2. QED
    BY <1>9, <2>1 DEF EditSource, TypeOK, Shape, loading, InCall, Answered
<1>10. CASE UNCHANGED vars
  BY <1>10 DEF TypeOK, Shape, vars, InCall, Answered
<1>11. QED
  BY <1>1, <1>2, <1>3, <1>4, <1>5, <1>6, <1>7, <1>8, <1>9, <1>10, <1>12 DEF Step

-----------------------------------------------------------------------------
(* What was read was there                                                 *)

LEMMA BeginReads ==
  ASSUME Inv, NEW t, NEW task, NEW files, NEW changed, Begin(t, task, files, changed)
  PROVE  /\ ReadInv' /\ GatherInv' /\ SpoilInv' /\ RankInv' /\ ~Answered'
         /\ (t = "frontend" => ~changed) => ChangeInv'
<1>1. pass' = "raw" /\ sought' = {} /\ listing' = {} /\ base' = {} /\ matches' = {}
      /\ entries' = {}
  BY DEF Begin, StartPass
<1>2. kinds' = KindsOf["raw"]
  BY DEF Begin, StartPass
<1>3. pc' = IF changed THEN "diff" ELSE "load"
  BY DEF Begin
<1>4. ReadInv' /\ RankInv' /\ ~Answered'
  BY <1>1, <1>3 DEF ReadInv, RankInv, Answered
<1>5. \A f \in FileSet : InPass(f)' => KindOf[f] \in kinds'
  BY <1>1, <1>2, PassKinds DEF InPass, Passes
<1>6. GatherInv' /\ SpoilInv'
  BY <1>1, <1>5, EntryHasHome DEF GatherInv, SpoilInv, Coming
<1>7. ASSUME t = "frontend" => ~changed
      PROVE  ChangeInv'
  BY <1>3 DEF ChangeInv, Begin
<1>8. QED
  BY <1>4, <1>6, <1>7

\* Opening a pass: nothing is read, every kind with a file is still to come.
LEMMA NewPass ==
  ASSUME NEW p \in Passes, StartPass(p)
  PROVE  /\ pass' = p /\ sought' = {} /\ listing' = {} /\ base' = {}
         /\ \A k \in kinds' : p = "full" => k \in Core
         /\ \A f \in FileSet : InPass(f)' => Coming(f)'
<1>1. pass' = p /\ sought' = {} /\ listing' = {} /\ base' = {} /\ kinds' = KindsOf[p]
  BY DEF StartPass
<1>2. \A k \in kinds' : p = "full" => k \in Core
  BY <1>1, PassKinds
<1>3. \A f \in FileSet : InPass(f)' => Coming(f)'
  BY <1>1, PassKinds DEF InPass, Coming
<1>4. QED
  BY <1>1, <1>2, <1>3

LEMMA StepReads ==
  ASSUME Inv, Later, Step \/ EditKnowledge \/ EditSource \/ UNCHANGED vars
  PROVE  ReadInv'
<1> USE DEF Inv
<1> DEFINE Carried ==
             /\ \A e \in base : Present(e)' /\ Reached(HomeOf[e])
             /\ \A e \in matches : Present(e)' /\ HomeOf[e] \in Root
             /\ \A e \in entries : Kind(e) \in Core /\ HomeOf[e] \in Direct
<1>0. Carried
  BY DEF ReadInv, TypeOK, Later
<1>1. CASE GitDiff \/ GitStatus \/ EditKnowledge \/ EditSource \/ UNCHANGED vars
  <2>1. UNCHANGED <<loading, matches, entries>>
    BY <1>1 DEF GitDiff, GitStatus, EditKnowledge, EditSource, vars, loading
  <2>2. QED
    BY <2>1, <1>0 DEF ReadInv, loading, Reached
<1>2. CASE OpenKind
  <2>1. PICK k \in kinds : /\ kinds' = kinds \ {k}
                           /\ sought' \cup listing' \subseteq PlacesFor(pass, k)
    BY <1>2 DEF OpenKind
  <2>2. UNCHANGED <<pass, base, matches, entries>>
    BY <1>2 DEF OpenKind
  <2>3. \A n \in sought' \cup listing' : Reached(Files[n])
    BY <2>1, PlacesHold DEF Reached, ReadInv
  <2>4. QED
    BY <1>0, <2>1, <2>2, <2>3 DEF ReadInv, Reached
<1>7. CASE StatFile
  <2>1. sought' \cup listing' \subseteq sought \cup listing
    BY <1>7 DEF StatFile
  <2>2. UNCHANGED <<pass, kinds, base, matches, entries>>
    BY <1>7 DEF StatFile
  <2>3. QED
    BY <1>0, <2>1, <2>2 DEF ReadInv, Reached
<1>3. CASE ReadFile
  <2>0. PICK n \in listing : ReadPlace(n)
    BY <1>3 DEF ReadFile
  <2> DEFINE f == Files[n]
  <2>1. base' = base \cup disk[f].holds /\ listing' = listing \ {n} /\ sought' = sought
    BY <2>0 DEF ReadPlace
  <2>2. UNCHANGED <<world, pass, kinds, matches, entries>> /\ InCall
    BY <2>0 DEF ReadPlace, InCall
  <2>3. f \in FileSet /\ disk[f] \in seen[f] /\ Reached(f) /\ disk[f].holds \subseteq Home(f)
    <3>1. f \in FileSet
      BY DEF TypeOK, FileSet
    <3>2. disk[f].holds \subseteq Home(f)
      BY <3>1, ContentsHold DEF TypeOK
    <3>3. QED
      BY <2>2, <3>1, <3>2 DEF Shape, ReadInv
  <2>4. ASSUME NEW e \in disk[f].holds
        PROVE  Present(e)' /\ Reached(HomeOf[e])
    <3>1. e \in Entries /\ HomeOf[e] = f
      BY <2>3, <2>4 DEF Home
    <3>2. Present(e)
      BY <2>3, <2>4, <3>1 DEF Present
    <3>3. QED
      BY <2>3, <3>1, <3>2 DEF Later
  <2>5. QED
    BY <1>0, <2>1, <2>2, <2>4 DEF ReadInv, Reached
<1>4. CASE EndRaw
  <2>1. PICK p \in {"full", "items"} : StartPass(p)
    BY <1>4 DEF EndRaw
  <2>2. sought' = {} /\ listing' = {} /\ base' = {} /\ pass' = p /\ \A k \in kinds' : p = "full" => k \in Core
    BY <2>1, NewPass DEF Passes
  <2>3. matches' \subseteq base /\ entries' = entries /\ pass = "raw"
    BY <1>4 DEF EndRaw, Outcome, Search, Loaded
  <2>4. \A e \in base : HomeOf[e] \in Root
    BY <1>0, <2>3 DEF Reached, Within
  <2>5. QED
    BY <1>0, <2>2, <2>3, <2>4 DEF ReadInv
<1>5. CASE EndFull
  <2>1. sought' = {} /\ listing' = {} /\ base' = {} /\ pass' = "items"
    BY <1>5, NewPass DEF Passes, EndFull
  <2>2. matches' = matches /\ entries' = base \cap matches /\ pass = "full"
    BY <1>5 DEF EndFull, Loaded
  <2>3. \A e \in base : e \in Entries /\ KindOf[HomeOf[e]] \in Core /\ HomeOf[e] \in Within("full", KindOf[HomeOf[e]])
    BY <1>0, <2>2 DEF Reached, TypeOK
  <2>4. \A e \in base : Kind(e) \in Core /\ HomeOf[e] \in Direct
    BY <2>3, EntryHasHome, KindNames DEF Within
  <2>5. QED
    BY <1>0, <2>1, <2>2, <2>4 DEF ReadInv
<1>6. CASE EndItems
  <2>1. UNCHANGED <<loading, matches, entries>>
    BY <1>6 DEF EndItems
  <2>2. QED
    BY <2>1, <1>0 DEF ReadInv, loading, Reached
<1>8. QED
  BY <1>1, <1>2, <1>3, <1>4, <1>5, <1>6, <1>7 DEF Step

-----------------------------------------------------------------------------
(* What stays is read, what stays bad fails                                *)

\* A file that is not missing goes on coming until it is read.
LEMMA ComingStays ==
  ASSUME sought \cup listing \subseteq Places, OpenKind \/ StatFile, NEW f \in FileSet,
         f \in Within(pass, KindOf[f]), Coming(f), disk[f].state # "missing"
  PROVE  Coming(f)'
<1>1. CASE OpenKind
  <2>1. PICK k \in kinds :
          /\ kinds' = kinds \ {k}
          /\ \/ sought' = PlacesFor(pass, k)
             \/ listing' = PlacesFor(pass, k)
    BY <1>1 DEF OpenKind
  <2>2. KindOf[f] \in kinds
    BY <1>1 DEF OpenKind, Coming, Pending
  <2>3. CASE KindOf[f] = k
    BY <2>1, <2>3, FileHasPlace DEF Coming, Pending
  <2>4. CASE KindOf[f] # k
    BY <2>1, <2>2, <2>4 DEF Coming
  <2>5. QED
    BY <2>3, <2>4
<1>2. CASE StatFile
  <2>1. PICK n \in sought :
          /\ sought'  = sought \ {n}
          /\ listing' = IF disk[Files[n]].state = "missing" THEN listing ELSE listing \cup {n}
    BY <1>2 DEF StatFile
  <2>2. kinds' = kinds
    BY <1>2 DEF StatFile
  <2>3. ASSUME NEW m \in Places, Files[m] = f, Pending(m)
        PROVE  Pending(m)'
    BY <2>1, <2>3 DEF Pending
  <2>4. QED
    BY <2>2, <2>3 DEF Coming
<1>3. QED
  BY <1>1, <1>2

\* After the read of another file it still comes.
LEMMA ComingOrRead ==
  ASSUME NEW n \in listing, ReadPlace(n), NEW f \in FileSet, Coming(f)
  PROVE  Files[n] = f \/ Coming(f)'
<1>1. kinds' = kinds /\ sought' = sought /\ listing' = listing \ {n}
  BY DEF ReadPlace
<1>2. QED
  BY <1>1 DEF Coming, Pending

\* A step inside a load: the file read, if any, goes from coming to read.
LEMMA StepGathers ==
  ASSUME Inv, Later, Step \/ EditKnowledge \/ EditSource \/ UNCHANGED vars
  PROVE  GatherInv'
<1> USE DEF Inv
<1> SUFFICES ASSUME InCall', NEW e \in Entries, Steady(e)', InPass(HomeOf[e])'
             PROVE  Coming(HomeOf[e])' \/ e \in base'
  BY DEF GatherInv
<1> DEFINE f == HomeOf[e]
<1>0. Steady(e) /\ f \in FileSet /\ Kind(e) = KindOf[f]
  BY EntryHasHome DEF Later
<1>1. CASE GitDiff \/ GitStatus \/ EditKnowledge \/ EditSource \/ UNCHANGED vars
  <2>1. UNCHANGED loading /\ (InCall' => InCall)
    BY <1>1 DEF GitDiff, GitStatus, EditKnowledge, EditSource, vars, loading, InCall
  <2>2. QED
    BY <2>1, <1>0 DEF GatherInv, loading, InPass, Coming, Pending
<1>2. CASE OpenKind \/ StatFile \/ ReadFile
  <2>1. InCall /\ pass' = pass /\ base \subseteq base'
    BY <1>2 DEF OpenKind, StatFile, ReadFile, ReadPlace, InCall
  <2>2. InPass(f) /\ disk[f] \in seen[f] /\ e \in disk[f].holds /\ disk[f] \in ContentsOf(f)
    BY <1>0, <2>1 DEF InPass, Shape, Steady, TypeOK
  <2>3. disk[f].state = "sound"
    BY <2>2, <1>0, ContentsHold
  <2>4. CASE e \in base
    BY <2>1, <2>4
  <2>5. CASE (OpenKind \/ StatFile) /\ Coming(f)
    BY <1>0, <2>2, <2>3, <2>5, ComingStays DEF TypeOK, InPass
  <2>6. CASE ReadFile /\ Coming(f)
    <3>1. PICK n \in listing : ReadPlace(n)
      BY <2>6 DEF ReadFile
    <3>2. base' = base \cup disk[Files[n]].holds
      BY <3>1 DEF ReadPlace
    <3>3. QED
      BY <1>0, <2>2, <2>6, <3>1, <3>2, ComingOrRead
  <2>7. QED
    BY <1>0, <1>2, <2>1, <2>2, <2>4, <2>5, <2>6 DEF GatherInv
<1>3. CASE EndRaw \/ EndFull
  <2>1. PICK p \in Passes : StartPass(p)
    BY <1>3 DEF EndRaw, EndFull, Passes
  <2>2. QED
    BY <1>0, <2>1, NewPass
<1>4. CASE EndItems
  BY <1>4 DEF EndItems, InCall
<1>5. QED
  BY <1>1, <1>2, <1>3, <1>4 DEF Step

LEMMA StepSpoils ==
  ASSUME Inv, Later, Step \/ EditKnowledge \/ EditSource \/ UNCHANGED vars
  PROVE  SpoilInv'
<1> USE DEF Inv
<1> SUFFICES ASSUME InCall', NEW f \in FileSet, Spoiled(f)'
             PROVE  /\ (pass' # "full" /\ InPass(f)') => Coming(f)' \/ failed'
                    /\ (pass' # "raw" /\ f \in Root) => matches' = {}
  BY DEF SpoilInv
<1>0. Spoiled(f)
  BY DEF Later
<1>1. CASE GitDiff \/ GitStatus \/ EditKnowledge \/ EditSource \/ UNCHANGED vars
  <2>1. UNCHANGED <<loading, matches>> /\ (InCall' => InCall)
    BY <1>1 DEF GitDiff, GitStatus, EditKnowledge, EditSource, vars, loading, InCall
  <2>2. QED
    BY <2>1, <1>0 DEF SpoilInv, loading, InPass, Coming, Pending
<1>2. CASE OpenKind \/ StatFile \/ ReadFile
  <2>1. InCall /\ UNCHANGED <<pass, matches>> /\ (failed => failed')
    <3>1. InCall /\ UNCHANGED <<pass, matches>>
      BY <1>2 DEF OpenKind, StatFile, ReadFile, ReadPlace, InCall
    <3>2. failed => failed'
      BY <1>2, Zenon DEF OpenKind, StatFile, ReadFile, ReadPlace
    <3>3. QED
      BY <3>1, <3>2
  <2>2. (pass' # "raw" /\ f \in Root) => matches' = {}
    BY <1>0, <2>1 DEF SpoilInv
  <2>3. SUFFICES ASSUME pass # "full", InPass(f), Coming(f)
                 PROVE  Coming(f)' \/ failed'
    BY <1>0, <2>1, <2>2 DEF SpoilInv, InPass
  <2>4. disk[f] \in seen[f] /\ disk[f].state # "missing" /\ Fails(f)
    BY <1>0, <2>1 DEF Shape, Spoiled, Fails
  <2>5. CASE OpenKind \/ StatFile
    BY <2>3, <2>4, <2>5, ComingStays DEF TypeOK, InPass
  <2>6. CASE ReadFile
    <3>1. PICK n \in listing : ReadPlace(n)
      BY <2>6 DEF ReadFile
    <3>2. failed' = (failed \/ (pass # "full" /\ Fails(Files[n])))
      BY <3>1 DEF ReadPlace
    <3>3. QED
      BY <2>3, <2>4, <3>1, <3>2, ComingOrRead
  <2>7. QED
    BY <1>2, <2>5, <2>6
<1>3. CASE EndRaw
  <2>1. PICK p \in Passes : StartPass(p)
    BY <1>3 DEF EndRaw, Passes
  <2>2. pass = "raw" /\ InCall /\ ~Coming(f)
    BY <1>3 DEF EndRaw, Loaded, InCall, Coming, Pending
  <2>3. f \in Root => failed
    BY <1>0, <2>2 DEF SpoilInv, InPass, Within
  <2>4. f \in Root => matches' = {}
    BY <1>3, <2>3 DEF EndRaw, Outcome
  <2>5. InPass(f)' => Coming(f)'
    BY <2>1, NewPass
  <2>6. QED
    BY <2>4, <2>5
<1>4. CASE EndFull
  <2>1. StartPass("items") /\ pass = "full" /\ matches' = matches /\ InCall
    BY <1>4 DEF EndFull, Loaded, InCall
  <2>2. InPass(f)' => Coming(f)'
    BY <2>1, NewPass DEF Passes
  <2>3. f \in Root => matches' = {}
    BY <1>0, <2>1 DEF SpoilInv
  <2>4. QED
    BY <2>2, <2>3
<1>5. CASE EndItems
  BY <1>5 DEF EndItems, InCall
<1>6. QED
  BY <1>1, <1>2, <1>3, <1>4, <1>5 DEF Step

-----------------------------------------------------------------------------
(* What deserves it is found                                               *)

\* The search keeps what stays, unless entries that were there rank above it.
LEMMA SearchFinds ==
  ASSUME Inv, pass = "raw", NEW e \in base, Deserved(e)
  PROVE  e \in Search(base)
<1> USE DEF Inv
<1> DEFINE Hit    == {d \in base : Score(d) > 0}
           Above  == {d \in Hit : Before(d, e)}
           Better == {d \in Entries : HomeOf[d] \in Root /\ Present(d) /\ Score(d) > 0
                                      /\ Before(d, e)}
<1>1. base \subseteq Entries /\ \A d \in base : Present(d) /\ HomeOf[d] \in Root
  BY DEF TypeOK, ReadInv, Reached, Within
<1>2. Above \subseteq Better
  BY <1>1
<1>3. IsFiniteSet(Better) /\ IsFiniteSet(Above)
  BY <1>2, KnowledgeAssumption, FS_Subset
<1>4. Cardinality(Above) <= Cardinality(Better)
  BY <1>2, <1>3, FS_Subset
<1>5. Cardinality(Above) \in Nat /\ Cardinality(Better) \in Nat
  BY <1>3, FS_CardinalityType
<1>6. ~(Cardinality(Better) >= MaxMatches)
  BY DEF Deserved, Outranked
<1>7. Cardinality(Above) < MaxMatches
  BY <1>4, <1>5, <1>6, KnowledgeAssumption
<1>8. e \in Hit
  BY DEF Deserved
<1>9. QED
  BY <1>7, <1>8 DEF Search

LEMMA StepRanks ==
  ASSUME Inv, Later, Step \/ EditKnowledge \/ EditSource \/ UNCHANGED vars
  PROVE  RankInv'
<1> USE DEF Inv
<1> SUFFICES ASSUME InCall', pass' # "raw", "raw" \notin blind', NEW e \in Entries, Deserved(e)'
             PROVE  /\ e \in matches'
                    /\ (/\ pass' = "items" /\ tool' = "frontend" /\ e \in Blockers
                        /\ HomeOf[e] \in Direct)
                       => e \in entries'
  BY DEF RankInv
<1>1. ~(GitDiff \/ GitStatus)
  BY DEF GitDiff, GitStatus, loading, Shape
<1>2. Deserved(e)
  <2>1. query' = query
    BY <1>1 DEF GitDiff, GitStatus, OpenKind, StatFile, ReadFile, ReadPlace, EndRaw, EndFull,
                EndItems, Step, EditKnowledge, EditSource, vars
  <2>2. QED
    BY <2>1, QueryRanks, DeservedStays
<1>3. CASE OpenKind \/ StatFile \/ ReadFile \/ EditKnowledge \/ EditSource \/ UNCHANGED vars
  <2>1. UNCHANGED <<pass, tool, matches, entries, blind>> /\ (InCall' => InCall)
    BY <1>3 DEF OpenKind, StatFile, ReadFile, ReadPlace, EditKnowledge, EditSource, vars,
                loading, InCall
  <2>2. QED
    BY <1>2, <2>1 DEF RankInv
<1>4. CASE EndRaw
  <2>1. InCall /\ pass = "raw" /\ ~Coming(HomeOf[e])
    BY <1>4 DEF EndRaw, Loaded, InCall, Coming, Pending
  <2>2. InPass(HomeOf[e])
    BY <1>2, <2>1 DEF InPass, Deserved, Within
  <2>3. e \in base
    BY <1>2, <2>1, <2>2 DEF GatherInv, Deserved
  <2>4. ~failed
    BY <1>4 DEF EndRaw, NowBlind
  <2>5. e \in matches'
    BY <1>2, <1>4, <2>1, <2>3, <2>4, SearchFinds DEF EndRaw, Outcome
  <2>6. pass' = IF tool = "frontend" THEN "full" ELSE "items"
    BY <1>4 DEF EndRaw, StartPass
  <2>7. tool' = tool
    BY <1>4 DEF EndRaw
  <2>8. QED
    BY <2>5, <2>6, <2>7
<1>5. CASE EndFull
  <2>1. InCall /\ pass = "full" /\ ~Coming(HomeOf[e]) /\ matches' = matches /\ blind' = blind
    BY <1>5 DEF EndFull, Loaded, InCall, Coming, Pending
  <2>2. e \in matches
    BY <1>2, <2>1 DEF RankInv
  <2>3. ASSUME e \in Blockers, HomeOf[e] \in Direct
        PROVE  e \in entries'
    <3>1. KindOf[HomeOf[e]] = "forbidden_fix"
      BY <2>3, KnowledgeAssumption, EntryHasHome
    <3>2. InPass(HomeOf[e])
      BY <2>1, <2>3, <3>1, KindNames DEF InPass, Within
    <3>3. e \in base
      BY <1>2, <2>1, <3>2 DEF GatherInv, Deserved
    <3>4. QED
      BY <1>5, <2>2, <3>3 DEF EndFull
  <2>4. QED
    BY <2>1, <2>2, <2>3
<1>6. CASE EndItems
  BY <1>6 DEF EndItems, InCall
<1>7. QED
  BY <1>1, <1>3, <1>4, <1>5, <1>6 DEF Step

-----------------------------------------------------------------------------
(* The changed files                                                       *)

LEMMA StepChanges ==
  ASSUME Inv, Step \/ EditKnowledge \/ EditSource \/ UNCHANGED vars
  PROVE  ChangeInv'
<1> USE DEF Inv
<1>1. CASE GitDiff
  BY <1>1 DEF GitDiff, ChangeInv, world, InCall
<1>2. CASE GitStatus
  <2>1. still \subseteq dirty /\ UNCHANGED <<still, dirty>> /\ pc' = "load"
    BY <1>2 DEF GitStatus, ChangeInv, world, InCall
  <2>2. ASSUME ~warned'
        PROVE  \A p \in still \ Unnamed : StatusNames[p] \cap paths' # {}
    <3>1. PICK listed \in SUBSET dirty : \E name \in [listed -> Words] :
            StatusLists(listed, name) /\ Add({name[p] : p \in listed})
      BY <1>2, <2>2 DEF GitStatus
    <3>2. PICK name \in [listed -> Words] :
            StatusLists(listed, name) /\ Add({name[p] : p \in listed})
      BY <3>1
    <3>3. ASSUME NEW p \in still \ Unnamed
          PROVE  name[p] \in StatusNames[p] /\ name[p] \in paths'
      BY <2>1, <3>2, <3>3 DEF StatusLists, Add
    <3>4. QED
      BY <3>3
  <2>3. QED
    BY <2>1, <2>2 DEF ChangeInv
<1>3. CASE OpenKind \/ StatFile \/ ReadFile \/ EndRaw \/ EndFull \/ EndItems
  <2>1. UNCHANGED <<still, dirty, paths, asked, warned>> /\ InCall /\ pc = "load"
    BY <1>3 DEF OpenKind, StatFile, ReadFile, ReadPlace, EndRaw, EndFull, EndItems, Loaded,
                InCall, world
  <2>2. QED
    BY <2>1 DEF ChangeInv
<1>4. CASE EditKnowledge \/ UNCHANGED vars
  BY <1>4 DEF EditKnowledge, vars, ChangeInv, InCall
<1>5. CASE EditSource
  <2>1. PICK p \in Paths : /\ dirty' = IF p \in dirty THEN dirty \ {p} ELSE dirty \cup {p}
                           /\ still' = IF InCall THEN still \ {p} ELSE still
    BY <1>5 DEF EditSource
  <2>2. UNCHANGED <<pc, paths, asked, warned>>
    BY <1>5 DEF EditSource
  <2>3. QED
    BY <2>1, <2>2 DEF ChangeInv, InCall
<1>6. QED
  BY <1>1, <1>2, <1>3, <1>4, <1>5 DEF Step

-----------------------------------------------------------------------------
(* The answers                                                             *)

\* A call that goes on or is over keeps its answer and what it rests on.
LEMMA AnswerStays ==
  ASSUME Inv, Later, Answered', EditKnowledge \/ EditSource \/ UNCHANGED vars
  PROVE  /\ Answered /\ UNCHANGED <<tool, query, blind, matches, answer, seen>>
BY DEF EditKnowledge, EditSource, vars, Answered, InCall

LEMMA StepAnswers ==
  ASSUME Inv, Later, Step \/ EditKnowledge \/ EditSource \/ UNCHANGED vars
  PROVE  AnswersAreWitnessed' /\ NothingSteadyIsMissed' /\ BadFileSilencesTheCall'
<1> USE DEF Inv
<1> SUFFICES ASSUME Answered'
             PROVE  AnswersAreWitnessed' /\ NothingSteadyIsMissed' /\ BadFileSilencesTheCall'
  BY DEF AnswersAreWitnessed, NothingSteadyIsMissed, BadFileSilencesTheCall
<1>1. CASE EditKnowledge \/ EditSource \/ UNCHANGED vars
  <2>1. Answered /\ UNCHANGED <<tool, query, blind, answer, seen>>
    BY <1>1, AnswerStays
  <2>2. SameRanking
    BY <2>1, QueryRanks
  <2>3. \A e \in Entries : /\ Steady(e)' <=> Steady(e)
                           /\ Present(e)' <=> Present(e)
    BY <2>1 DEF Steady, Present
  <2>4. AnswersAreWitnessed'
    BY <2>1 DEF AnswersAreWitnessed, Present
  <2>5. BadFileSilencesTheCall'
    BY <2>1 DEF BadFileSilencesTheCall
  <2>6. \A e \in Entries : Outranked(e) => Outranked(e)'
    BY <2>2, OutrankedStays
  <2>7. NothingSteadyIsMissed'
    BY <2>1, <2>2, <2>3, <2>6 DEF NothingSteadyIsMissed, SameRanking
  <2>8. QED
    BY <2>4, <2>5, <2>7
<1>2. CASE EndItems
  <2> DEFINE items == Outcome(MatchedPreflightItems(base))
  <2>1. /\ InCall /\ pass = "items" /\ UNCHANGED <<tool, query, matches, entries, seen>>
        /\ blind' = NowBlind("items")
        /\ \A f \in FileSet : ~Coming(f)
    BY <1>2 DEF EndItems, Loaded, InCall, Coming, Pending, world
  <2>2. SameRanking
    BY <2>1, QueryRanks
  <2>3. \A e \in Entries : /\ Steady(e)' <=> Steady(e)
                           /\ Present(e)' <=> Present(e)
    BY <2>1 DEF Steady, Present
  <2>4. /\ tool # "frontend" => answer' = PreflightAnswer(items)
        /\ tool = "frontend" => answer' = FrontendAnswer(items)
    BY <1>2 DEF EndItems
  <2>5. items \subseteq base /\ (failed => items = {})
    BY DEF Outcome, MatchedPreflightItems
  <2>6. AnswersAreWitnessed'
    <3>1. CASE tool = "frontend"
      <4>1. answer'.named = entries \cup OfKind(items, "required_test")
        BY <2>4, <3>1 DEF FrontendAnswer
      <4>2. \A e \in entries : e \in Entries /\ Present(e) /\ HomeOf[e] \in Root \cap Direct
        BY DEF ReadInv, TypeOK
      <4>3. \A e \in OfKind(items, "required_test") : e \in Entries /\ Present(e) /\ Kind(e) \notin Core
        BY <2>5, KindNames DEF ReadInv, TypeOK, OfKind
      <4>4. QED
        BY <2>1, <2>3, <4>1, <4>2, <4>3 DEF AnswersAreWitnessed
    <3>2. CASE tool # "frontend"
      <4>1. answer'.named = RawNamed \cup items
        BY <2>4, <3>2 DEF PreflightAnswer
      <4>2. \A e \in RawNamed \cup items : e \in Entries /\ Present(e)
        BY <2>5 DEF RawNamed, ReadInv, TypeOK
      <4>3. QED
        BY <2>1, <2>3, <3>2, <4>1, <4>2 DEF AnswersAreWitnessed
    <3>3. QED
      BY <3>1, <3>2
  <2>7. NothingSteadyIsMissed'
    <3>1. SUFFICES ASSUME NEW e \in Entries, Steady(e)
                   PROVE
      /\ (/\ tool = "preflight" /\ "items" \notin blind' /\ Applies(e)
          /\ Kind(e) \in {"forbidden_assumption", "preflight_question"})
         => answer'.confidence = "insufficient_evidence"
      /\ (/\ tool = "preflight" /\ "raw" \notin blind' /\ HomeOf[e] \in Root
          /\ Kind(e) = "failure_mode" /\ Score(e) >= 2 /\ ~Outranked(e)')
         => answer'.verdict = "warn"
      /\ (/\ tool = "frontend" /\ "raw" \notin blind'
          /\ HomeOf[e] \in Root \cap Direct /\ e \in Blockers
          /\ Score(e) > 0 /\ ~Outranked(e)')
         => answer'.verdict = "block"
      BY <2>1, <2>2, <2>3 DEF NothingSteadyIsMissed, SameRanking
    <3>2. Outranked(e) => Outranked(e)'
      BY <2>2, OutrankedStays
    <3>3. "raw" \notin blind' => "raw" \notin blind
      BY <2>1 DEF NowBlind
    <3>4. ASSUME tool = "preflight", "items" \notin blind', Applies(e),
                 Kind(e) \in {"forbidden_assumption", "preflight_question"}
          PROVE  answer'.confidence = "insufficient_evidence"
      <4>1. Kind(e) \in Extended \ {"subsystem_boundary"} /\ Kind(e) \notin Core
            /\ Kind(e) = KindOf[HomeOf[e]] /\ HomeOf[e] \in FileSet
        BY <3>4, KindNames, EntryHasHome
      <4>2. InPass(HomeOf[e])
        BY <4>1, <2>1, KnowledgeAssumption DEF InPass, Within
      <4>3. e \in base
        BY <2>1, <3>1, <4>1, <4>2 DEF GatherInv
      <4>4. ~failed
        BY <2>1, <3>4 DEF NowBlind
      <4>5. e \in items
        BY <3>4, <4>1, <4>3, <4>4 DEF MatchedPreflightItems, Outcome
      <4>6. \/ e \in OfKind(RawNamed \cup items, "forbidden_assumption")
            \/ e \in OfKind(items, "preflight_question")
        BY <3>4, <4>5 DEF OfKind
      <4>7. Verdict(RawNamed \cup items, items) = <<"warn", "insufficient_evidence">>
        BY <4>6 DEF Verdict
      <4>8. QED
        BY <2>4, <3>4, <4>7 DEF PreflightAnswer
    <3>5. ASSUME tool = "preflight", "raw" \notin blind', HomeOf[e] \in Root,
                 Kind(e) = "failure_mode", Score(e) >= 2, ~Outranked(e)'
          PROVE  answer'.verdict = "warn"
      <4>1. Score(e) > 0
        BY <3>5, ScoreIsNatural
      <4>2. e \in matches
        BY <2>1, <3>1, <3>2, <3>3, <3>5, <4>1 DEF RankInv, Deserved
      <4>3. e \in OfKind(RawNamed \cup items, "failure_mode")
        BY <3>5, <4>2 DEF RawNamed, OfKind
      <4>4. Verdict(RawNamed \cup items, items)[1] = "warn"
        BY <4>3 DEF Verdict
      <4>5. QED
        BY <2>4, <3>5, <4>4 DEF PreflightAnswer
    <3>6. ASSUME tool = "frontend", "raw" \notin blind', HomeOf[e] \in Root \cap Direct,
                 e \in Blockers, Score(e) > 0, ~Outranked(e)'
          PROVE  answer'.verdict = "block"
      <4>1. e \in entries
        BY <2>1, <3>1, <3>2, <3>3, <3>6 DEF RankInv, Deserved
      <4>2. FrontendVerdict(OfKind(items, "required_test")) = <<"block", "confirmed">>
        BY <3>6, <4>1 DEF FrontendVerdict
      <4>3. QED
        BY <2>4, <3>6, <4>2 DEF FrontendAnswer
    <3>7. QED
      BY <3>4, <3>5, <3>6
  <2>8. BadFileSilencesTheCall'
    <3>1. SUFFICES ASSUME NEW f \in FileSet, f \in Root, KindOf[f] \in Core => f \in Profiled,
                          Spoiled(f)
                   PROVE  /\ answer'.named = {} /\ answer'.verdict # "block"
                          /\ tool = "preflight" => answer'.verdict = "ok"
      BY <2>1 DEF BadFileSilencesTheCall, Spoiled
    <3>2. matches = {} /\ entries = {}
      BY <2>1, <3>1 DEF SpoilInv, TypeOK
    <3>3. InPass(f)
      BY <2>1, <3>1, KnowledgeAssumption DEF InPass, Within
    <3>4. items = {}
      BY <2>1, <2>5, <3>1, <3>3 DEF SpoilInv
    <3>5. CASE tool = "frontend"
      <4>1. OfKind(items, "required_test") = {}
        BY <3>4 DEF OfKind
      <4>2. FrontendVerdict({})[1] # "block"
        BY <3>2 DEF FrontendVerdict
      <4>3. answer'.named = {} /\ answer'.verdict # "block"
        BY <2>4, <3>2, <3>5, <4>1, <4>2 DEF FrontendAnswer
      <4>4. QED
        BY <3>5, <4>3
    <3>6. CASE tool # "frontend"
      <4>1. RawNamed \cup items = {}
        BY <3>2, <3>4 DEF RawNamed
      <4>2. Verdict({}, {}) = <<"ok", "confirmed">>
        BY DEF Verdict, OfKind
      <4>3. answer'.named = {} /\ answer'.verdict = "ok"
        BY <2>4, <3>4, <3>6, <4>1, <4>2 DEF PreflightAnswer
      <4>4. QED
        BY <4>3
    <3>7. QED
      BY <3>5, <3>6
  <2>9. QED
    BY <2>6, <2>7, <2>8
<1>3. CASE Step /\ ~EndItems
  BY <1>3 DEF Step, GitDiff, GitStatus, OpenKind, StatFile, ReadFile, ReadPlace, EndRaw,
              EndFull, Loaded, Answered
<1>4. QED
  BY <1>1, <1>2, <1>3

-----------------------------------------------------------------------------
(* The theorems                                                            *)

LEMMA InitInv == Init => Inv
<1> SUFFICES ASSUME Init
             PROVE  Inv
  OBVIOUS
<1>1. \A f \in FileSet : disk[f] \in ContentsOf(f) /\ seen[f] = {}
  BY DEF Init, ContentsOf
<1>2. TypeOK
  <2>1. edits \in 0..MaxEdits
    BY KnowledgeAssumption DEF Init
  <2>2. pc = "idle" /\ ~Answered /\ answer = NoAnswer
    BY DEF Init, Answered
  <2>3. QED
    BY <1>1, <2>1, <2>2 DEF Init, TypeOK, Tools, Passes
<1>3. Shape
  BY DEF Init, Shape, InCall
<1>4. ReadInv /\ GatherInv /\ SpoilInv /\ RankInv /\ ChangeInv
  BY DEF Init, ReadInv, GatherInv, SpoilInv, RankInv, ChangeInv, InCall
<1>5. AnswersAreWitnessed /\ NothingSteadyIsMissed /\ BadFileSilencesTheCall
  BY DEF Init, AnswersAreWitnessed, NothingSteadyIsMissed, BadFileSilencesTheCall, Answered
<1>6. QED
  BY <1>2, <1>3, <1>4, <1>5 DEF Inv

LEMMA NextInv == Inv /\ [Next]_vars => Inv'
<1> SUFFICES ASSUME Inv, [Next]_vars
             PROVE  Inv'
  OBVIOUS
<1>1. CASE Call
  <2>1. PICK t \in Tools, task \in SUBSET Words, files \in SUBSET Paths, changed \in BOOLEAN :
          Begin(t, task, files, changed) /\ (t = "frontend" => ~changed)
    BY <1>1, CallIsBegin
  <2>2. TypeOK' /\ Shape'
    BY <2>1, BeginShape
  <2>3. ReadInv' /\ GatherInv' /\ SpoilInv' /\ RankInv' /\ ChangeInv' /\ ~Answered'
    BY <2>1, BeginReads
  <2>4. AnswersAreWitnessed' /\ NothingSteadyIsMissed' /\ BadFileSilencesTheCall'
    BY <2>3 DEF AnswersAreWitnessed, NothingSteadyIsMissed, BadFileSilencesTheCall
  <2>5. QED
    BY <2>2, <2>3, <2>4 DEF Inv
<1>2. CASE Step \/ EditKnowledge \/ EditSource \/ UNCHANGED vars
  <2>1. Later
    BY <1>2, SeenGrows DEF Inv
  <2>2. TypeOK' /\ Shape'
    BY <1>2, StepShape
  <2>3. ReadInv' /\ GatherInv' /\ SpoilInv' /\ RankInv' /\ ChangeInv'
    BY <1>2, <2>1, StepReads, StepGathers, StepSpoils, StepRanks, StepChanges
  <2>4. AnswersAreWitnessed' /\ NothingSteadyIsMissed' /\ BadFileSilencesTheCall'
    BY <1>2, <2>1, StepAnswers
  <2>5. QED
    BY <2>2, <2>3, <2>4 DEF Inv
<1>3. QED
  BY <1>1, <1>2 DEF Next

\* The invariant holds throughout.
THEOREM PreflightInvariant == Spec => []Inv
BY InitInv, NextInv, PTL DEF Spec

\* The variables keep their types, and an answer is given exactly when the call
\* is over.
THEOREM TypeCorrect == Spec => []TypeOK
<1>1. Inv => TypeOK
  BY DEF Inv
<1>2. QED
  BY <1>1, PreflightInvariant, PTL

\* Nothing an answer names is left over from an earlier load or call, however the
\* files were saved between the reads.
THEOREM AnswersStayWitnessed == Spec => []AnswersAreWitnessed
<1>1. Inv => AnswersAreWitnessed
  BY DEF Inv
<1>2. QED
  BY <1>1, PreflightInvariant, PTL

\* Knowledge that stays on the disk during a call shows in its verdict, unless a
\* load failed or better results pushed it out.
THEOREM SteadyKnowledgeIsFound == Spec => []NothingSteadyIsMissed
<1>1. Inv => NothingSteadyIsMissed
  BY DEF Inv
<1>2. QED
  BY <1>1, PreflightInvariant, PTL

\* One file that stays unusable during a call empties its answer.
THEOREM BadFileAlwaysSilences == Spec => []BadFileSilencesTheCall
<1>1. Inv => BadFileSilencesTheCall
  BY DEF Inv
<1>2. QED
  BY <1>1, PreflightInvariant, PTL

\* An answer without the warning about git has seen what was changed all along.
THEOREM UnwarnedCallSawAll == Spec => []UnwarnedCallSawTheChanges
<1>1. Inv => UnwarnedCallSawTheChanges
  BY DEF Inv, ChangeInv, UnwarnedCallSawTheChanges, Answered
<1>2. QED
  BY <1>1, PreflightInvariant, PTL

-----------------------------------------------------------------------------
(* The reports                                                             *)

ReportShape ==
  /\ DOMAIN disk = FileSet /\ disk = [f \in FileSet |-> disk[f]]
  /\ DOMAIN seen = FileSet /\ seen = [f \in FileSet |-> seen[f]]
  /\ pc # "idle" => pass = "items"
  /\ pc = "answered" => kinds = {} /\ sought = {} /\ listing = {}
  /\ pc = "load" => \A f \in FileSet : disk[f] \in seen[f]

\* What is loaded was there in a file the load opens; what stays is loaded.
ReportLoad ==
  pc # "idle" =>
    /\ \A n \in sought \cup listing : n \in PlacesFor("items", KindOf[Files[n]])
    /\ \A e \in base : Present(e) /\ Loadable(e)
    /\ \A e \in Entries : (Steady(e) /\ Loadable(e)) => Coming(HomeOf[e]) \/ e \in base

\* An entry at a place, and whether the load opens the place.
At(n, e)  == HomeOf[e] = Files[n]
Opened(n) == n \in PlacesFor("items", KindOf[Files[n]])

\* Every copy was there at a place the load opens, and what stays has one copy for
\* each such place.
ReportCopies ==
  pc # "idle" =>
    /\ \A x \in copies : At(x[1], x[2]) /\ Opened(x[1]) /\ Present(x[2])
    /\ \A n \in Places, e \in Entries : (Opened(n) /\ At(n, e) /\ Steady(e)) =>
          KindOf[Files[n]] \in kinds \/ Pending(n) \/ <<n, e>> \in copies

\* A report speaks of what was loaded.
ReportBasis == Answers => \E overdue \in SUBSET Dated : report = ReportOn(base, overdue)

ReportInv == ReportTypeOK /\ ReportShape /\ ReportLoad /\ ReportCopies /\ ReportBasis

\* What every report has, and when the self-check says ok.
LEMMA ReportParts ==
  ASSUME NEW overdue \in SUBSET Dated, base \subseteq Entries
  PROVE  LET r == ReportOn(base, overdue) IN
    /\ r.said \in {"ok", "not ok", "report"}
    /\ r.said = "ok" <=> request = "selfcheck" /\ r.errors = {}
    /\ request = "selfcheck" => r.errors = SelfcheckErrors(base)
    /\ r.errors \in {{}, SelfcheckErrors(base)}
    /\ r.warnings \in {NoWarnings, SelfcheckWarnings(base, overdue)}
    /\ request = "assurance" => r.counts = Counts
    /\ request \in LookupKinds => r.found = OfKind(MatchedPreflightItems(base), request)
    /\ r.found \subseteq base
<1> DEFINE r == ReportOn(base, overdue)
<1>1. CASE request = "selfcheck"
  <2>1. r = [Said(IF SelfcheckErrors(base) = {} THEN "ok" ELSE "not ok")
               EXCEPT !.errors = SelfcheckErrors(base),
                      !.warnings = SelfcheckWarnings(base, overdue)]
    BY <1>1 DEF ReportOn
  <2>2. QED
    BY <1>1, <2>1 DEF Said, Nothing, LookupKinds
<1>2. CASE request = "assurance"
  <2>1. r = [Said("report") EXCEPT !.counts = Counts, !.gaps = AssuranceWarnings(base)]
    BY <1>2 DEF ReportOn
  <2>2. QED
    BY <1>2, <2>1 DEF Said, Nothing, LookupKinds
<1>3. CASE request \notin {"selfcheck", "assurance"}
  <2>1. r = [Said("report") EXCEPT !.found = OfKind(MatchedPreflightItems(base), request)]
    BY <1>3 DEF ReportOn
  <2>2. OfKind(MatchedPreflightItems(base), request) \subseteq base
    BY DEF OfKind, MatchedPreflightItems
  <2>3. QED
    BY <1>3, <2>1, <2>2 DEF Said, Nothing
<1>4. QED
  BY <1>1, <1>2, <1>3

LEMMA ReportStepTypes ==
  ASSUME ReportInv, [NextReports]_allVars
  PROVE  ReportTypeOK' /\ ReportShape'
<1> USE DEF ReportInv
<1>1. ASSUME NEW t \in ReportTools, NEW task \in Tasks, CallReport(t, task)
      PROVE  ReportTypeOK' /\ ReportShape'
  <2>1. UNCHANGED <<disk, edits>> /\ seen' = [f \in FileSet |-> {disk[f]}]
    BY <1>1 DEF CallReport, others
  <2>2. pc' = "load" /\ pass' = "items" /\ sought' = {} /\ listing' = {} /\ base' = {}
        /\ failed' = FALSE /\ kinds' \subseteq Core \cup Extended
    BY <1>1, PassKinds DEF CallReport, StartPass, Passes
  <2>3. request' = t /\ query' \subseteq Words /\ report' = Nothing /\ copies' = {}
    BY <1>1, KnowledgeAssumption DEF CallReport
  <2>4. ReportTypeOK'
    BY <2>1, <2>2, <2>3 DEF ReportTypeOK, Nothing, Answers, Answered
  <2>5. ReportShape'
    BY <2>1, <2>2 DEF ReportShape
  <2>6. QED
    BY <2>4, <2>5
<1>2. CASE (OpenKind \/ StatFile) /\ UNCHANGED reportVars
  <2>1. sought' \cup listing' \subseteq Places /\ kinds' \subseteq Core \cup Extended
    <3>1. CASE OpenKind
      <4>1. PICK k \in kinds : /\ kinds' = kinds \ {k}
                               /\ sought' \cup listing' \subseteq PlacesFor(pass, k)
        BY <3>1 DEF OpenKind
      <4>2. QED
        BY <4>1, PlacesHold DEF ReportTypeOK
    <3>2. CASE StatFile
      BY <3>2 DEF StatFile, ReportTypeOK
    <3>3. QED
      BY <1>2, <3>1, <3>2
  <2>2. pc = "load" /\ UNCHANGED <<world, pc, query, pass, base, failed>>
    BY <1>2 DEF OpenKind, StatFile
  <2>3. QED
    BY <1>2, <2>1, <2>2 DEF ReportTypeOK, ReportShape, world, reportVars, Answers, Answered
<1>3. CASE AppendFile
  <2>1. PICK n \in listing : /\ ReadPlace(n) /\ UNCHANGED <<request, report>>
                             /\ copies' = copies \cup ({n} \X disk[Files[n]].holds)
    BY <1>3 DEF AppendFile
  <2>2. base' = base \cup disk[Files[n]].holds /\ listing' = listing \ {n} /\ sought' = sought
        /\ failed' = (failed \/ (pass # "full" /\ Fails(Files[n])))
    BY <2>1 DEF ReadPlace
  <2>3. disk[Files[n]].holds \subseteq Entries
    <3>1. Files[n] \in FileSet
      BY DEF ReportTypeOK, FileSet
    <3>2. QED
      BY <3>1, ContentsHold DEF ReportTypeOK
  <2>4. base' \subseteq Entries /\ sought' \cup listing' \subseteq Places /\ failed' \in BOOLEAN
        /\ copies' \subseteq Places \X Entries
    BY <2>1, <2>2, <2>3 DEF ReportTypeOK
  <2>5. pc = "load" /\ UNCHANGED <<world, pc, query, pass, kinds>>
    BY <2>1 DEF ReadPlace
  <2>6. report.said # "ok"
    BY <2>5 DEF ReportTypeOK, Answers, Answered
  <2>7. QED
    BY <2>1, <2>4, <2>5, <2>6 DEF ReportTypeOK, ReportShape, world, Answers, Answered
<1>4. CASE EditKnowledge /\ UNCHANGED reportVars
  <2> DEFINE Saved(f, c) ==
               /\ disk' = [disk EXCEPT ![f] = c]
               /\ seen' = IF InCall THEN [seen EXCEPT ![f] = seen[f] \cup {c}] ELSE seen
  <2>0. PICK f \in FileSet : \E c \in ContentsOf(f) : Saved(f, c)
    BY <1>4 DEF EditKnowledge
  <2>1. PICK c \in ContentsOf(f) : Saved(f, c)
    BY <2>0
  <2>2. \A g \in FileSet : /\ disk'[g] = IF g = f THEN c ELSE disk[g]
                           /\ seen'[g] = IF g = f /\ InCall THEN seen[g] \cup {c} ELSE seen[g]
    BY <2>1 DEF ReportShape
  <2>3. \A g \in FileSet : disk'[g] \in ContentsOf(g) /\ seen'[g] \subseteq ContentsOf(g)
    BY <2>2 DEF ReportTypeOK
  <2>4. edits' \in 0..MaxEdits
    <3>1. edits < MaxEdits /\ edits' = edits + 1 /\ edits \in 0..MaxEdits
      BY <1>4 DEF EditKnowledge, ReportTypeOK
    <3>2. QED
      BY <3>1, KnowledgeAssumption
  <2>5. ReportTypeOK'
    BY <1>4, <2>3, <2>4 DEF EditKnowledge, ReportTypeOK, loading, reportVars, Answers, Answered
  <2>6. DOMAIN disk' = FileSet /\ DOMAIN seen' = FileSet /\ disk' = [g \in FileSet |-> disk'[g]]
        /\ seen' = [g \in FileSet |-> seen'[g]]
    BY <2>1 DEF ReportShape
  <2>7. pc' = pc /\ UNCHANGED loading
    BY <1>4 DEF EditKnowledge
  <2>8. pc = "load" => \A g \in FileSet : disk'[g] \in seen'[g]
    BY <2>2 DEF ReportShape, InCall
  <2>9. ReportShape'
    BY <2>6, <2>7, <2>8 DEF ReportShape, loading
  <2>10. QED
    BY <2>5, <2>9
<1>5. CASE EndReport
  <2>1. pc' = "answered" /\ pass = "items" /\ kinds = {} /\ sought = {} /\ listing = {}
        /\ pc = "load" /\ UNCHANGED <<disk, edits, seen, query, request, copies, loading>>
    BY <1>5 DEF EndReport, Loaded, others
  <2>2. PICK overdue \in SUBSET Dated :
          report' = IF ~failed THEN ReportOn(base, overdue)
                    ELSE Said(IF request \in LookupKinds THEN "report" ELSE "error")
    BY <1>5 DEF EndReport
  <2>3. /\ report'.said \in {"nothing", "ok", "not ok", "report", "error"}
        /\ report'.said = "ok" <=> (request = "selfcheck" /\ ~failed /\ report'.errors = {})
        /\ failed => report' = Said(IF request \in LookupKinds THEN "report" ELSE "error")
        /\ report'.found \subseteq Entries
    <3>1. CASE ~failed
      BY <2>2, <3>1, ReportParts DEF ReportTypeOK
    <3>2. CASE failed
      BY <2>2, <3>2 DEF Said, Nothing
    <3>3. QED
      BY <3>1, <3>2
  <2>4. QED
    BY <2>1, <2>3 DEF ReportTypeOK, ReportShape, loading, Answers, Answered
<1>6. CASE UNCHANGED allVars
  BY <1>6 DEF allVars, vars, reportVars, ReportTypeOK, ReportShape, Answers, Answered
<1>7. QED
  BY <1>1, <1>2, <1>3, <1>4, <1>5, <1>6 DEF NextReports

\* What the history of a load only gains, and what it may lose.
ReportLater == \A e \in Entries : /\ Steady(e)' => Steady(e)
                                  /\ Present(e) => Present(e)'

LEMMA ReportSeenGrows ==
  ASSUME ReportShape,
         OpenKind \/ StatFile \/ AppendFile \/ EditKnowledge \/ EndReport \/ UNCHANGED allVars
  PROVE  ReportLater
<1>1. \A f \in FileSet : seen[f] \subseteq seen'[f]
  <2>1. CASE EditKnowledge
    BY <2>1 DEF EditKnowledge, ReportShape
  <2>2. CASE OpenKind \/ StatFile \/ AppendFile \/ EndReport \/ UNCHANGED allVars
    BY <2>2 DEF OpenKind, StatFile, AppendFile, ReadPlace, EndReport, world, allVars, vars
  <2>3. QED
    BY <2>1, <2>2
<1>2. QED
  BY <1>1, EntryHasHome DEF ReportLater, Steady, Present

LEMMA ReportStepLoad ==
  ASSUME ReportInv, [NextReports]_allVars
  PROVE  ReportLoad'
<1> USE DEF ReportInv
<1>1. ASSUME NEW t \in ReportTools, NEW task \in Tasks, CallReport(t, task)
      PROVE  ReportLoad'
  <2>1. StartPass("items")
    BY <1>1 DEF CallReport
  <2>2. /\ pass' = "items" /\ sought' = {} /\ listing' = {} /\ base' = {}
        /\ \A f \in FileSet : InPass(f)' => Coming(f)'
    BY <2>1, NewPass DEF Passes
  <2>3. ASSUME NEW e \in Entries, Loadable(e)
        PROVE  Coming(HomeOf[e])'
    <3>1. HomeOf[e] \in FileSet /\ HomeOf[e] \in Within("items", KindOf[HomeOf[e]])
      BY <2>3, EntryHasHome DEF Loadable
    <3>2. QED
      BY <2>2, <3>1 DEF InPass
  <2>4. QED
    BY <2>2, <2>3 DEF ReportLoad
<1>2. CASE (OpenKind \/ StatFile) /\ UNCHANGED reportVars
  <2>0. ReportLater
    BY <1>2, ReportSeenGrows
  <2>1. pc = "load" /\ pass = "items" /\ base' = base
    BY <1>2 DEF OpenKind, StatFile, ReportShape
  <2>2. \A n \in sought' \cup listing' : n \in PlacesFor("items", KindOf[Files[n]])
    <3>1. CASE OpenKind
      <4>1. PICK k \in kinds : sought' \cup listing' \subseteq PlacesFor(pass, k)
        BY <3>1 DEF OpenKind
      <4>2. QED
        BY <2>1, <4>1, PlacesHold
    <3>2. CASE StatFile
      BY <2>1, <3>2 DEF StatFile, ReportLoad
    <3>3. QED
      BY <1>2, <3>1, <3>2
  <2>3. ASSUME NEW e \in Entries, Steady(e), Loadable(e), e \notin base
        PROVE  Coming(HomeOf[e])'
    <3> DEFINE f == HomeOf[e]
    <3>1. f \in FileSet /\ f \in Within(pass, KindOf[f]) /\ Coming(f)
      BY <2>1, <2>3, EntryHasHome DEF ReportLoad, Loadable
    <3>2. disk[f].state # "missing"
      BY <2>1, <2>3, <3>1, ContentsHold DEF ReportShape, Steady, ReportTypeOK
    <3>3. QED
      BY <1>2, <3>1, <3>2, ComingStays DEF ReportTypeOK
  <2>4. QED
    BY <2>0, <2>1, <2>2, <2>3 DEF ReportLoad, ReportLater, ReportTypeOK
<1>3. CASE AppendFile
  <2>0. ReportLater
    BY <1>3, ReportSeenGrows
  <2>1. PICK n \in listing : ReadPlace(n)
    BY <1>3 DEF AppendFile
  <2> DEFINE f == Files[n]
  <2>2. pc = "load" /\ base' = base \cup disk[f].holds /\ sought' = sought
        /\ listing' = listing \ {n}
    BY <2>1 DEF ReadPlace
  <2>3. f \in FileSet /\ disk[f] \in seen[f] /\ f \in Within("items", KindOf[f])
        /\ disk[f].holds \subseteq Home(f)
    BY <2>2, ContentsHold, PlacesHold DEF ReportTypeOK, ReportShape, ReportLoad
  <2>4. \A e \in disk[f].holds : e \in Entries /\ Present(e) /\ Loadable(e)
    BY <2>3, EntryHasHome DEF Home, Present, Loadable
  <2>5. ASSUME NEW e \in Entries, Steady(e), HomeOf[e] = f
        PROVE  e \in disk[f].holds
    BY <2>3, <2>5 DEF Steady
  <2>6. ASSUME NEW e \in Entries, Steady(e), Loadable(e)
        PROVE  Coming(HomeOf[e])' \/ e \in base'
    BY <2>1, <2>2, <2>5, <2>6, EntryHasHome, ComingOrRead DEF ReportLoad
  <2>7. QED
    BY <2>0, <2>2, <2>4, <2>6 DEF ReportLoad, ReportLater, ReportTypeOK
<1>4. CASE (EditKnowledge /\ UNCHANGED reportVars) \/ EndReport \/ UNCHANGED allVars
  <2>0. ReportLater
    BY <1>4, ReportSeenGrows
  <2>1. UNCHANGED loading /\ (pc' # "idle" => pc # "idle")
    BY <1>4 DEF EditKnowledge, EndReport, Loaded, allVars, vars, loading
  <2>2. QED
    BY <2>0, <2>1 DEF ReportLoad, ReportLater, ReportTypeOK, loading, Coming, Pending
<1>5. QED
  BY <1>1, <1>2, <1>3, <1>4 DEF NextReports

\* Each place that is read adds a copy of what it holds.
LEMMA ReportStepCopies ==
  ASSUME ReportInv, [NextReports]_allVars
  PROVE  ReportCopies'
<1> USE DEF ReportInv
<1>1. ASSUME NEW t \in ReportTools, NEW task \in Tasks, CallReport(t, task)
      PROVE  ReportCopies'
  <2>1. kinds' = KindsOf["items"] /\ copies' = {}
    BY <1>1 DEF CallReport, StartPass
  <2>2. ASSUME NEW n \in Places, Opened(n)
        PROVE  KindOf[Files[n]] \in KindsOf["items"]
    <3>1. Files[n] \in FileSet /\ Files[n] \in Within("items", KindOf[Files[n]])
      BY <2>2, PlacesHold DEF Opened
    <3>2. QED
      BY <3>1, PassKinds DEF Passes
  <2>3. QED
    BY <2>1, <2>2 DEF ReportCopies
<1>2. CASE (OpenKind \/ StatFile) /\ UNCHANGED reportVars
  <2>0. ReportLater /\ copies' = copies /\ pc = "load" /\ pass = "items"
    BY <1>2, ReportSeenGrows DEF reportVars, OpenKind, StatFile, ReportShape
  <2>1. ASSUME NEW n \in Places, NEW e \in Entries, Opened(n), At(n, e), Steady(e),
               KindOf[Files[n]] \in kinds \/ Pending(n)
        PROVE  KindOf[Files[n]] \in kinds' \/ Pending(n)'
    <3>1. CASE OpenKind
      <4>1. PICK k \in kinds :
              /\ kinds' = kinds \ {k}
              /\ \/ sought' = PlacesFor(pass, k)
                 \/ listing' = PlacesFor(pass, k)
        BY <3>1 DEF OpenKind
      <4>2. ~Pending(n)
        BY <3>1 DEF OpenKind, Pending
      <4>3. QED
        BY <2>0, <2>1, <4>1, <4>2 DEF Pending, Opened
    <3>2. CASE StatFile
      <4>1. disk[Files[n]].state # "missing"
        BY <2>0, <2>1, EntryHasHome, ContentsHold DEF ReportShape, Steady, ReportTypeOK, At
      <4>2. PICK m \in sought :
              /\ sought'  = sought \ {m}
              /\ listing' = IF disk[Files[m]].state = "missing" THEN listing
                            ELSE listing \cup {m}
        BY <3>2 DEF StatFile
      <4>3. kinds' = kinds
        BY <3>2 DEF StatFile
      <4>4. QED
        BY <2>1, <4>1, <4>2, <4>3 DEF Pending
    <3>3. QED
      BY <1>2, <3>1, <3>2
  <2>2. QED
    BY <2>0, <2>1 DEF ReportCopies, ReportLater, ReportTypeOK
<1>3. CASE AppendFile
  <2>0. ReportLater
    BY <1>3, ReportSeenGrows
  <2>1. PICK n \in listing : /\ ReadPlace(n)
                             /\ copies' = copies \cup ({n} \X disk[Files[n]].holds)
    BY <1>3 DEF AppendFile
  <2>2. pc = "load" /\ kinds' = kinds /\ sought' = sought /\ listing' = listing \ {n}
    BY <2>1 DEF ReadPlace
  <2>3. n \in Places /\ Opened(n) /\ Files[n] \in FileSet /\ disk[Files[n]] \in seen[Files[n]]
        /\ disk[Files[n]].holds \subseteq Home(Files[n])
    BY <2>2, ContentsHold, PlacesHold DEF ReportTypeOK, ReportShape, ReportLoad, Opened
  <2>4. \A e \in disk[Files[n]].holds : e \in Entries /\ At(n, e) /\ Present(e)
    BY <2>3 DEF Home, At, Present
  <2>5. ASSUME NEW x \in copies'
        PROVE  At(x[1], x[2]) /\ Opened(x[1]) /\ Present(x[2])'
    <3>1. CASE x \in copies
      BY <2>0, <2>2, <3>1 DEF ReportCopies, ReportLater, ReportTypeOK
    <3>2. CASE x \in {n} \X disk[Files[n]].holds
      BY <2>0, <2>3, <2>4, <3>2 DEF ReportLater
    <3>3. QED
      BY <2>1, <2>5, <3>1, <3>2
  <2>6. ASSUME NEW m \in Places, NEW e \in Entries, Opened(m), At(m, e), Steady(e)
        PROVE  KindOf[Files[m]] \in kinds' \/ Pending(m)' \/ <<m, e>> \in copies'
    <3>1. CASE m = n
      <4>1. e \in disk[Files[n]].holds
        BY <2>3, <2>6, <3>1 DEF Steady, At
      <4>2. QED
        BY <2>1, <3>1, <4>1
    <3>2. CASE m # n
      BY <2>1, <2>2, <2>6, <3>2 DEF ReportCopies, Pending
    <3>3. QED
      BY <3>1, <3>2
  <2>7. QED
    BY <2>0, <2>5, <2>6 DEF ReportCopies, ReportLater
<1>4. CASE (EditKnowledge /\ UNCHANGED reportVars) \/ EndReport \/ UNCHANGED allVars
  <2>0. ReportLater
    BY <1>4, ReportSeenGrows
  <2>1. UNCHANGED <<loading, copies>> /\ (pc' # "idle" => pc # "idle")
    BY <1>4 DEF EditKnowledge, EndReport, Loaded, allVars, vars, reportVars, loading
  <2>2. QED
    BY <2>0, <2>1 DEF ReportCopies, ReportLater, ReportTypeOK, loading, Pending
<1>5. QED
  BY <1>1, <1>2, <1>3, <1>4 DEF NextReports

\* The counts and the searches depend on the base and the query alone.
LEMMA ReportStepBasis ==
  ASSUME ReportInv, [NextReports]_allVars
  PROVE  ReportBasis'
<1> USE DEF ReportInv
<1> SUFFICES ASSUME Answered', ~failed'
             PROVE  \E overdue \in SUBSET Dated : report' = ReportOn(base, overdue)'
  BY DEF ReportBasis, Answers
<1>1. CASE EndReport
  <2>1. UNCHANGED <<query, request, base, failed, copies>>
    BY <1>1 DEF EndReport, loading
  <2>2. PICK overdue \in SUBSET Dated : report' = ReportOn(base, overdue)
    BY <1>1, <2>1 DEF EndReport
  <2>3. ReportOn(base, overdue)' = ReportOn(base, overdue)
    BY <2>1 DEF ReportOn, Counts, MatchedPreflightItems, Applies, Terms
  <2>4. QED
    BY <2>2, <2>3
<1>2. CASE (EditKnowledge /\ UNCHANGED reportVars) \/ UNCHANGED allVars
  <2>1. UNCHANGED <<query, request, base, failed, copies, report, pc>>
    BY <1>2 DEF EditKnowledge, loading, allVars, vars, reportVars
  <2>2. PICK overdue \in SUBSET Dated : report = ReportOn(base, overdue)
    BY <2>1 DEF ReportBasis, Answers, Answered
  <2>3. ReportOn(base, overdue)' = ReportOn(base, overdue)
    BY <2>1 DEF ReportOn, Counts, MatchedPreflightItems, Applies, Terms
  <2>4. QED
    BY <2>1, <2>2, <2>3
<1>3. CASE (OpenKind \/ StatFile \/ AppendFile) \/ \E t \in ReportTools, task \in Tasks : CallReport(t, task)
  BY <1>3 DEF OpenKind, StatFile, AppendFile, ReadPlace, CallReport, Answered
<1>4. QED
  BY <1>1, <1>2, <1>3 DEF NextReports

LEMMA ReportInitInv == InitReports => ReportInv
<1> SUFFICES ASSUME InitReports
             PROVE  ReportInv
  OBVIOUS
<1>1. \A f \in FileSet : disk[f] \in ContentsOf(f) /\ seen[f] = {}
  BY DEF InitReports, Init, ContentsOf
<1>2. edits \in 0..MaxEdits
  BY KnowledgeAssumption DEF InitReports, Init
<1>3. ReportTypeOK
  BY <1>1, <1>2 DEF InitReports, Init, ReportTypeOK, Nothing, ReportTools, Answers, Answered
<1>4. ReportShape /\ ReportLoad /\ ReportCopies /\ ReportBasis
  BY DEF InitReports, Init, ReportShape, ReportLoad, ReportCopies, ReportBasis, Answers, Answered
<1>5. QED
  BY <1>3, <1>4 DEF ReportInv

\* The invariant of the reports holds throughout.
THEOREM ReportInvariant == SpecReports => []ReportInv
<1>1. ReportInv /\ [NextReports]_allVars => ReportInv'
  BY ReportStepTypes, ReportStepLoad, ReportStepCopies, ReportStepBasis DEF ReportInv
<1>2. QED
  BY <1>1, ReportInitInv, PTL DEF SpecReports

\* The variables keep their types, a self-check says ok exactly when its load did
\* not fail and it has no error to report, and a failed load reports nothing.
THEOREM ReportTypesCorrect == SpecReports => []ReportTypeOK
<1>1. ReportInv => ReportTypeOK
  BY DEF ReportInv
<1>2. QED
  BY <1>1, ReportInvariant, PTL

\* When a load is over, what stayed is in the base.
LEMMA AllGathered ==
  ASSUME ReportInv, Answered
  PROVE  /\ base \subseteq Entries
         /\ \A e \in base : Present(e) /\ Loadable(e)
         /\ \A e \in Entries : Steady(e) /\ Loadable(e) => e \in base
BY DEF ReportInv, ReportTypeOK, ReportShape, ReportLoad, Coming, Pending, Answered

\* When a load is over, the copies are what stayed and nothing that was never there.
LEMMA AllCopied ==
  ASSUME ReportInv, Answered
  PROVE  /\ \A x \in copies : At(x[1], x[2]) /\ Opened(x[1]) /\ Present(x[2])
         /\ \A n \in Places, e \in Entries :
              (Opened(n) /\ At(n, e) /\ Steady(e)) => <<n, e>> \in copies
BY DEF ReportInv, ReportShape, ReportCopies, Pending, Answered

\* A reference found dangling has no target that stayed.
LEMMA DanglingLacks ==
  ASSUME ReportInv, Answered, NEW checked, NEW x \in Dangling(base, checked, KnownIn(base))
  PROVE  Present(x[1]) /\ \A d \in Targets(x[2]) : ~Steady(d)
<1>1. x[1] \in base /\ x[2] \in Refs /\ x[2].kind \in Core \cup Extended
      /\ x[2].id \notin KnownIn(base)[x[2].kind]
  BY DEF Dangling, Refs
<1>2. ASSUME NEW d \in Targets(x[2]), Steady(d)
      PROVE  FALSE
  <2>1. d \in base /\ Kind(d) = x[2].kind /\ IdOf[d] = x[2].id
    BY <1>2, AllGathered DEF Targets
  <2>2. x[2].id \in KnownIn(base)[x[2].kind]
    BY <1>1, <2>1 DEF KnownIn, OfKind
  <2>3. QED
    BY <1>1, <2>2
<1>3. QED
  BY <1>1, <1>2, AllGathered

\* What a report says of an entry or a reference is borne out by the files.
THEOREM ReportsStayWitnessed == SpecReports => []ReportIsWitnessed
<1>1. ReportInv => ReportIsWitnessed
  <2> SUFFICES ASSUME ReportInv, Answers
               PROVE  ReportIsWitnessed
    BY DEF ReportIsWitnessed
  <2>1. /\ Answered /\ base \subseteq Entries
        /\ \A e \in base : Present(e) /\ Loadable(e)
        /\ \A e \in Entries : Steady(e) /\ Loadable(e) => e \in base
    BY AllGathered DEF Answers
  <2>2. PICK overdue \in SUBSET Dated : report = ReportOn(base, overdue)
    BY DEF ReportInv, ReportBasis
  <2>3. /\ report.errors \in {{}, SelfcheckErrors(base)}
        /\ report.warnings \in {NoWarnings, SelfcheckWarnings(base, overdue)}
        /\ request = "assurance" => report.counts = Counts
        /\ request \in LookupKinds => report.found = OfKind(MatchedPreflightItems(base), request)
    BY <2>1, <2>2, ReportParts
  <2>4. ASSUME NEW x \in report.errors \cup report.warnings.refs
        PROVE  Present(x[1]) /\ \A d \in Targets(x[2]) : ~Steady(d)
    <3>1. CASE x \in report.errors
      BY <2>1, <2>3, <3>1, DanglingLacks DEF SelfcheckErrors
    <3>2. CASE x \in report.warnings.refs
      BY <2>1, <2>3, <3>2, DanglingLacks DEF SelfcheckWarnings, NoWarnings
    <3>3. QED
      BY <2>4, <3>1, <3>2
  <2>5. \A e \in report.warnings.lacking \cup report.warnings.stale : Present(e)
    BY <2>1, <2>3 DEF SelfcheckWarnings, NoWarnings
  <2>6. ASSUME request = "assurance", NEW k \in Core \cup Extended
        PROVE  /\ Cardinality({x \in PlacesFor("items", k) \X Entries :
                                HomeOf[x[2]] = Files[x[1]] /\ Steady(x[2])}) <= report.counts[k]
               /\ report.counts[k] <=
                    Cardinality({x \in PlacesFor("items", k) \X Entries :
                                   HomeOf[x[2]] = Files[x[1]] /\ Present(x[2])})
    <3> DEFINE Stayed == {x \in PlacesFor("items", k) \X Entries :
                            HomeOf[x[2]] = Files[x[1]] /\ Steady(x[2])}
               Passed == {x \in PlacesFor("items", k) \X Entries :
                            HomeOf[x[2]] = Files[x[1]] /\ Present(x[2])}
               Copied == {x \in copies : Kind(x[2]) = k}
    <3>1. Stayed \subseteq Copied
      <4>1. SUFFICES ASSUME NEW x \in Stayed
                     PROVE  x \in copies /\ Kind(x[2]) = k
        OBVIOUS
      <4>2. /\ x = <<x[1], x[2]>> /\ x[1] \in PlacesFor("items", k) /\ x[2] \in Entries
            /\ HomeOf[x[2]] = Files[x[1]] /\ Steady(x[2])
        OBVIOUS
      <4>3. x[1] \in Places /\ KindOf[Files[x[1]]] = k
        BY <4>2, PlacesHold
      <4>4. QED
        BY <2>1, <4>2, <4>3, AllCopied DEF Opened, At, Kind
    <3>2. Copied \subseteq Passed
      <4>1. SUFFICES ASSUME NEW x \in copies, Kind(x[2]) = k
                     PROVE  x \in Passed
        OBVIOUS
      <4>2. x \in Places \X Entries
        BY DEF ReportInv, ReportTypeOK
      <4>3. At(x[1], x[2]) /\ Opened(x[1]) /\ Present(x[2])
        BY <2>1, AllCopied
      <4>4. QED
        BY <4>1, <4>2, <4>3 DEF Opened, At, Kind
    <3>3. IsFiniteSet(Passed)
      <4>1. IsFiniteSet(Places) /\ IsFiniteSet(Entries)
        BY KnowledgeAssumption, FS_Interval DEF Places
      <4>2. IsFiniteSet(Places \X Entries)
        BY <4>1, FS_Product
      <4>3. Passed \subseteq Places \X Entries
        BY PlacesHold
      <4>4. QED
        BY <4>2, <4>3, FS_Subset
    <3>4. report.counts[k] = Cardinality(Copied)
      BY <2>3, <2>6 DEF Counts
    <3>5. IsFiniteSet(Copied)
      BY <3>2, <3>3, FS_Subset
    <3>6. QED
      BY <3>1, <3>2, <3>3, <3>4, <3>5, FS_Subset
  <2>7. ASSUME request \in LookupKinds
        PROVE  /\ \A e \in report.found : Present(e)
               /\ \A e \in Entries :
                    (Kind(e) = request /\ Loadable(e) /\ Steady(e) /\ Applies(e))
                    => e \in report.found
    <3>1. report.found = OfKind(MatchedPreflightItems(base), request)
      BY <2>3, <2>7
    <3>2. request \in Extended \ {"subsystem_boundary"}
      BY <2>7, KindNames DEF LookupKinds
    <3>3. QED
      BY <2>1, <3>1, <3>2 DEF OfKind, MatchedPreflightItems
  <2>8. QED
    BY <2>4, <2>5, <2>6, <2>7 DEF ReportIsWitnessed
<1>2. QED
  BY <1>1, ReportInvariant, PTL

\* The self-check says ok only of references whose target was there at some moment,
\* and only where Validate agrees, but for what each of them leaves out.
THEOREM OkStaysEarned == SpecReports => []OkIsEarned
<1>1. ReportInv => OkIsEarned
  <2> SUFFICES ASSUME ReportInv, Answers, report.said = "ok"
               PROVE  OkIsEarned
    BY DEF OkIsEarned
  <2>1. /\ Answered /\ base \subseteq Entries
        /\ \A e \in base : Present(e) /\ Loadable(e)
        /\ \A e \in Entries : Steady(e) /\ Loadable(e) => e \in base
    BY AllGathered DEF Answers
  <2>2. SelfcheckErrors(base) = {}
    <3>1. PICK overdue \in SUBSET Dated : report = ReportOn(base, overdue)
      BY DEF ReportInv, ReportBasis
    <3>2. QED
      BY <2>1, <3>1, ReportParts
  <2>3. ASSUME NEW e \in base, NEW ref \in RefsOf[e], <<Kind(e), ref.kind>> \in SelfcheckErrs
        PROVE  \E d \in base : Kind(d) = ref.kind /\ IdOf[d] = ref.id
    <3>1. ref \in Refs /\ ref.kind \in Core \cup Extended
      BY <2>1, <2>3, ReportAssumption DEF Refs
    <3>2. <<e, ref>> \notin Dangling(base, SelfcheckErrs, KnownIn(base))
      BY <2>2 DEF SelfcheckErrors
    <3>3. ref.id \in KnownIn(base)[ref.kind]
      BY <2>3, <3>1, <3>2 DEF Dangling
    <3>4. QED
      BY <3>1, <3>3 DEF KnownIn, OfKind
  <2>4. ASSUME NEW e \in Entries, Loadable(e), Steady(e), NEW ref \in RefsOf[e],
               <<Kind(e), ref.kind>> \in SelfcheckErrs
        PROVE  \E d \in Targets(ref) : Present(d)
    <3>1. e \in base
      BY <2>1, <2>4
    <3>2. PICK d \in base : Kind(d) = ref.kind /\ IdOf[d] = ref.id
      BY <2>3, <2>4, <3>1
    <3>3. QED
      BY <2>1, <3>2 DEF Targets
  <2>5. ASSUME NEW x \in Validate(base).refs, Kind(x[1]) # "incident_pattern", x[2].id # NoId
        PROVE  FALSE
    <3> DEFINE named == {e \in base : IdOf[e] # NoId}
    <3>1. x \in Dangling(named, ValidateRefs, KnownIn(named))
      BY <2>5 DEF Validate
    <3>2. /\ x[1] \in base /\ x[2] \in RefsOf[x[1]] /\ x[2].kind \in Core \cup Extended
          /\ <<Kind(x[1]), x[2].kind>> \in ValidateRefs
          /\ x[2].id \notin KnownIn(named)[x[2].kind]
      BY <3>1 DEF Dangling, Refs
    <3>3. <<Kind(x[1]), x[2].kind>> \in SelfcheckErrs
      BY <2>5, <3>2 DEF ValidateRefs
    <3>4. PICK d \in base : Kind(d) = x[2].kind /\ IdOf[d] = x[2].id
      BY <2>3, <3>2, <3>3
    <3>5. x[2].id \in KnownIn(named)[x[2].kind]
      BY <2>5, <3>2, <3>4 DEF KnownIn, OfKind
    <3>6. QED
      BY <3>2, <3>5
  <2>6. QED
    BY <2>4, <2>5 DEF OkIsEarned
<1>2. QED
  BY <1>1, ReportInvariant, PTL
=============================================================================
