----------------------------- MODULE BundleBuild -----------------------------
(***************************************************************************)
(* Building an awareness bundle and inspecting one: Build and              *)
(* copyKnowledgeFile of src/bundle/builder.go, and the reader behind the   *)
(* awareness_bundle_inspect tool of src/cmd/awareness-mcp/main.go.         *)
(*                                                                         *)
(* One build runs at a time, but the knowledge files it copies are edited  *)
(* meanwhile, the MCP server inspects the directory at any moment, and the *)
(* build may fail or be killed between any two file operations.  A bundle  *)
(* directory is reused: the next build writes over what the last one left. *)
(***************************************************************************)
EXTENDS Naturals, Sequences

CONSTANTS
  Core,         \* sequence of the invariants, failure modes and forbidden fixes of the profile
  Optional,     \* sequence of the extended knowledge files looked up in the awareness root
  BaseOf,       \* the base name each source is copied to
  MaxEdits,     \* bound on the edits and deletions of knowledge files
  MaxBuilds     \* bound on the builds started

SeqElems(s) == {s[i] : i \in DOMAIN s}

Profile == "profile"
Sources == SeqElems(Core) \cup SeqElems(Optional)
Names   == {BaseOf[s] : s \in Sources} \cup {"profile.json", "runtime_signals.json"}
Work    == <<Profile>> \o Core \o Optional

ASSUME BundleAssumption ==
  /\ Core \in Seq(Sources) /\ Optional \in Seq(Sources)
  /\ SeqElems(Core) \cap SeqElems(Optional) = {}
  /\ \A i, j \in DOMAIN Optional : BaseOf[Optional[i]] = BaseOf[Optional[j]] => i = j
  /\ Profile \notin Sources
  /\ Sources \subseteq DOMAIN BaseOf
  /\ \A s \in Sources : BaseOf[s] \notin {"profile.json", "runtime_signals.json"}
  /\ MaxEdits \in Nat /\ MaxBuilds \in Nat

VARIABLES
  source,    \* the knowledge files: version, and whether the file is there
  edits,     \* edits and deletions so far
  dir,       \* the bundle directory, bundle.json apart
  manifest,  \* bundle.json
  build,     \* the running build
  builds,    \* builds started so far
  built,     \* what the last build returned: its manifest, or Nothing
  reader     \* the inspector, and its last report

vars == <<source, edits, dir, manifest, build, builds, built, reader>>

Nothing == [state |-> "nothing"]
Torn    == [state |-> "torn"]

\* A file of the bundle: a copy of one source, whole or only begun, with the
\* versions of the source its chunks came from.  A version is anything the source
\* has held on disk: a save that an editor makes in two writes is two versions.
Copy(s, vers) == [state |-> "whole", src |-> s, vers |-> vers]
Part(s, vers) == [state |-> "part", src |-> s, vers |-> vers]

\* A manifest names, per list entry, the base name and the file copied to it;
\* source and versions are what the build read, they are not written down.
Entry(s, vers) == [src |-> s, base |-> BaseOf[s], vers |-> vers]

Manifest(entries, signals) ==
  [state |-> "whole", entries |-> entries, signals |-> signals]

NotBuilding ==
  [pc |-> "idle", i |-> 1, entries |-> << >>, signals |-> FALSE, at |-> 0, read |-> {}]

NotReading ==
  [pc |-> "idle", seen |-> Nothing, files |-> {}, listed |-> FALSE, result |-> "none"]

Item   == Work[build.i]
Target == IF Item = Profile THEN "profile.json" ELSE BaseOf[Item]

IsOptional(s) == s \in SeqElems(Optional)

-----------------------------------------------------------------------------
(* The build                                                               *)

Init ==
  /\ source = [s \in Sources |-> [ver |-> 1, present |-> TRUE]]
  /\ edits = 0
  /\ dir = [n \in Names |-> Nothing]
  /\ manifest = Nothing
  /\ build = NotBuilding /\ builds = 0 /\ built = Nothing
  /\ reader = NotReading

\* Build is called; the caller that wants runtime signals has written them.
Start ==
  /\ build.pc = "idle" /\ builds < MaxBuilds
  /\ \E signals \in BOOLEAN :
       /\ build' = [NotBuilding EXCEPT !.pc = "open", !.signals = signals]
       /\ dir' = IF signals
                 THEN [dir EXCEPT !["runtime_signals.json"] = Copy("runtime", {builds + 1})]
                 ELSE dir
  /\ builds' = builds + 1
  /\ built' = Nothing
  /\ UNCHANGED <<source, edits, manifest, reader>>

\* The build moves to the next file, or to the manifest after the last one.
Advance(entries) ==
  build' = [build EXCEPT !.entries = entries, !.i = @ + 1, !.at = 0, !.read = {},
                         !.pc = IF build.i = Len(Work) THEN "truncate" ELSE "open"]

\* Mutant: the path of an optional file is set whether or not it was copied.
GiveUpFileListsIt ==
  IF IsOptional(Item) THEN Advance(Append(build.entries, Entry(Item, {build.at})))
  ELSE build' = NotBuilding

\* An error on a core file or on the profile is returned; an error on an
\* optional file only keeps it out of the manifest.
GiveUpFile ==
  IF IsOptional(Item) THEN Advance(build.entries) ELSE build' = NotBuilding

\* The source is opened (the profile is in memory); an optional one that is
\* not there is skipped.
Open ==
  /\ build.pc = "open"
  /\ Item # Profile => source[Item].present
  /\ build' = [build EXCEPT !.pc = "create",
                            !.at = IF Item = Profile THEN builds ELSE source[Item].ver]
  /\ UNCHANGED <<source, edits, dir, manifest, builds, built, reader>>

OpenFails ==
  /\ build.pc = "open" /\ Item # Profile
  /\ GiveUpFile
  /\ UNCHANGED <<source, edits, dir, manifest, builds, built, reader>>

\* Mutant: the old copy is removed before the new one is created.
CreateRemovesFirst ==
  /\ build.pc = "create"
  /\ dir' = [dir EXCEPT ![Target] = Nothing]
  /\ build' = [build EXCEPT !.pc = "write"]
  /\ UNCHANGED <<source, edits, manifest, builds, built, reader>>

\* Mutant: the copy is skipped when the bundle already has the file.
CreateKeepsExisting ==
  /\ build.pc = "create"
  /\ IF dir[Target].state = "whole" /\ Item # Profile
     THEN /\ Advance(Append(build.entries, Entry(Item, {build.at})))
          /\ UNCHANGED dir
     ELSE /\ dir' = [dir EXCEPT ![Target] = Part(Item, {})]
          /\ build' = [build EXCEPT !.pc = "write"]
  /\ UNCHANGED <<source, edits, manifest, builds, built, reader>>

\* os.Create empties the file a previous build, or a previous entry, left.
Create ==
  /\ build.pc = "create"
  /\ dir' = [dir EXCEPT ![Target] = Part(Item, {})]
  /\ build' = [build EXCEPT !.pc = "write"]
  /\ UNCHANGED <<source, edits, manifest, builds, built, reader>>

\* What the next read of the open source may meet: the version the last read met,
\* or one written over it since.  A save that puts a new file in its place, and a
\* deletion, leave the open one as it is.
Readable == IF Item = Profile THEN {build.at} ELSE build.at .. source[Item].ver

\* One read of the source and one write to the copy; there may be any number of
\* them, and the source may be edited between any two.
WriteChunk ==
  /\ build.pc = "write"
  /\ \E v \in Readable :
       /\ dir' = [dir EXCEPT ![Target] = Part(Item, build.read \cup {v})]
       /\ build' = [build EXCEPT !.at = v, !.read = @ \cup {v}]
  /\ UNCHANGED <<source, edits, manifest, builds, built, reader>>

\* The read that meets the end of the source.
FinishCopy ==
  /\ build.pc = "write"
  /\ \E v \in Readable :
       LET read == build.read \cup {v} IN
         /\ dir' = [dir EXCEPT ![Target] = Copy(Item, read)]
         /\ Advance(IF Item = Profile THEN build.entries
                    ELSE Append(build.entries, Entry(Item, read)))
  /\ UNCHANGED <<source, edits, manifest, builds, built, reader>>

\* Creating the copy, reading the source or writing the copy fails; what was
\* written of the copy stays.
CopyFails ==
  /\ build.pc \in {"create", "write"}
  /\ GiveUpFile
  /\ UNCHANGED <<source, edits, dir, manifest, builds, built, reader>>

\* os.WriteFile empties bundle.json, then fills it.
TruncateManifest ==
  /\ build.pc = "truncate"
  /\ manifest' = Torn
  /\ build' = [build EXCEPT !.pc = "manifest"]
  /\ UNCHANGED <<source, edits, dir, builds, built, reader>>

WriteManifest ==
  /\ build.pc = "manifest"
  /\ manifest' = Manifest(build.entries, build.signals)
  /\ build' = [build EXCEPT !.pc = "return"]
  /\ UNCHANGED <<source, edits, dir, builds, built, reader>>

\* Mutant: the error of writing bundle.json is dropped.
ManifestFailsUnnoticed ==
  /\ build.pc \in {"truncate", "manifest"}
  /\ build' = NotBuilding
  /\ built' = manifest
  /\ UNCHANGED <<source, edits, dir, manifest, builds, reader>>

ManifestFails ==
  /\ build.pc \in {"truncate", "manifest"}
  /\ build' = NotBuilding
  /\ UNCHANGED <<source, edits, dir, manifest, builds, built, reader>>

Return ==
  /\ build.pc = "return"
  /\ built' = Manifest(build.entries, build.signals)
  /\ build' = NotBuilding
  /\ UNCHANGED <<source, edits, dir, manifest, builds, reader>>

\* The process is killed: nothing is cleaned up.
Crash ==
  /\ build.pc # "idle"
  /\ build' = NotBuilding
  /\ UNCHANGED <<source, edits, dir, manifest, builds, built, reader>>

-----------------------------------------------------------------------------
(* The inspector, and the authors of the knowledge files                   *)

InspectManifest ==
  /\ reader.pc = "idle"
  /\ reader' =
       CASE manifest.state = "nothing" ->
              [NotReading EXCEPT !.result = "manifest_not_found"]
         [] manifest.state = "torn" ->
              [NotReading EXCEPT !.result = "manifest_parse_error"]
         [] manifest.state = "whole" ->
              [NotReading EXCEPT !.pc = "list", !.seen = manifest]
  /\ UNCHANGED <<source, edits, dir, manifest, build, builds, built>>

Listing == {n \in Names : dir[n].state # "nothing"}

InspectDir ==
  /\ reader.pc = "list"
  /\ reader' = [reader EXCEPT !.pc = "idle", !.result = "ok", !.listed = TRUE,
                              !.files = Listing]
  /\ UNCHANGED <<source, edits, dir, manifest, build, builds, built>>

\* The error of reading the directory is dropped: the report is ok all the same,
\* and lists what had been read, or nothing.  That it is short is not in the
\* report: listed is kept for the properties.
InspectDirFails ==
  /\ reader.pc = "list"
  /\ \E files \in SUBSET Listing :
       reader' = [reader EXCEPT !.pc = "idle", !.result = "ok", !.listed = FALSE,
                                !.files = files]
  /\ UNCHANGED <<source, edits, dir, manifest, build, builds, built>>

EditSource ==
  /\ edits < MaxEdits /\ edits' = edits + 1
  /\ \E s \in Sources :
       source' = [source EXCEPT ![s] = [ver |-> @.ver + 1, present |-> TRUE]]
  /\ UNCHANGED <<dir, manifest, build, builds, built, reader>>

DeleteSource ==
  /\ edits < MaxEdits /\ edits' = edits + 1
  /\ \E s \in Sources :
       /\ source[s].present
       /\ source' = [source EXCEPT ![s].present = FALSE]
  /\ UNCHANGED <<dir, manifest, build, builds, built, reader>>

BuildStep ==
  \/ Start \/ Open \/ OpenFails \/ Create \/ WriteChunk \/ FinishCopy \/ CopyFails
  \/ TruncateManifest \/ WriteManifest \/ ManifestFails \/ Return \/ Crash

Next ==
  \/ BuildStep
  \/ InspectManifest \/ InspectDir \/ InspectDirFails
  \/ EditSource \/ DeleteSource

Spec == Init /\ [][Next]_vars

-----------------------------------------------------------------------------
(* Properties                                                              *)

\* Of the entries with one base name, the last one copied is in the bundle.
LastOf(entries, i) ==
  \A j \in DOMAIN entries : j > i => entries[j].base # entries[i].base

OwnsName(e) == \A s \in SeqElems(Optional) : BaseOf[s] = e.base => s = e.src

Files ==
  {Nothing} \cup
  [state : {"part", "whole"}, src : Sources \cup {Profile, "runtime"}, vers : SUBSET Nat]

Entries == [src : Sources, base : Names, vers : (SUBSET Nat) \ {{}}]

Manifests ==
  {Nothing, Torn} \cup [state : {"whole"}, entries : Seq(Entries), signals : BOOLEAN]

TypeOK ==
  /\ source \in [Sources -> [ver : 1 .. MaxEdits + 1, present : BOOLEAN]]
  /\ edits \in 0 .. MaxEdits
  /\ dir \in [Names -> Files]
  /\ manifest \in Manifests /\ built \in Manifests \ {Torn}
  /\ build \in [pc : {"idle", "open", "create", "write", "truncate", "manifest", "return"},
                i : 1 .. Len(Work) + 1, entries : Seq(Entries),
                signals : BOOLEAN, at : Nat, read : SUBSET Nat]
  /\ builds \in 0 .. MaxBuilds
  /\ reader \in [pc : {"idle", "list"}, seen : Manifests, files : SUBSET Names, listed : BOOLEAN,
                 result : {"none", "ok", "manifest_not_found", "manifest_parse_error"}]

\* Once Build has returned without error, and until the next build starts, the
\* directory holds the manifest it returned; the manifest has every core file,
\* in order, and every file it names is the copy that build made of the last source
\* with that name, to its end and with nothing from another build in it, whatever
\* failed builds left there before and whatever happened to the sources meanwhile.
\* It need not be one version of the source: of one edited during its copy it may
\* be the beginning of one and the end of another, and Build does not notice.
\* Only a file that shares its name with an optional one may be torn all the same:
\* the copy of an optional source can fail half way, and that is no error.
AcknowledgedIsComplete ==
  built # Nothing /\ build.pc = "idle" =>
    /\ manifest = built
    /\ \A i \in DOMAIN Core : i \in DOMAIN built.entries /\ built.entries[i].src = Core[i]
    /\ \A i \in DOMAIN built.entries :
         LastOf(built.entries, i) /\ OwnsName(built.entries[i]) =>
           dir[built.entries[i].base] = Copy(built.entries[i].src, built.entries[i].vers)

\* The manifest is written last.  A manifest found in the directory, even one
\* left by an earlier build while a later one is copying or has been killed,
\* never runs ahead of the files: each name in it is in the directory, and no part
\* of a copy of the same source, be it whole or only begun, is older than all of the
\* copy the manifest was made for.
ManifestNeverRunsAhead ==
  manifest.state = "whole" =>
    \A i \in DOMAIN manifest.entries :
      LET e == manifest.entries[i]
          f == dir[e.base]
      IN /\ f # Nothing
         /\ f.src = e.src => \A v \in f.vers : \E u \in e.vers : u <= v

\* A report that says ok was made from two reads with the build running in
\* between: all the same, when the second of them did not fail, every path the
\* report names is among the files it lists, and so are the runtime signals it
\* announces.
ReportedPathsAreListed ==
  reader.result = "ok" /\ reader.listed =>
    /\ \A i \in DOMAIN reader.seen.entries : reader.seen.entries[i].base \in reader.files
    /\ reader.seen.signals => "runtime_signals.json" \in reader.files

=============================================================================
