------------------------- MODULE BundleBuild_proofs -------------------------
(***************************************************************************)
(* Proofs about BundleBuild: for any profile, any number of edits and of   *)
(* builds into one directory.                                              *)
(*                                                                         *)
(* The invariant follows a build through its list of files: what it has    *)
(* entered so far, that nothing entered, now or by an earlier build, runs  *)
(* ahead of the directory, and that the file just opened is at least as    *)
(* new as every copy of it already entered.                                *)
(***************************************************************************)
EXTENDS BundleBuild, TLAPS

Copying  == build.pc \in {"open", "create", "write"}
Closing  == build.pc \in {"truncate", "manifest", "return"}

\* The build stands at a file, or past the last one.
PosInv ==
  /\ Copying => build.i \in 1..Len(Work)
  /\ Closing => build.i = Len(Work) + 1

\* What is entered is in the directory, and not newer than its source or its copy.
BackedBy(e, src, d) ==
  /\ e.base = BaseOf[e.src] /\ \A u \in e.vers : u <= src[e.src].ver
  /\ d[e.base] # Nothing
  /\ d[e.base].src = e.src => \A v \in d[e.base].vers : \E u \in e.vers : u <= v

Backed(e) == BackedBy(e, source, dir)

BackedInv ==
  /\ \A n \in DOMAIN build.entries : Backed(build.entries[n])
  /\ manifest.state = "whole" => \A n \in DOMAIN manifest.entries : Backed(manifest.entries[n])
  /\ \A s \in Sources : source[s].ver <= edits + 1

\* The file at hand is read after every copy of it was entered, and no newer than it is.
ReadAfter(e, b) == \A u \in e.vers : u <= b.at /\ \A v \in b.read : u <= v

FreshInv ==
  /\ build.pc = "open" => build.read = {}
  /\ build.pc \in {"create", "write"} /\ Item # Profile =>
       /\ build.at <= source[Item].ver /\ \A v \in build.read : v <= build.at
       /\ \A n \in DOMAIN build.entries :
            build.entries[n].src = Item => ReadAfter(build.entries[n], build)
       /\ manifest.state = "whole" => \A n \in DOMAIN manifest.entries :
            manifest.entries[n].src = Item => ReadAfter(manifest.entries[n], build)

HasSignals == dir["runtime_signals.json"] # Nothing

ReaderInv ==
  /\ build.signals => HasSignals
  /\ manifest.state = "whole" /\ manifest.signals => HasSignals
  /\ reader.pc = "list" =>
       /\ reader.result = "none" /\ reader.seen.state = "whole"
       /\ \A n \in DOMAIN reader.seen.entries : dir[reader.seen.entries[n].base] # Nothing
       /\ reader.seen.signals => HasSignals
  /\ ReportedPathsAreListed

\* The core files are entered one by one, in their order.
OrderInv ==
  /\ build.pc # "idle" => built = Nothing
  /\ build.i <= Len(Core) + 2 =>
       Len(build.entries) = IF build.i = 1 THEN 0 ELSE build.i - 2
  /\ \A n \in DOMAIN Core : n + 1 < build.i =>
       n \in DOMAIN build.entries /\ build.entries[n].src = Core[n]
  /\ \A n \in DOMAIN build.entries : \E p \in 1..(build.i - 1) : Work[p] = build.entries[n].src

\* The last copy of each name is whole, but for the one at hand.
CopiedInv ==
  build.pc # "idle" =>
    \A n \in DOMAIN build.entries :
      LastOf(build.entries, n) /\ OwnsName(build.entries[n]) =>
        \/ dir[build.entries[n].base] = Copy(build.entries[n].src, build.entries[n].vers)
        \/ build.pc = "write" /\ Target = build.entries[n].base /\ ~IsOptional(Item)

ReturnInv == build.pc = "return" => manifest = Manifest(build.entries, build.signals)

Inv == /\ TypeOK /\ PosInv /\ BackedInv /\ FreshInv /\ ReaderInv /\ OrderInv
       /\ CopiedInv /\ ReturnInv /\ AcknowledgedIsComplete
-----------------------------------------------------------------------------
(* The list of files, and the shapes of things.                            *)

Builds == [pc : {"idle", "open", "create", "write", "truncate", "manifest", "return"},
           i : 1..(Len(Work) + 1), entries : Seq(Entries), signals : BOOLEAN, at : Nat, read : SUBSET Nat]

\* The files in the order of the build: the profile, the core, the optional ones.
LEMMA WorkIs ==
  /\ Len(Core) \in Nat /\ Len(Optional) \in Nat /\ Len(Work) = 1 + Len(Core) + Len(Optional)
  /\ Work[1] = Profile
  /\ \A p \in 2..(Len(Core) + 1) : p - 1 \in DOMAIN Core /\ Work[p] = Core[p - 1]
  /\ \A p \in (Len(Core) + 2)..Len(Work) :
       p - 1 - Len(Core) \in DOMAIN Optional /\ Work[p] = Optional[p - 1 - Len(Core)]
  /\ DOMAIN Core = 1..Len(Core) /\ DOMAIN Optional = 1..Len(Optional)
<1>1. Core \in Seq(Sources) /\ Optional \in Seq(Sources)
  BY BundleAssumption
<1>2. ASSUME NEW S, NEW T, NEW a \in Seq(S), NEW b \in Seq(S), NEW x
      PROVE  /\ Len(a) \in Nat /\ Len(b) \in Nat /\ Len(<<x>> \o a \o b) = 1 + Len(a) + Len(b)
             /\ (<<x>> \o a \o b)[1] = x
             /\ \A p \in 2..(Len(a) + 1) : p - 1 \in DOMAIN a /\ (<<x>> \o a \o b)[p] = a[p - 1]
             /\ \A p \in (Len(a) + 2)..(1 + Len(a) + Len(b)) :
                  p - 1 - Len(a) \in DOMAIN b /\ (<<x>> \o a \o b)[p] = b[p - 1 - Len(a)]
             /\ DOMAIN a = 1..Len(a) /\ DOMAIN b = 1..Len(b)
  OBVIOUS
<1>. QED BY <1>1, <1>2 DEF Work

\* An optional file comes after the core and is there once.
LEMMA WorkParts ==
  /\ \A p \in 1..Len(Work) : Work[p] = Profile \/ Work[p] \in Sources
  /\ \A p \in 1..Len(Work) : Work[p] = Profile <=> p = 1
  /\ \A p \in 1..Len(Work) : IsOptional(Work[p]) <=> p > Len(Core) + 1
  /\ \A p, q \in 1..Len(Work) : p < q /\ IsOptional(Work[q]) => Work[p] # Work[q]
<1>1. \A p \in 1..Len(Work) : p = 1 \/ p \in 2..(Len(Core) + 1) \/ p \in (Len(Core) + 2)..Len(Work)
  BY WorkIs
<1>2. \A p \in 2..(Len(Core) + 1) : Work[p] \in SeqElems(Core)
  BY WorkIs DEF SeqElems
<1>3. \A p \in (Len(Core) + 2)..Len(Work) : Work[p] \in SeqElems(Optional)
  BY WorkIs DEF SeqElems
<1>4. Profile \notin Sources /\ SeqElems(Core) \cap SeqElems(Optional) = {}
  BY BundleAssumption
<1>5. \A p \in 1..Len(Work) : Work[p] = Profile \/ Work[p] \in Sources
  BY <1>1, <1>2, <1>3, WorkIs DEF Sources
<1>6. \A p \in 1..Len(Work) : Work[p] = Profile <=> p = 1
  BY <1>1, <1>2, <1>3, <1>4, WorkIs DEF Sources
<1>7. \A p \in 1..Len(Work) : IsOptional(Work[p]) <=> p > Len(Core) + 1
  <2>1. ~IsOptional(Profile)
    BY <1>4 DEF IsOptional, Sources
  <2>2. \A p \in 2..(Len(Core) + 1) : ~IsOptional(Work[p])
    BY <1>2, <1>4 DEF IsOptional
  <2>3. \A p \in (Len(Core) + 2)..Len(Work) : IsOptional(Work[p])
    BY <1>3 DEF IsOptional
  <2>. QED BY <1>1, <2>1, <2>2, <2>3, WorkIs
<1>8. ASSUME NEW p \in 1..Len(Work), NEW q \in 1..Len(Work), p < q, IsOptional(Work[q])
      PROVE  Work[p] # Work[q]
  <2>1. CASE p > Len(Core) + 1
    <3>1. /\ p - 1 - Len(Core) \in DOMAIN Optional /\ Work[p] = Optional[p - 1 - Len(Core)]
          /\ q - 1 - Len(Core) \in DOMAIN Optional /\ Work[q] = Optional[q - 1 - Len(Core)]
      BY <1>8, <2>1, WorkIs
    <3>2. p - 1 - Len(Core) # q - 1 - Len(Core)
      BY <1>8, WorkIs
    <3>. QED BY <3>1, <3>2, BundleAssumption
  <2>2. CASE ~(p > Len(Core) + 1)
    BY <1>7, <1>8, <2>2
  <2>. QED BY <2>1, <2>2
<1>. QED BY <1>5, <1>6, <1>7, <1>8

\* The file at hand and its name in the bundle.
LEMMA ItemIs ==
  ASSUME PosInv, Copying
  PROVE  /\ Item = Profile \/ Item \in Sources
         /\ Item = Profile => Target = "profile.json"
         /\ Item # Profile => Target = BaseOf[Item] /\ Target \notin {"profile.json", "runtime_signals.json"}
         /\ Target \in Names /\ Target # "runtime_signals.json"
<1>1. Item = Profile \/ Item \in Sources
  BY WorkParts DEF PosInv, Item
<1>. QED BY <1>1, BundleAssumption DEF Target, Names

\* What is in a file.
LEMMA FilesDiffer ==
  /\ Torn # Nothing /\ \A s, r : Copy(s, r) # Nothing /\ Part(s, r) # Nothing
  /\ Nothing.state = "nothing" /\ Torn.state = "torn"
  /\ \A s, r : Copy(s, r).state = "whole" /\ Copy(s, r).src = s /\ Copy(s, r).vers = r
  /\ \A s, r : Part(s, r).state = "part" /\ Part(s, r).src = s /\ Part(s, r).vers = r
<1>1. /\ Nothing.state = "nothing" /\ Torn.state = "torn"
      /\ \A s, r : Copy(s, r).state = "whole" /\ Copy(s, r).src = s /\ Copy(s, r).vers = r
      /\ \A s, r : Part(s, r).state = "part" /\ Part(s, r).src = s /\ Part(s, r).vers = r
  BY DEF Nothing, Torn, Copy, Part
<1>. QED BY <1>1

LEMMA ManifestIs ==
  ASSUME NEW es \in Seq(Entries), NEW b \in BOOLEAN
  PROVE  /\ Manifest(es, b) \in Manifests \ {Torn, Nothing}
         /\ Manifest(es, b).state = "whole" /\ Manifest(es, b).entries = es
         /\ Manifest(es, b).signals = b
<1>1. /\ Manifest(es, b).state = "whole" /\ Manifest(es, b).entries = es
      /\ Manifest(es, b).signals = b
  BY DEF Manifest
<1>2. ASSUME NEW S, es \in S
      PROVE  Manifest(es, b) \in [state : {"whole"}, entries : S, signals : BOOLEAN]
  BY <1>2 DEF Manifest
<1>3. es \in Seq(Entries) =>
        Manifest(es, b) \in [state : {"whole"}, entries : Seq(Entries), signals : BOOLEAN]
  BY <1>2, Zenon
<1>. QED BY <1>1, <1>3, FilesDiffer DEF Manifests

\* On to the next file.
LEMMA AdvanceIs ==
  ASSUME build \in Builds, PosInv, Copying, NEW es \in Seq(Entries), Advance(es)
  PROVE  /\ build' \in Builds /\ PosInv'
         /\ build'.i = build.i + 1 /\ build'.entries = es /\ build'.signals = build.signals
         /\ build'.pc \in {"open", "truncate"} /\ build'.read = {}
<1>1. build.i \in 1..Len(Work) /\ Len(Work) \in Nat
  BY WorkIs DEF PosInv
<1>2. /\ build'.i = build.i + 1 /\ build'.entries = es /\ build'.signals = build.signals
      /\ build'.read = {}
      /\ build'.pc = IF build.i = Len(Work) THEN "truncate" ELSE "open"
  BY DEF Advance, Builds
<1>3. ASSUME NEW p \in {"open", "truncate"}, NEW n \in 1..(Len(Work) + 1)
      PROVE  [build EXCEPT !.entries = es, !.i = n, !.at = 0, !.read = {}, !.pc = p] \in Builds
  BY DEF Builds
<1>4. build.i + 1 \in 1..(Len(Work) + 1)
  BY <1>1
<1>5. build' \in Builds
  <2>1. CASE build.i = Len(Work)
    BY <1>3, <1>4, <2>1 DEF Advance
  <2>2. CASE build.i # Len(Work)
    BY <1>3, <1>4, <2>2 DEF Advance
  <2>. QED BY <2>1, <2>2
<1>. QED BY <1>1, <1>2, <1>5 DEF PosInv, Copying, Closing

LEMMA NotBuildingIs ==
  /\ NotBuilding \in Builds /\ NotBuilding.pc = "idle" /\ NotBuilding.i = 1
  /\ NotBuilding.entries = <<>> /\ NotBuilding.signals = FALSE /\ NotBuilding.read = {}
BY WorkIs DEF NotBuilding, Builds

\* Giving up a file: on to the next one, or the end of the build.
LEMMA GiveUpIs ==
  ASSUME build \in Builds, PosInv, Copying, GiveUpFile
  PROVE  /\ build' \in Builds /\ PosInv'
         /\ IsOptional(Item) => Advance(build.entries)
         /\ ~IsOptional(Item) => build' = NotBuilding
<1>1. build.entries \in Seq(Entries)
  BY DEF Builds
<1>2. CASE IsOptional(Item)
  BY <1>1, <1>2, AdvanceIs DEF GiveUpFile
<1>3. CASE ~IsOptional(Item)
  BY <1>3, NotBuildingIs DEF GiveUpFile, PosInv, Copying, Closing
<1>. QED BY <1>2, <1>3

\* What a read meets is a version between the last one met and the one on disk.
LEMMA ReadableIs ==
  ASSUME TypeOK, PosInv, Copying, build.pc = "write", NEW v \in Readable
  PROVE  /\ v \in Nat /\ build.at \in Nat /\ build.read \in SUBSET Nat
         /\ build.read \cup {v} \in SUBSET Nat /\ build.read \cup {v} # {}
         /\ Item # Profile =>
              build.at <= v /\ v <= source[Item].ver /\ Entry(Item, build.read \cup {v}) \in Entries
<1>1. Item = Profile \/ (Item \in Sources /\ source[Item].ver \in Nat /\ BaseOf[Item] \in Names)
  BY ItemIs DEF TypeOK, Names
<1>2. build.at \in Nat /\ build.read \in SUBSET Nat
  BY DEF TypeOK
<1>3. v \in Nat /\ (Item # Profile => build.at <= v /\ v <= source[Item].ver)
  BY <1>1, <1>2 DEF Readable
<1>4. build.read \cup {v} \in SUBSET Nat /\ build.read \cup {v} # {}
  BY <1>2, <1>3
<1>5. Item # Profile => Entry(Item, build.read \cup {v}) \in Entries
  <2>1. ASSUME NEW r \in SUBSET Nat, r # {}, Item \in Sources, BaseOf[Item] \in Names
        PROVE  Entry(Item, r) \in Entries
    BY <2>1 DEF Entry, Entries
  <2>. QED BY <1>1, <1>4, <2>1
<1>. QED BY <1>2, <1>3, <1>4, <1>5

LEMMA EntryIs ==
  \A s, r : Entry(s, r).src = s /\ Entry(s, r).base = BaseOf[s] /\ Entry(s, r).vers = r
BY DEF Entry

LEMMA AppendIs ==
  ASSUME NEW S, NEW q \in Seq(S), NEW x \in S, NEW r, r = Append(q, x)
  PROVE  /\ r \in Seq(S) /\ Len(r) = Len(q) + 1 /\ Len(q) \in Nat
         /\ DOMAIN q = 1..Len(q) /\ DOMAIN r = 1..(Len(q) + 1)
         /\ r[Len(q) + 1] = x /\ \A n \in DOMAIN q : r[n] = q[n]
OBVIOUS

\* What has been read of the file at hand once one more read has met version v.
ReadUpTo(v, r) == v \in Readable /\ r = build.read \cup {v} /\ r \in SUBSET Nat

\* What FinishCopy does: a whole copy, and an entry for it unless it is the profile.
Wrote(r, es) ==
  /\ Copying /\ build.pc = "write" /\ \E v : ReadUpTo(v, r)
  /\ dir' = [dir EXCEPT ![Target] = Copy(Item, r)]
  /\ es \in Seq(Entries) /\ Advance(es)
  /\ Item = Profile => es = build.entries
  /\ Item # Profile => Entry(Item, r) \in Entries /\ es = Append(build.entries, Entry(Item, r))

LEMMA FinishIs ==
  ASSUME TypeOK, PosInv, FinishCopy
  PROVE  \E r, es : Wrote(r, es)
<1>1. PICK v \in Readable :
        LET read == build.read \cup {v} IN
          /\ dir' = [dir EXCEPT ![Target] = Copy(Item, read)]
          /\ Advance(IF Item = Profile THEN build.entries
                     ELSE Append(build.entries, Entry(Item, read)))
  BY DEF FinishCopy
<1>. DEFINE r == build.read \cup {v}
<1>2. build.pc = "write" /\ Copying
  BY DEF FinishCopy, Copying
<1>3. /\ build.entries \in Seq(Entries) /\ r \in SUBSET Nat
      /\ Item # Profile => Entry(Item, r) \in Entries
  BY <1>2, ReadableIs DEF TypeOK
<1>4. ReadUpTo(v, r)
  BY <1>3 DEF ReadUpTo
<1>5. CASE Item = Profile
  <2>1. Advance(build.entries)
    BY <1>1, <1>5
  <2>2. Wrote(r, build.entries)
    BY <1>1, <1>2, <1>3, <1>4, <1>5, <2>1 DEF Wrote
  <2>. QED BY <2>2
<1>6. CASE Item # Profile
  <2>1. Advance(Append(build.entries, Entry(Item, r)))
    BY <1>1, <1>6
  <2>2. Append(build.entries, Entry(Item, r)) \in Seq(Entries)
    BY <1>3, <1>6
  <2>3. Wrote(r, Append(build.entries, Entry(Item, r)))
    BY <1>1, <1>2, <1>3, <1>4, <1>6, <2>1, <2>2 DEF Wrote
  <2>. QED BY <2>3
<1>. QED BY <1>5, <1>6

\* What WriteChunk does: a longer beginning of a copy.
Chunked(v, r) ==
  /\ Copying /\ build.pc = "write" /\ ReadUpTo(v, r)
  /\ dir' = [dir EXCEPT ![Target] = Part(Item, r)]
  /\ build' \in Builds /\ build'.pc = "write" /\ build'.i = build.i
  /\ build'.entries = build.entries /\ build'.signals = build.signals
  /\ build'.at = v /\ build'.read = r

LEMMA ChunkIs ==
  ASSUME TypeOK, PosInv, WriteChunk
  PROVE  \E v, r : Chunked(v, r)
<1>1. PICK v \in Readable :
        /\ dir' = [dir EXCEPT ![Target] = Part(Item, build.read \cup {v})]
        /\ build' = [build EXCEPT !.at = v, !.read = @ \cup {v}]
  BY DEF WriteChunk
<1>2. build.pc = "write" /\ Copying /\ build \in Builds
  BY DEF WriteChunk, Copying, TypeOK, Builds
<1>3. v \in Nat /\ build.read \cup {v} \in SUBSET Nat
  BY <1>2, ReadableIs
<1>4. /\ build' \in Builds /\ build'.pc = "write" /\ build'.i = build.i
      /\ build'.entries = build.entries /\ build'.signals = build.signals
      /\ build'.at = v /\ build'.read = build.read \cup {v}
  BY <1>1, <1>2, <1>3 DEF Builds
<1>5. Chunked(v, build.read \cup {v})
  BY <1>1, <1>2, <1>3, <1>4 DEF Chunked, ReadUpTo
<1>. QED BY <1>5

\* The inspector either has a whole manifest or is done.
LEMMA InspectIs ==
  ASSUME InspectManifest, manifest \in Manifests
  PROVE  \/ manifest.state = "whole" /\ reader' = [NotReading EXCEPT !.pc = "list", !.seen = manifest]
         \/ reader' = [NotReading EXCEPT !.result = "manifest_not_found"]
         \/ reader' = [NotReading EXCEPT !.result = "manifest_parse_error"]
<1>1. manifest.state \in {"nothing", "torn", "whole"}
  BY FilesDiffer DEF Manifests
<1>2. ASSUME NEW a, NEW b, NEW c, NEW x, NEW y,
             x \in {"nothing", "torn", "whole"},
             y = CASE x = "nothing" -> a [] x = "torn" -> b [] x = "whole" -> c
      PROVE  y = a \/ y = b \/ (x = "whole" /\ y = c)
  BY <1>2
<1>. QED BY <1>1, <1>2 DEF InspectManifest

LEMMA TypeStep == Inv /\ [Next]_vars => TypeOK' /\ PosInv'
<1>. SUFFICES ASSUME Inv, [Next]_vars PROVE TypeOK' /\ PosInv'
  OBVIOUS
<1>. USE DEF Inv
<1>0. /\ build \in Builds /\ source \in [Sources -> [ver : 1 .. MaxEdits + 1, present : BOOLEAN]]
      /\ edits \in 0 .. MaxEdits /\ dir \in [Names -> Files]
      /\ manifest \in Manifests /\ built \in Manifests \ {Torn} /\ builds \in 0..MaxBuilds
      /\ \A s \in Sources : source[s].ver <= edits + 1
      /\ "runtime_signals.json" \in Names
  BY DEF TypeOK, Builds, BackedInv, Names
<1>. DEFINE Readers == [pc : {"idle", "list"}, seen : Manifests, files : SUBSET Names,
                 listed : BOOLEAN,
                 result : {"none", "ok", "manifest_not_found", "manifest_parse_error"}]
            Old == /\ source' = source /\ edits' = edits /\ dir' = dir /\ manifest' = manifest
                   /\ builds' = builds /\ built' = built /\ reader' = reader
<1>1. ASSUME Old, build' \in Builds, PosInv' PROVE TypeOK' /\ PosInv'
  BY <1>1 DEF TypeOK, Builds
<1>2. CASE Start
  <2>1. PICK signals \in BOOLEAN :
          /\ build' = [NotBuilding EXCEPT !.pc = "open", !.signals = signals]
          /\ dir' = IF signals
                    THEN [dir EXCEPT !["runtime_signals.json"] = Copy("runtime", {builds + 1})]
                    ELSE dir
    BY <1>2 DEF Start
  <2>2. build' \in Builds /\ build'.pc = "open" /\ build'.i = 1
    BY <2>1, NotBuildingIs DEF Builds
  <2>3. Copy("runtime", {builds + 1}) \in Files
    BY <1>0, BundleAssumption DEF Copy, Files
  <2>4. dir' \in [Names -> Files]
    BY <1>0, <2>1, <2>3
  <2>5. PosInv'
    BY <2>2, WorkIs DEF PosInv, Copying, Closing
  <2>6. builds' \in 0..MaxBuilds /\ built' \in Manifests \ {Torn}
    BY <1>0, <1>2, BundleAssumption, FilesDiffer DEF Start, Manifests
  <2>. QED BY <1>2, <2>2, <2>4, <2>5, <2>6 DEF Start, TypeOK, Builds
<1>3. CASE Open
  <2>1. /\ Old /\ build.pc = "open"
        /\ build' = [build EXCEPT !.pc = "create",
                       !.at = IF Item = Profile THEN builds ELSE source[Item].ver]
    BY <1>3 DEF Open
  <2>2. (IF Item = Profile THEN builds ELSE source[Item].ver) \in Nat
    BY <1>0, <2>1, ItemIs, BundleAssumption DEF Copying
  <2>3. build' \in Builds /\ build'.i = build.i /\ build'.pc = "create"
    BY <1>0, <2>1, <2>2 DEF Builds
  <2>4. PosInv'
    BY <2>1, <2>3 DEF PosInv, Copying, Closing
  <2>. QED BY <1>1, <2>1, <2>3, <2>4
<1>4. CASE OpenFails \/ CopyFails
  <2>1. Old /\ Copying /\ GiveUpFile
    BY <1>4 DEF OpenFails, CopyFails, Copying
  <2>. QED BY <1>0, <1>1, <2>1, GiveUpIs
<1>5. CASE Create
  <2>1. /\ build.pc = "create" /\ dir' = [dir EXCEPT ![Target] = Part(Item, {})]
        /\ build' = [build EXCEPT !.pc = "write"] /\ Target \in Names
        /\ Part(Item, {}) \in Files
    BY <1>5, ItemIs DEF Create, Copying, Part, Files
  <2>2. build' \in Builds /\ build'.i = build.i /\ build'.pc = "write"
    BY <1>0, <2>1 DEF Builds
  <2>3. dir' \in [Names -> Files]
    BY <1>0, <2>1
  <2>4. PosInv'
    BY <2>1, <2>2 DEF PosInv, Copying, Closing
  <2>. QED BY <1>5, <2>2, <2>3, <2>4 DEF Create, TypeOK, Builds
<1>6. CASE FinishCopy
  <2>0. PICK r, es : Wrote(r, es)
    BY <1>6, FinishIs
  <2>1. /\ Copying /\ dir' = [dir EXCEPT ![Target] = Copy(Item, r)] /\ r \in SUBSET Nat
        /\ es \in Seq(Entries) /\ Advance(es)
    BY <2>0 DEF Wrote, ReadUpTo
  <2>2. Copy(Item, r) \in Files
    BY <2>1, ItemIs DEF Copy, Files
  <2>3. dir' \in [Names -> Files]
    BY <1>0, <2>1, <2>2
  <2>4. build' \in Builds /\ PosInv'
    BY <1>0, <2>1, AdvanceIs
  <2>. QED BY <1>6, <2>3, <2>4 DEF FinishCopy, TypeOK, Builds
<1>16. CASE WriteChunk
  <2>0. PICK v, r : Chunked(v, r)
    BY <1>16, ChunkIs
  <2>1. /\ Copying /\ dir' = [dir EXCEPT ![Target] = Part(Item, r)] /\ r \in SUBSET Nat
        /\ build' \in Builds /\ build'.pc = "write" /\ build'.i = build.i /\ build.pc = "write"
    BY <2>0 DEF Chunked, ReadUpTo
  <2>2. Part(Item, r) \in Files
    BY <2>1, ItemIs DEF Part, Files
  <2>3. dir' \in [Names -> Files]
    BY <1>0, <2>1, <2>2
  <2>4. PosInv'
    BY <2>1 DEF PosInv, Copying, Closing
  <2>. QED BY <1>16, <2>1, <2>3, <2>4 DEF WriteChunk, TypeOK, Builds
<1>7. CASE TruncateManifest
  <2>1. build.pc = "truncate" /\ build' = [build EXCEPT !.pc = "manifest"] /\ manifest' = Torn
    BY <1>7 DEF TruncateManifest
  <2>2. build' \in Builds /\ build'.i = build.i /\ build'.pc = "manifest" /\ manifest' \in Manifests
    BY <1>0, <2>1 DEF Builds, Manifests
  <2>3. PosInv'
    BY <2>1, <2>2 DEF PosInv, Copying, Closing
  <2>. QED BY <1>7, <2>2, <2>3 DEF TruncateManifest, TypeOK, Builds
<1>8. CASE WriteManifest
  <2>1. /\ build.pc = "manifest" /\ build' = [build EXCEPT !.pc = "return"]
        /\ manifest' = Manifest(build.entries, build.signals)
    BY <1>8 DEF WriteManifest
  <2>2. build' \in Builds /\ build'.i = build.i /\ build'.pc = "return"
    BY <1>0, <2>1 DEF Builds
  <2>3. PosInv'
    BY <2>1, <2>2 DEF PosInv, Copying, Closing
  <2>4. build.entries \in Seq(Entries) /\ build.signals \in BOOLEAN
    BY <1>0 DEF Builds
  <2>5. manifest' \in Manifests
    BY <2>1, <2>4, ManifestIs
  <2>. QED BY <1>8, <2>2, <2>3, <2>5 DEF WriteManifest, TypeOK, Builds
<1>9. CASE ManifestFails \/ Crash
  BY <1>1, <1>9, NotBuildingIs DEF ManifestFails, Crash, PosInv, Copying, Closing
<1>10. CASE Return
  <2>1. built' \in Manifests \ {Torn}
    BY <1>0, <1>10, ManifestIs DEF Return, Builds
  <2>. QED BY <1>10, <2>1, NotBuildingIs DEF Return, TypeOK, Builds, PosInv, Copying, Closing
<1>11. CASE InspectManifest
  <2>1. reader' \in Readers
    <3>1. Nothing \in Manifests
      BY DEF Manifests
    <3>. QED BY <1>0, <1>11, <3>1, InspectIs DEF NotReading
  <2>. QED BY <1>11, <2>1 DEF InspectManifest, TypeOK, Builds, PosInv, Copying, Closing, Item
<1>12. CASE InspectDir \/ InspectDirFails
  <2>1. reader' \in Readers
    <3>1. /\ reader \in Readers /\ Listing \in SUBSET Names
          /\ \E l \in BOOLEAN : \E files \in SUBSET Listing :
               reader' = [reader EXCEPT !.pc = "idle", !.result = "ok", !.listed = l, !.files = files]
      BY <1>0, <1>12 DEF InspectDir, InspectDirFails, Listing, TypeOK
    <3>2. PICK l \in BOOLEAN : \E files \in SUBSET Listing :
            reader' = [reader EXCEPT !.pc = "idle", !.result = "ok", !.listed = l, !.files = files]
      BY <3>1
    <3>3. PICK files \in SUBSET Listing :
            reader' = [reader EXCEPT !.pc = "idle", !.result = "ok", !.listed = l, !.files = files]
      BY <3>2
    <3>4. files \in SUBSET Names
      BY <3>1, <3>3
    <3>. QED BY <3>1, <3>3, <3>4
  <2>. QED BY <1>12, <2>1 DEF InspectDir, InspectDirFails, TypeOK, Builds, PosInv, Copying, Closing
<1>13. CASE EditSource
  <2>1. PICK s \in Sources : source' = [source EXCEPT ![s] = [ver |-> source[s].ver + 1, present |-> TRUE]]
    BY <1>13 DEF EditSource
  <2>2. edits < MaxEdits /\ edits' = edits + 1 /\ MaxEdits \in Nat /\ source[s].ver \in Nat
    BY <1>0, <1>13, BundleAssumption DEF EditSource
  <2>3. source[s].ver + 1 \in 1..(MaxEdits + 1)
    BY <1>0, <2>2
  <2>4. source' \in [Sources -> [ver : 1 .. MaxEdits + 1, present : BOOLEAN]] /\ edits' \in 0..MaxEdits
    BY <1>0, <2>1, <2>2, <2>3
  <2>. QED BY <1>13, <2>4 DEF EditSource, TypeOK, Builds, PosInv, Copying, Closing
<1>14. CASE DeleteSource
  <2>1. PICK s \in Sources : source' = [source EXCEPT ![s].present = FALSE]
    BY <1>14 DEF DeleteSource
  <2>2. edits < MaxEdits /\ edits' = edits + 1 /\ MaxEdits \in Nat
    BY <1>0, <1>14, BundleAssumption DEF DeleteSource
  <2>3. source' \in [Sources -> [ver : 1 .. MaxEdits + 1, present : BOOLEAN]]
    BY <1>0, <2>1
  <2>4. edits' \in 0..MaxEdits
    BY <1>0, <2>2
  <2>. QED BY <1>14, <2>4, <2>3 DEF DeleteSource, TypeOK, Builds, PosInv, Copying, Closing
<1>15. CASE UNCHANGED vars
  BY <1>0, <1>1, <1>15 DEF vars, PosInv, Copying, Closing
<1>. QED BY <1>2, <1>3, <1>4, <1>5, <1>6, <1>7, <1>8, <1>9, <1>10, <1>11, <1>12, <1>13, <1>14, <1>15, <1>16 DEF Next, BuildStep

-----------------------------------------------------------------------------
(* What a step does to the directory, the sources and the build.           *)

\* The inspector and the authors leave the build alone.
Aside ==
  \/ InspectManifest \/ InspectDir \/ InspectDirFails
  \/ EditSource \/ DeleteSource \/ UNCHANGED vars

LEMMA AsideIs ==
  Aside => /\ build' = build /\ builds' = builds /\ built' = built
           /\ dir' = dir /\ manifest' = manifest
BY DEF Aside, InspectManifest, InspectDir, InspectDirFails, EditSource, DeleteSource, vars

LEMMA StepSplit ==
  ASSUME [Next]_vars
  PROVE  \/ Start \/ Open \/ OpenFails \/ CopyFails \/ Create \/ WriteChunk \/ FinishCopy
         \/ TruncateManifest \/ WriteManifest \/ ManifestFails \/ Crash \/ Return \/ Aside
BY DEF Next, BuildStep, Aside

\* What an error does: nothing but move the build on, or end it.
LEMMA FailIs ==
  ASSUME Inv, OpenFails \/ CopyFails
  PROVE  /\ UNCHANGED <<source, edits, dir, manifest, builds, built, reader>>
         /\ Copying
         /\ IsOptional(Item) => Advance(build.entries)
         /\ ~IsOptional(Item) => build' = NotBuilding
<1>1. build \in Builds /\ PosInv
  BY DEF Inv, TypeOK, Builds
<1>2. Copying /\ GiveUpFile /\ UNCHANGED <<source, edits, dir, manifest, builds, built, reader>>
  BY DEF OpenFails, CopyFails, Copying
<1>. QED BY <1>1, <1>2, GiveUpIs

LEMMA Shapes ==
  ASSUME Inv
  PROVE  /\ build \in Builds /\ PosInv /\ build.entries \in Seq(Entries) /\ build.signals \in BOOLEAN
         /\ \A n \in DOMAIN build.entries : build.entries[n] \in Entries
         /\ manifest.state = "whole" =>
              manifest.entries \in Seq(Entries) /\ \A n \in DOMAIN manifest.entries : manifest.entries[n] \in Entries
         /\ \A s \in Sources : source[s].ver \in Nat
         /\ \A e \in Entries :
              e.src \in Sources /\ e.base \in Names /\ e.vers \in SUBSET Nat /\ e.vers # {}
<1>1. build \in Builds /\ PosInv /\ manifest \in Manifests
  BY DEF Inv, TypeOK, Builds
<1>2. build.entries \in Seq(Entries) /\ build.signals \in BOOLEAN
  BY <1>1 DEF Builds
<1>3. ASSUME NEW S, NEW q \in Seq(S) PROVE \A n \in DOMAIN q : q[n] \in S
  BY <1>3
<1>4. manifest.state = "whole" => manifest.entries \in Seq(Entries)
  BY <1>1, FilesDiffer DEF Manifests
<1>5. source \in [Sources -> [ver : 1 .. MaxEdits + 1, present : BOOLEAN]]
  BY DEF Inv, TypeOK
<1>6. \A s \in Sources : source[s].ver \in Nat
  BY <1>5
<1>7. \A e \in Entries :
        e.src \in Sources /\ e.base \in Names /\ e.vers \in SUBSET Nat /\ e.vers # {}
  <2>1. ASSUME NEW V, NEW e \in [src : Sources, base : Names, vers : V]
        PROVE  e.src \in Sources /\ e.base \in Names /\ e.vers \in V
    BY <2>1
  <2>. QED BY <2>1 DEF Entries
<1>8. \A n \in DOMAIN build.entries : build.entries[n] \in Entries
  BY <1>2, <1>3
<1>9. manifest.state = "whole" => \A n \in DOMAIN manifest.entries : manifest.entries[n] \in Entries
  BY <1>3, <1>4
<1>. QED BY <1>1, <1>2, <1>4, <1>6, <1>7, <1>8, <1>9

LEMMA SourceMoves ==
  ASSUME Inv, [Next]_vars
  PROVE  \A s \in Sources : source[s].ver <= source'[s].ver /\ source'[s].ver <= edits' + 1
<1>1. /\ source \in [Sources -> [ver : 1 .. MaxEdits + 1, present : BOOLEAN]] /\ edits \in Nat
      /\ \A s \in Sources : source[s].ver \in Nat /\ source[s].ver <= edits + 1
  BY Shapes DEF Inv, TypeOK, BackedInv
<1>2. CASE EditSource
  <2>1. PICK s \in Sources : source' = [source EXCEPT ![s] = [ver |-> source[s].ver + 1, present |-> TRUE]]
    BY <1>2 DEF EditSource
  <2>2. edits' = edits + 1
    BY <1>2 DEF EditSource
  <2>. QED BY <1>1, <2>1, <2>2
<1>3. CASE DeleteSource
  <2>1. PICK s \in Sources : source' = [source EXCEPT ![s].present = FALSE]
    BY <1>3 DEF DeleteSource
  <2>2. edits' = edits + 1
    BY <1>3 DEF DeleteSource
  <2>. QED BY <1>1, <2>1, <2>2
<1>4. CASE ~(EditSource \/ DeleteSource)
  <2>1. source' = source /\ edits' = edits
    BY <1>4, StepSplit, FailIs DEF Start, Open, Create, WriteChunk, FinishCopy, TruncateManifest,
         WriteManifest, ManifestFails, Crash, Return, Aside, InspectManifest, InspectDir,
         InspectDirFails, vars
  <2>. QED BY <1>1, <2>1
<1>. QED BY <1>2, <1>3, <1>4

\* A name of the directory is left alone, emptied, or filled.
Filled(n) ==
  /\ Copying /\ build.pc = "write" /\ n = Target
  /\ \E v, r : ReadUpTo(v, r) /\ (dir'[n] = Part(Item, r) \/ dir'[n] = Copy(Item, r))
Signalled(n) == n = "runtime_signals.json" /\ \E r : dir'[n] = Copy("runtime", r)

LEMMA DirMoves ==
  ASSUME Inv, [Next]_vars
  PROVE  \A n \in Names :
           \/ dir'[n] = dir[n]
           \/ Create /\ n = Target /\ dir'[n] = Part(Item, {})
           \/ (WriteChunk \/ FinishCopy) /\ Filled(n)
           \/ Start /\ Signalled(n)
<1>1. dir \in [Names -> Files]
  BY DEF Inv, TypeOK
<1>2. CASE Create
  BY <1>1, <1>2 DEF Create
<1>3. CASE WriteChunk \/ FinishCopy
  <2>1. /\ Copying /\ build.pc = "write"
        /\ \E v, r : /\ ReadUpTo(v, r)
                     /\ \/ dir' = [dir EXCEPT ![Target] = Part(Item, r)]
                        \/ dir' = [dir EXCEPT ![Target] = Copy(Item, r)]
    BY <1>3, FinishIs, ChunkIs DEF Inv, Wrote, Chunked
  <2>2. PICK v, r : /\ ReadUpTo(v, r)
                    /\ \/ dir' = [dir EXCEPT ![Target] = Part(Item, r)]
                       \/ dir' = [dir EXCEPT ![Target] = Copy(Item, r)]
    BY <2>1
  <2>3. ASSUME NEW n \in Names PROVE dir'[n] = dir[n] \/ Filled(n)
    <3>1. CASE n = Target
      <4>1. dir'[n] = Part(Item, r) \/ dir'[n] = Copy(Item, r)
        BY <1>1, <2>2, <3>1
      <4>. QED BY <2>1, <2>2, <3>1, <4>1 DEF Filled
    <3>2. CASE n # Target
      BY <1>1, <2>2, <3>2
    <3>. QED BY <3>1, <3>2
  <2>. QED BY <1>3, <2>3
<1>4. CASE Start
  <2>1. dir' = dir \/ dir' = [dir EXCEPT !["runtime_signals.json"] = Copy("runtime", {builds + 1})]
    BY <1>4 DEF Start
  <2>. QED BY <1>1, <1>4, <2>1 DEF Signalled
<1>5. CASE Open \/ OpenFails \/ CopyFails \/ TruncateManifest \/ WriteManifest \/ ManifestFails \/ Crash \/ Return
  BY <1>5, FailIs DEF Open, TruncateManifest, WriteManifest, ManifestFails, Crash, Return
<1>. QED BY <1>2, <1>3, <1>4, <1>5, StepSplit, AsideIs

\* A name that is in the directory never leaves it.
LEMMA NeverGone ==
  ASSUME Inv, [Next]_vars
  PROVE  \A n \in Names : dir[n] # Nothing => dir'[n] # Nothing
BY DirMoves, FilesDiffer DEF Filled, Signalled

-----------------------------------------------------------------------------
(* Each part of the invariant is kept.                                     *)

\* What is backed stays backed, if the copy being written is no older.
LEMMA KeepBacked ==
  ASSUME Inv, [Next]_vars, NEW e \in Entries, Backed(e),
         build.pc = "write" /\ Item = e.src => ReadAfter(e, build)
  PROVE  BackedBy(e, source', dir')
<1>1. /\ e.src \in Sources /\ e.base \in Names /\ e.base = BaseOf[e.src]
      /\ e.vers \in SUBSET Nat /\ e.vers # {}
  BY Shapes DEF Backed, BackedBy
<1>2. \A u \in e.vers : u <= source'[e.src].ver
  <2>1. /\ source[e.src].ver \in Nat /\ source[e.src].ver <= source'[e.src].ver
        /\ source'[e.src].ver <= edits' + 1 /\ \A u \in e.vers : u <= source[e.src].ver
    BY <1>1, SourceMoves, Shapes DEF Backed, BackedBy
  <2>2. source'[e.src].ver \in Nat
    BY <1>1, TypeStep DEF TypeOK
  <2>. QED BY <1>1, <2>1, <2>2
<1>3. dir'[e.base] # Nothing
  BY <1>1, NeverGone DEF Backed, BackedBy
<1>4. SUFFICES ASSUME dir'[e.base].src = e.src, NEW v \in dir'[e.base].vers
               PROVE  \E u \in e.vers : u <= v
  BY <1>1, <1>2, <1>3 DEF BackedBy
<1>5. CASE dir'[e.base] = dir[e.base]
  BY <1>4, <1>5 DEF Backed, BackedBy
<1>6. CASE Filled(e.base)
  <2>1. /\ Copying /\ build.pc = "write"
        /\ \E w, r : ReadUpTo(w, r) /\ (dir'[e.base] = Part(Item, r) \/ dir'[e.base] = Copy(Item, r))
    BY <1>6 DEF Filled
  <2>2. PICK w, r : ReadUpTo(w, r) /\ (dir'[e.base] = Part(Item, r) \/ dir'[e.base] = Copy(Item, r))
    BY <2>1
  <2>3. Item = e.src /\ v \in r
    BY <1>4, <2>2, FilesDiffer
  <2>4. Item # Profile /\ w \in Readable /\ r = build.read \cup {w}
    BY <1>1, <2>2, <2>3, BundleAssumption DEF ReadUpTo
  <2>5. build.at <= w /\ build.at \in Nat /\ w \in Nat
    BY <2>1, <2>4, ReadableIs DEF Inv
  <2>6. ReadAfter(e, build)
    BY <2>1, <2>3
  <2>7. PICK u \in e.vers : u \in Nat
    BY <1>1
  <2>8. u <= build.at /\ \A x \in build.read : u <= x
    BY <2>6 DEF ReadAfter
  <2>9. v \in build.read \/ v = w
    BY <2>3, <2>4
  <2>. QED BY <2>5, <2>7, <2>8, <2>9
<1>7. CASE Signalled(e.base)
  BY <1>1, <1>7, BundleAssumption DEF Signalled
<1>8. CASE dir'[e.base] = Part(Item, {})
  BY <1>4, <1>8, FilesDiffer
<1>. QED BY <1>1, <1>5, <1>6, <1>7, <1>8, DirMoves

\* What a step enters, and what it makes of the manifest.
LEMMA EntriesMove ==
  ASSUME Inv, [Next]_vars
  PROVE  \/ build'.entries = build.entries \/ build'.entries = <<>>
         \/ FinishCopy /\ \E r : Wrote(r, build'.entries) /\ Item # Profile
<1>1. CASE FinishCopy
  <2>1. PICK r, es : Wrote(r, es)
    BY <1>1, FinishIs DEF Inv
  <2>2. build'.entries = es
    BY <2>1, Shapes, AdvanceIs DEF Wrote
  <2>. QED BY <1>1, <2>1, <2>2 DEF Wrote
<1>2. CASE OpenFails \/ CopyFails
  <2>1. CASE IsOptional(Item)
    BY <1>2, <2>1, FailIs, Shapes, AdvanceIs
  <2>2. CASE ~IsOptional(Item)
    BY <1>2, <2>2, FailIs, NotBuildingIs
  <2>. QED BY <2>1, <2>2
<1>3. CASE Start
  <2>1. PICK signals \in BOOLEAN : build' = [NotBuilding EXCEPT !.pc = "open", !.signals = signals]
    BY <1>3 DEF Start
  <2>2. build'.entries = NotBuilding.entries
    BY <2>1, NotBuildingIs DEF Builds
  <2>. QED BY <2>2, NotBuildingIs
<1>4. CASE ManifestFails \/ Crash \/ Return
  BY <1>4, NotBuildingIs DEF ManifestFails, Crash, Return
<1>5. CASE Open \/ Create \/ TruncateManifest \/ WriteManifest
  <2>0. build \in Builds
    BY Shapes
  <2>1. CASE Open
    <3>1. PICK o : build' = [build EXCEPT !.pc = "create", !.at = o]
      BY <2>1 DEF Open
    <3>. QED BY <2>0, <3>1 DEF Builds
  <2>2. CASE Create \/ TruncateManifest \/ WriteManifest
    <3>1. PICK p : build' = [build EXCEPT !.pc = p]
      BY <2>2 DEF Create, TruncateManifest, WriteManifest
    <3>. QED BY <2>0, <3>1 DEF Builds
  <2>. QED BY <1>5, <2>1, <2>2
<1>6. CASE Aside
  BY <1>6, AsideIs
<1>7. CASE WriteChunk
  BY <1>7, ChunkIs DEF Inv, Chunked
<1>. QED BY <1>1, <1>2, <1>3, <1>4, <1>5, <1>6, <1>7, StepSplit

LEMMA ManifestMoves ==
  ASSUME Inv, [Next]_vars
  PROVE  \/ manifest' = manifest
         \/ TruncateManifest /\ manifest' = Torn
         \/ WriteManifest /\ manifest' = Manifest(build.entries, build.signals)
BY StepSplit, AsideIs, FailIs DEF Start, Open, Create, WriteChunk, FinishCopy, TruncateManifest, WriteManifest,
   ManifestFails, Crash, Return

LEMMA BackedStep == Inv /\ [Next]_vars => BackedInv'
<1>. SUFFICES ASSUME Inv, [Next]_vars PROVE BackedInv'
  OBVIOUS
<1>1. \A n \in DOMAIN build.entries : BackedBy(build.entries[n], source', dir')
  <2>. SUFFICES ASSUME NEW n \in DOMAIN build.entries
                PROVE  BackedBy(build.entries[n], source', dir')
    OBVIOUS
  <2>1. build.entries[n] \in Entries /\ Backed(build.entries[n]) /\ build.entries[n].src # Profile
    BY Shapes, BundleAssumption DEF Inv, BackedInv
  <2>2. build.pc = "write" /\ Item = build.entries[n].src => ReadAfter(build.entries[n], build)
    BY <2>1 DEF Inv, FreshInv
  <2>. QED BY <2>1, <2>2, KeepBacked
<1>2. manifest.state = "whole" =>
        \A n \in DOMAIN manifest.entries : BackedBy(manifest.entries[n], source', dir')
  <2>. SUFFICES ASSUME manifest.state = "whole", NEW n \in DOMAIN manifest.entries
                PROVE  BackedBy(manifest.entries[n], source', dir')
    OBVIOUS
  <2>1. manifest.entries[n] \in Entries /\ Backed(manifest.entries[n]) /\ manifest.entries[n].src # Profile
    BY Shapes, BundleAssumption DEF Inv, BackedInv
  <2>2. build.pc = "write" /\ Item = manifest.entries[n].src => ReadAfter(manifest.entries[n], build)
    BY <2>1 DEF Inv, FreshInv
  <2>. QED BY <2>1, <2>2, KeepBacked
<1>3. \A n \in DOMAIN build'.entries : BackedBy(build'.entries[n], source', dir')
  <2>1. CASE build'.entries = build.entries
    BY <1>1, <2>1
  <2>2. CASE build'.entries = <<>>
    BY <2>2
  <2>3. CASE FinishCopy /\ \E r : Wrote(r, build'.entries) /\ Item # Profile
    <3>1. PICK v : Wrote(v, build'.entries) /\ Item # Profile
      BY <2>3
    <3>2. /\ Entry(Item, v) \in Entries /\ build.entries \in Seq(Entries)
          /\ build'.entries = Append(build.entries, Entry(Item, v)) /\ Copying /\ build.pc = "write"
          /\ dir' = [dir EXCEPT ![Target] = Copy(Item, v)] /\ v \in SUBSET Nat
          /\ \E w : ReadUpTo(w, v)
      BY <3>1, Shapes DEF Wrote, ReadUpTo
    <3>3. source' = source /\ dir \in [Names -> Files]
      BY <2>3 DEF FinishCopy, Inv, TypeOK
    <3>4. Target = BaseOf[Item] /\ Target \in Names /\ Item \in Sources
      BY <3>1, <3>2, ItemIs DEF Inv
    <3>5. dir'[Target] = Copy(Item, v)
      BY <3>2, <3>3, <3>4
    <3>9. \A u \in v : u <= source[Item].ver
      <4>1. PICK w : w \in Readable /\ v = build.read \cup {w}
        BY <3>2 DEF ReadUpTo
      <4>2. w <= source[Item].ver /\ build.at \in Nat /\ build.read \in SUBSET Nat
        BY <3>1, <3>2, <4>1, ReadableIs DEF Inv
      <4>3. build.at <= source[Item].ver /\ \A u \in build.read : u <= build.at
        BY <3>1, <3>2 DEF Inv, FreshInv
      <4>4. source[Item].ver \in Nat
        BY <3>4, Shapes
      <4>. QED BY <4>1, <4>2, <4>3, <4>4
    <3>6. BackedBy(Entry(Item, v), source', dir')
      <4>1. \A x \in v : x <= x
        BY <3>2
      <4>. QED BY <3>3, <3>4, <3>5, <3>9, <4>1, EntryIs, FilesDiffer DEF BackedBy
    <3>7. /\ DOMAIN build'.entries = 1..(Len(build.entries) + 1) /\ Len(build.entries) \in Nat
          /\ DOMAIN build.entries = 1..Len(build.entries)
          /\ build'.entries[Len(build.entries) + 1] = Entry(Item, v)
          /\ \A n \in DOMAIN build.entries : build'.entries[n] = build.entries[n]
      BY <3>2, AppendIs
    <3>8. \A n \in DOMAIN build'.entries : n \in DOMAIN build.entries \/ n = Len(build.entries) + 1
      BY <3>7
    <3>. QED BY <1>1, <3>6, <3>7, <3>8
  <2>. QED BY <2>1, <2>2, <2>3, EntriesMove
<1>4. manifest'.state = "whole" =>
        \A n \in DOMAIN manifest'.entries : BackedBy(manifest'.entries[n], source', dir')
  BY <1>1, <1>2, Shapes, ManifestMoves, ManifestIs, FilesDiffer
<1>. QED BY <1>3, <1>4, SourceMoves DEF BackedInv, Backed

\* Where a step leaves the build.
LEMMA BuildMoves ==
  ASSUME Inv, [Next]_vars
  PROVE  \/ build' = build /\ dir' = dir /\ manifest' = manifest /\ built' = built /\ Aside
         \/ build'.pc = "idle" /\ build'.i = 1 /\ build'.entries = <<>> /\ build'.signals = FALSE
            /\ (Return \/ (build.pc # "idle" /\ built' = built))
         \/ Start /\ build'.pc = "open" /\ build'.i = 1 /\ build'.entries = <<>> /\ built' = Nothing
         \/ /\ build.pc # "idle" /\ built' = built /\ build'.signals = build.signals
            /\ \/ Open /\ build'.pc = "create" /\ build'.i = build.i /\ build'.entries = build.entries
               \/ Create /\ build'.pc = "write" /\ build'.i = build.i /\ build'.entries = build.entries
               \/ WriteChunk /\ build'.pc = "write" /\ build'.i = build.i /\ build'.entries = build.entries
               \/ FinishCopy /\ build'.pc \in {"open", "truncate"} /\ build'.i = build.i + 1
               \/ (OpenFails \/ CopyFails) /\ IsOptional(Item) /\ build'.pc \in {"open", "truncate"}
                  /\ build'.i = build.i + 1 /\ build'.entries = build.entries
               \/ TruncateManifest /\ build'.pc = "manifest" /\ build'.i = build.i /\ build'.entries = build.entries
               \/ WriteManifest /\ build'.pc = "return" /\ build'.i = build.i /\ build'.entries = build.entries
<1>0. build \in Builds /\ PosInv /\ build.entries \in Seq(Entries)
  BY Shapes
<1>1. CASE Aside
  BY <1>1, AsideIs
<1>2. CASE ManifestFails \/ Crash \/ Return
  BY <1>2, NotBuildingIs DEF ManifestFails, Crash, Return
<1>3. CASE OpenFails \/ CopyFails
  <2>1. CASE IsOptional(Item)
    BY <1>0, <1>3, <2>1, FailIs, AdvanceIs DEF Copying
  <2>2. CASE ~IsOptional(Item)
    BY <1>3, <2>2, FailIs, NotBuildingIs DEF Copying
  <2>. QED BY <2>1, <2>2
<1>4. CASE Start
  <2>1. PICK signals \in BOOLEAN : build' = [NotBuilding EXCEPT !.pc = "open", !.signals = signals]
    BY <1>4 DEF Start
  <2>2. build'.pc = "open" /\ build'.i = NotBuilding.i /\ build'.entries = NotBuilding.entries
    BY <2>1, NotBuildingIs DEF Builds
  <2>. QED BY <1>4, <2>2, NotBuildingIs DEF Start
<1>5. CASE FinishCopy
  <2>1. PICK v, es : Wrote(v, es)
    BY <1>5, FinishIs DEF Inv
  <2>. QED BY <1>0, <1>5, <2>1, AdvanceIs DEF Wrote, FinishCopy
<1>8. CASE WriteChunk
  BY <1>8, ChunkIs DEF Inv, Chunked, WriteChunk
<1>6. CASE Open
  <2>1. PICK o : build' = [build EXCEPT !.pc = "create", !.at = o]
    BY <1>6 DEF Open
  <2>2. /\ build'.pc = "create" /\ build'.i = build.i /\ build'.entries = build.entries
        /\ build'.signals = build.signals
    BY <1>0, <2>1 DEF Builds
  <2>. QED BY <1>6, <2>2 DEF Open
<1>7. CASE Create \/ TruncateManifest \/ WriteManifest
  <2>1. ASSUME NEW p, build' = [build EXCEPT !.pc = p]
        PROVE  /\ build'.pc = p /\ build'.i = build.i /\ build'.entries = build.entries
               /\ build'.signals = build.signals
    BY <1>0, <2>1 DEF Builds
  <2>. QED BY <1>7, <2>1 DEF Create, TruncateManifest, WriteManifest
<1>. QED BY <1>1, <1>2, <1>3, <1>4, <1>5, <1>6, <1>7, <1>8, StepSplit

\* The file at hand as FreshInv wants it.
FreshWith(b, src, item, m) ==
  /\ b.at <= src[item].ver /\ \A v \in b.read : v <= b.at
  /\ \A n \in DOMAIN b.entries : b.entries[n].src = item => ReadAfter(b.entries[n], b)
  /\ m.state = "whole" =>
       \A n \in DOMAIN m.entries : m.entries[n].src = item => ReadAfter(m.entries[n], b)

LEMMA FreshStep == Inv /\ [Next]_vars => FreshInv'
<1>. SUFFICES ASSUME Inv, [Next]_vars PROVE FreshInv'
  OBVIOUS
<1>0. build \in Builds /\ PosInv
  BY Shapes
<1>4. build'.pc = "open" => build'.read = {}
  <2>1. CASE build' = build
    BY <2>1 DEF Inv, FreshInv
  <2>2. CASE Start
    BY <2>2, NotBuildingIs DEF Start, Builds
  <2>3. CASE FinishCopy
    BY <1>0, <2>3, FinishIs, AdvanceIs DEF Inv, Wrote
  <2>4. CASE (OpenFails \/ CopyFails) /\ IsOptional(Item)
    BY <1>0, <2>4, FailIs, AdvanceIs, Shapes
  <2>. QED BY <2>1, <2>2, <2>3, <2>4, BuildMoves
<1>. SUFFICES ASSUME build'.pc \in {"create", "write"}, Item' # Profile
              PROVE  FreshWith(build', source', Item', manifest')
  BY <1>4 DEF FreshInv, FreshWith, ReadAfter
<1>5. build.pc \in {"create", "write"} /\ Item # Profile => FreshWith(build, source, Item, manifest)
  BY DEF Inv, FreshInv, FreshWith
<1>1. CASE Open
  <2>1. /\ build.pc = "open" /\ UNCHANGED <<source, manifest>>
        /\ build' = [build EXCEPT !.pc = "create",
                       !.at = IF Item = Profile THEN builds ELSE source[Item].ver]
    BY <1>1 DEF Open
  <2>2. /\ build'.i = build.i /\ build'.entries = build.entries
        /\ build'.at = IF Item = Profile THEN builds ELSE source[Item].ver
        /\ build'.read = {}
    BY <1>0, <2>1 DEF Builds, Inv, FreshInv
  <2>3. Item' = Item
    BY <2>2 DEF Item
  <2>4. Item # Profile /\ build'.at = source[Item].ver /\ source[Item].ver \in Nat
    BY <2>1, <2>2, <2>3, ItemIs, Shapes DEF Copying
  <2>5. /\ \A n \in DOMAIN build.entries :
             \A u \in build.entries[n].vers : u <= source[build.entries[n].src].ver
        /\ manifest.state = "whole" => \A n \in DOMAIN manifest.entries :
             \A u \in manifest.entries[n].vers : u <= source[manifest.entries[n].src].ver
    BY DEF Inv, BackedInv, Backed, BackedBy
  <2>. QED BY <2>1, <2>2, <2>3, <2>4, <2>5 DEF FreshWith, ReadAfter
<1>2. CASE Create
  <2>1. /\ build.pc = "create" /\ UNCHANGED <<source, manifest>>
        /\ build' = [build EXCEPT !.pc = "write"]
    BY <1>2 DEF Create
  <2>2. /\ build'.i = build.i /\ build'.entries = build.entries /\ build'.at = build.at
        /\ build'.read = build.read
    BY <1>0, <2>1 DEF Builds
  <2>3. Item' = Item
    BY <2>2 DEF Item
  <2>. QED BY <1>5, <2>1, <2>2, <2>3 DEF FreshWith, ReadAfter
<1>6. CASE WriteChunk
  <2>1. PICK v, r : Chunked(v, r)
    BY <1>6, ChunkIs DEF Inv
  <2>2. /\ build.pc = "write" /\ Copying /\ v \in Readable /\ r = build.read \cup {v}
        /\ build'.i = build.i /\ build'.entries = build.entries
        /\ build'.at = v /\ build'.read = r /\ UNCHANGED <<source, manifest>>
    BY <1>6, <2>1 DEF Chunked, ReadUpTo, WriteChunk
  <2>3. Item' = Item
    BY <2>2 DEF Item
  <2>4. /\ Item # Profile /\ build.at <= v /\ v <= source[Item].ver /\ build.at \in Nat /\ v \in Nat
        /\ build.read \in SUBSET Nat
    BY <2>2, <2>3, ReadableIs DEF Inv
  <2>5. FreshWith(build, source, Item, manifest)
    BY <1>5, <2>2, <2>4
  <2>6. \A e \in Entries : ReadAfter(e, build) => ReadAfter(e, build')
    <3>. SUFFICES ASSUME NEW e \in Entries, ReadAfter(e, build), NEW u \in e.vers
                  PROVE  u <= build'.at /\ \A x \in build'.read : u <= x
      BY DEF ReadAfter
    <3>1. u \in Nat /\ u <= build.at /\ \A x \in build.read : u <= x
      BY Shapes DEF ReadAfter
    <3>. QED BY <2>2, <2>4, <3>1
  <2>7. /\ build'.at <= source'[Item'].ver /\ \A x \in build'.read : x <= build'.at
    BY <2>2, <2>3, <2>4, <2>5 DEF FreshWith
  <2>8. /\ \A n \in DOMAIN build.entries : build.entries[n] \in Entries
        /\ manifest.state = "whole" => \A n \in DOMAIN manifest.entries : manifest.entries[n] \in Entries
    BY Shapes
  <2>. QED BY <2>2, <2>3, <2>5, <2>6, <2>7, <2>8 DEF FreshWith
<1>3. CASE build' = build /\ manifest' = manifest
  <2>1. Item' = Item /\ build.at \in Nat
    BY <1>0, <1>3 DEF Item, Builds
  <2>2. build.pc \in {"create", "write"} /\ Item # Profile /\ Item \in Sources
    BY <1>0, <1>3, <2>1, ItemIs DEF Copying
  <2>3. build.at <= source[Item].ver /\ source[Item].ver <= source'[Item].ver
        /\ source[Item].ver \in Nat /\ source'[Item].ver \in Nat
    <3>1. build.at <= source[Item].ver
      BY <1>5, <2>2 DEF FreshWith
    <3>2. source'[Item].ver \in Nat
      BY <2>2, TypeStep DEF TypeOK
    <3>. QED BY <2>2, <3>1, <3>2, SourceMoves, Shapes
  <2>4. build.at <= source'[Item].ver
    BY <2>1, <2>3
  <2>. QED BY <1>3, <1>5, <2>1, <2>2, <2>4 DEF FreshWith
<1>. QED BY <1>1, <1>2, <1>3, <1>6, BuildMoves

LEMMA ReaderStep == Inv /\ [Next]_vars => ReaderInv'
<1>. SUFFICES ASSUME Inv, [Next]_vars PROVE ReaderInv'
  OBVIOUS
<1>0. "runtime_signals.json" \in Names /\ (HasSignals => HasSignals')
  BY NeverGone DEF Names, HasSignals
<1>1. build'.signals => HasSignals'
  <2>1. CASE Start
    <3>1. PICK signals \in BOOLEAN :
            /\ build' = [NotBuilding EXCEPT !.pc = "open", !.signals = signals]
            /\ signals => dir' = [dir EXCEPT !["runtime_signals.json"] = Copy("runtime", {builds + 1})]
      BY <2>1 DEF Start
    <3>2. build'.signals = signals
      BY <3>1, NotBuildingIs DEF Builds
    <3>3. dir \in [Names -> Files]
      BY DEF Inv, TypeOK
    <3>4. signals => dir'["runtime_signals.json"] = Copy("runtime", {builds + 1})
      BY <1>0, <3>1, <3>3
    <3>. QED BY <3>2, <3>4, FilesDiffer DEF HasSignals
  <2>2. CASE ~Start
    <3>1. build'.signals => build.signals
      BY <2>2, BuildMoves
    <3>. QED BY <1>0, <3>1 DEF Inv, ReaderInv
  <2>. QED BY <2>1, <2>2
<1>2. manifest'.state = "whole" /\ manifest'.signals => HasSignals'
  <2>1. CASE manifest' = manifest
    BY <1>0, <2>1 DEF Inv, ReaderInv
  <2>2. CASE manifest' = Torn
    BY <2>2, FilesDiffer
  <2>3. CASE manifest' = Manifest(build.entries, build.signals)
    BY <1>0, <2>3, Shapes, ManifestIs DEF Inv, ReaderInv
  <2>. QED BY <2>1, <2>2, <2>3, ManifestMoves
<1>3. CASE InspectManifest
  <2>1. manifest \in Manifests /\ dir' = dir
    BY <1>3 DEF InspectManifest, Inv, TypeOK
  <2>2. CASE manifest.state = "whole" /\ reader' = [NotReading EXCEPT !.pc = "list", !.seen = manifest]
    <3>1. reader'.pc = "list" /\ reader'.result = "none" /\ reader'.seen = manifest
      BY <2>2 DEF NotReading
    <3>2. \A n \in DOMAIN manifest.entries : dir[manifest.entries[n].base] # Nothing
      BY <2>2 DEF Inv, BackedInv, Backed, BackedBy
    <3>3. manifest.signals => HasSignals
      BY <2>2 DEF Inv, ReaderInv
    <3>. QED BY <1>0, <1>1, <1>2, <2>1, <2>2, <3>1, <3>2, <3>3 DEF ReaderInv, ReportedPathsAreListed
  <2>3. CASE \/ reader' = [NotReading EXCEPT !.result = "manifest_not_found"]
             \/ reader' = [NotReading EXCEPT !.result = "manifest_parse_error"]
    <3>1. reader'.pc = "idle" /\ reader'.result # "ok"
      BY <2>3 DEF NotReading
    <3>. QED BY <1>1, <1>2, <3>1 DEF ReaderInv, ReportedPathsAreListed
  <2>. QED BY <1>3, <2>1, <2>2, <2>3, InspectIs
<1>4. CASE InspectDir
  <2>1. /\ reader.pc = "list"
        /\ reader' = [reader EXCEPT !.pc = "idle", !.result = "ok", !.listed = TRUE,
                                    !.files = {n \in Names : dir[n].state # "nothing"}]
    BY <1>4 DEF InspectDir, Listing
  <2>2. reader \in [pc : {"idle", "list"}, seen : Manifests, files : SUBSET Names, listed : BOOLEAN,
                 result : {"none", "ok", "manifest_not_found", "manifest_parse_error"}]
    BY DEF Inv, TypeOK
  <2>3. /\ reader'.pc = "idle" /\ reader'.seen = reader.seen
        /\ reader'.files = {n \in Names : dir[n].state # "nothing"}
    BY <2>1, <2>2
  <2>4. \A n \in Names : dir[n] # Nothing => dir[n].state # "nothing"
    <3>1. \A f \in Files : f # Nothing => f.state # "nothing"
      BY FilesDiffer DEF Files
    <3>2. dir \in [Names -> Files]
      BY DEF Inv, TypeOK
    <3>. QED BY <3>1, <3>2
  <2>5. \A n \in DOMAIN reader.seen.entries : reader.seen.entries[n].base \in Names
    <3>1. reader.seen.state = "whole" /\ reader.seen \in Manifests
      BY <2>1, <2>2 DEF Inv, ReaderInv
    <3>2. reader.seen.entries \in Seq(Entries)
      BY <3>1, FilesDiffer DEF Manifests
    <3>3. ASSUME NEW S, NEW q \in Seq(S) PROVE \A n \in DOMAIN q : q[n] \in S
      BY <3>3
    <3>4. \A n \in DOMAIN reader.seen.entries : reader.seen.entries[n] \in Entries
      BY <3>2, <3>3
    <3>. QED BY <3>4, Shapes
  <2>6. \A n \in DOMAIN reader.seen.entries : reader.seen.entries[n].base \in reader'.files
    BY <2>1, <2>3, <2>4, <2>5 DEF Inv, ReaderInv
  <2>7. reader.seen.signals => "runtime_signals.json" \in reader'.files
    BY <1>0, <2>1, <2>3, <2>4 DEF Inv, ReaderInv, HasSignals
  <2>. QED BY <1>1, <1>2, <2>3, <2>6, <2>7 DEF ReaderInv, ReportedPathsAreListed
<1>5. CASE reader' = reader
  <2>1. reader.pc = "list" => \A n \in DOMAIN reader.seen.entries : dir'[reader.seen.entries[n].base] # Nothing
    <3>. SUFFICES ASSUME reader.pc = "list", NEW n \in DOMAIN reader.seen.entries
                  PROVE  dir'[reader.seen.entries[n].base] # Nothing
      OBVIOUS
    <3>1. reader.seen.state = "whole" /\ reader.seen \in Manifests /\ dir[reader.seen.entries[n].base] # Nothing
      BY DEF Inv, ReaderInv, TypeOK
    <3>2. reader.seen.entries \in Seq(Entries)
      BY <3>1, FilesDiffer DEF Manifests
    <3>3. ASSUME NEW S, NEW q \in Seq(S) PROVE \A m \in DOMAIN q : q[m] \in S
      BY <3>3
    <3>4. reader.seen.entries[n] \in Entries
      BY <3>2, <3>3
    <3>. QED BY <3>1, <3>4, Shapes, NeverGone
  <2>. QED BY <1>0, <1>1, <1>2, <1>5, <2>1 DEF Inv, ReaderInv, ReportedPathsAreListed
<1>7. CASE InspectDirFails
  <2>1. PICK files \in SUBSET Listing :
          reader' = [reader EXCEPT !.pc = "idle", !.result = "ok", !.listed = FALSE, !.files = files]
    BY <1>7 DEF InspectDirFails
  <2>2. reader \in [pc : {"idle", "list"}, seen : Manifests, files : SUBSET Names, listed : BOOLEAN,
                 result : {"none", "ok", "manifest_not_found", "manifest_parse_error"}]
    BY DEF Inv, TypeOK
  <2>3. reader'.pc = "idle" /\ ~reader'.listed
    BY <2>1, <2>2
  <2>. QED BY <1>1, <1>2, <2>3 DEF ReaderInv, ReportedPathsAreListed
<1>6. InspectManifest \/ InspectDir \/ InspectDirFails \/ reader' = reader
  BY StepSplit, FailIs DEF Start, Open, Create, WriteChunk, FinishCopy, TruncateManifest, WriteManifest,
     ManifestFails, Crash, Return, Aside, EditSource, DeleteSource, vars
<1>. QED BY <1>3, <1>4, <1>5, <1>6, <1>7

\* The entries after a copy.
LEMMA WroteIs ==
  ASSUME Inv, FinishCopy, NEW v, Wrote(v, build'.entries)
  PROVE  /\ build.i \in 1..Len(Work) /\ build'.i = build.i + 1
         /\ Len(build.entries) \in Nat /\ DOMAIN build.entries = 1..Len(build.entries)
         /\ Item = Profile => build'.entries = build.entries
         /\ Item # Profile =>
              /\ DOMAIN build'.entries = 1..(Len(build.entries) + 1)
              /\ Len(build'.entries) = Len(build.entries) + 1
              /\ build'.entries[Len(build.entries) + 1] = Entry(Item, v)
              /\ \A n \in DOMAIN build.entries : build'.entries[n] = build.entries[n]
<1>1. build \in Builds /\ PosInv /\ build.entries \in Seq(Entries) /\ Copying
  BY Shapes DEF Wrote
<1>2. build.i \in 1..Len(Work) /\ build'.i = build.i + 1
  BY <1>1, AdvanceIs DEF Wrote, PosInv
<1>3. ASSUME NEW S, NEW q \in Seq(S) PROVE Len(q) \in Nat /\ DOMAIN q = 1..Len(q)
  BY <1>3
<1>4. Len(build.entries) \in Nat /\ DOMAIN build.entries = 1..Len(build.entries)
  BY <1>1, <1>3
<1>5. CASE Item = Profile
  BY <1>2, <1>4, <1>5 DEF Wrote
<1>6. CASE Item # Profile
  <2>1. Entry(Item, v) \in Entries /\ build'.entries = Append(build.entries, Entry(Item, v))
    BY <1>6 DEF Wrote
  <2>. QED BY <1>1, <1>2, <1>4, <1>6, <2>1, AppendIs
<1>. QED BY <1>5, <1>6

LEMMA FinishMoves ==
  ASSUME Inv, FinishCopy
  PROVE  \E r : Wrote(r, build'.entries)
<1>1. PICK r, es : Wrote(r, es)
  BY FinishIs DEF Inv
<1>2. build'.entries = es
  BY <1>1, Shapes, AdvanceIs DEF Wrote
<1>. QED BY <1>1, <1>2

\* The core files entered so far, and where the entries come from.
CoreEntered(q, i) ==
  /\ i <= Len(Core) + 2 => Len(q) = IF i = 1 THEN 0 ELSE i - 2
  /\ \A n \in DOMAIN Core : n + 1 < i => n \in DOMAIN q /\ q[n].src = Core[n]
  /\ \A n \in DOMAIN q : \E p \in 1..(i - 1) : Work[p] = q[n].src

LEMMA CoreEnteredIs ==
  ASSUME NEW q, NEW i, i <= Len(Core) + 2 => Len(q) = IF i = 1 THEN 0 ELSE i - 2,
         \A n \in DOMAIN Core : n + 1 < i => n \in DOMAIN q /\ q[n].src = Core[n],
         \A n \in DOMAIN q : \E p \in 1..(i - 1) : Work[p] = q[n].src
  PROVE  CoreEntered(q, i)
BY DEF CoreEntered

LEMMA OrderStep == Inv /\ [Next]_vars => OrderInv'
<1>. SUFFICES ASSUME Inv, [Next]_vars PROVE OrderInv'
  OBVIOUS
<1>1. build'.pc # "idle" => built' = Nothing
  BY BuildMoves DEF Inv, OrderInv
<1>. SUFFICES CoreEntered(build'.entries, build'.i)
  BY <1>1 DEF OrderInv, CoreEntered
<1>2. CoreEntered(build.entries, build.i)
  BY DEF CoreEntered, Inv, OrderInv
<1>3. Len(Core) \in Nat /\ Len(Work) \in Nat /\ DOMAIN Core = 1..Len(Core)
  BY WorkIs
<1>4. CASE build'.i = build.i /\ build'.entries = build.entries
  BY <1>2, <1>4
<1>5. CASE build'.i = 1 /\ build'.entries = <<>>
  <2>1. Len(<<>>) = 0 /\ DOMAIN <<>> = {}
    OBVIOUS
  <2>2. CoreEntered(<<>>, 1)
    BY <1>3, <2>1 DEF CoreEntered
  <2>. QED BY <1>5, <2>2
<1>6. CASE (OpenFails \/ CopyFails) /\ IsOptional(Item) /\ build'.i = build.i + 1 /\ build'.entries = build.entries
  <2>1. build.i \in 1..Len(Work)
    BY <1>6, FailIs, Shapes DEF PosInv
  <2>2. build.i > Len(Core) + 1
    BY <1>6, <2>1, WorkParts DEF Item
  <2>3. \A n \in DOMAIN Core : n + 1 < build.i
    BY <1>3, <2>1, <2>2
  <2>4. ~(build'.i <= Len(Core) + 2)
    BY <1>3, <1>6, <2>1, <2>2
  <2>5. \A p \in 1..(build.i - 1) : p \in 1..(build'.i - 1)
    BY <1>3, <1>6, <2>1
  <2>6. \A n \in DOMAIN Core : n \in DOMAIN build.entries /\ build.entries[n].src = Core[n]
    BY <1>2, <2>3 DEF CoreEntered
  <2>7. \A n \in DOMAIN build.entries : \E p \in 1..(build'.i - 1) : Work[p] = build.entries[n].src
    BY <1>2, <2>5 DEF CoreEntered
  <2>8. CoreEntered(build.entries, build'.i)
    BY <2>4, <2>6, <2>7, CoreEnteredIs
  <2>. QED BY <1>6, <2>8
<1>7. CASE FinishCopy
  <2>0. PICK v : Wrote(v, build'.entries)
    BY <1>7, FinishMoves
  <2>. DEFINE L == Len(build.entries)
  <2>1. build.i \in 1..Len(Work) /\ build'.i = build.i + 1 /\ L \in Nat /\ DOMAIN build.entries = 1..L
    BY <1>7, <2>0, WroteIs
  <2>2. CASE Item = Profile
    <3>1. build'.entries = build.entries /\ build.i = 1
      BY <1>7, <2>0, <2>1, <2>2, WroteIs, WorkParts DEF Item
    <3>2. L = 0
      BY <1>2, <1>3, <3>1 DEF CoreEntered
    <3>3. CoreEntered(build.entries, 2)
      BY <1>3, <2>1, <3>2 DEF CoreEntered
    <3>. QED BY <2>1, <3>1, <3>3
  <2>3. CASE Item # Profile
    <3>1. /\ DOMAIN build'.entries = 1..(L + 1) /\ Len(build'.entries) = L + 1
          /\ build'.entries[L + 1] = Entry(Item, v)
          /\ \A n \in DOMAIN build.entries : build'.entries[n] = build.entries[n]
      BY <1>7, <2>0, <2>3, WroteIs
    <3>2. build.i > 1
      BY <2>1, <2>3, WorkIs DEF Item
    <3>3. build.i + 1 <= Len(Core) + 2 => L = build.i - 2
      BY <1>2, <1>3, <2>1, <3>2 DEF CoreEntered
    <3>4. build'.i <= Len(Core) + 2 =>
            Len(build'.entries) = IF build'.i = 1 THEN 0 ELSE build'.i - 2
      BY <1>3, <2>1, <3>1, <3>3
    <3>5. ASSUME NEW n \in DOMAIN Core, n + 1 < build'.i
          PROVE  n \in DOMAIN build'.entries /\ build'.entries[n].src = Core[n]
      <4>1. CASE n + 1 < build.i
        <5>1. n \in DOMAIN build.entries /\ build.entries[n].src = Core[n]
          BY <1>2, <4>1 DEF CoreEntered
        <5>. QED BY <2>1, <3>1, <5>1
      <4>2. CASE n + 1 = build.i
        <5>1. n \in 1..Len(Core) /\ n = L + 1 /\ build.i \in 2..(Len(Core) + 1) /\ n = build.i - 1
          BY <1>3, <2>1, <3>3, <3>5, <4>2
        <5>2. Item = Core[n]
          BY <5>1, WorkIs DEF Item
        <5>3. n \in DOMAIN build'.entries /\ build'.entries[n] = Entry(Item, v)
          BY <2>1, <3>1, <5>1
        <5>. QED BY <5>2, <5>3, EntryIs
      <4>3. n + 1 < build.i \/ n + 1 = build.i
        BY <1>3, <2>1, <3>5
      <4>. QED BY <4>1, <4>2, <4>3
    <3>6. ASSUME NEW n \in DOMAIN build'.entries
          PROVE  \E p \in 1..(build'.i - 1) : Work[p] = build'.entries[n].src
      <4>1. CASE n = L + 1
        <5>1. build'.entries[n].src = Work[build.i]
          BY <3>1, <4>1, EntryIs DEF Item
        <5>2. build.i \in 1..(build'.i - 1)
          BY <1>3, <2>1
        <5>. QED BY <5>1, <5>2
      <4>2. CASE n \in DOMAIN build.entries
        <5>1. PICK p \in 1..(build.i - 1) : Work[p] = build.entries[n].src
          BY <1>2, <4>2 DEF CoreEntered
        <5>2. p \in 1..(build'.i - 1)
          BY <1>3, <2>1
        <5>. QED BY <3>1, <4>2, <5>1, <5>2
      <4>3. n = L + 1 \/ n \in DOMAIN build.entries
        BY <2>1, <3>1
      <4>. QED BY <4>1, <4>2, <4>3
    <3>7. CoreEntered(build'.entries, build'.i)
      BY <3>4, <3>5, <3>6, CoreEnteredIs
    <3>. QED BY <2>1, <3>7
  <2>. QED BY <2>2, <2>3
<1>. QED BY <1>4, <1>5, <1>6, <1>7, BuildMoves

\* Entry n of a list is the last of its name and is in the directory as entered.
Settled(q, d, n) == LastOf(q, n) /\ OwnsName(q[n]) => d[q[n].base] = Copy(q[n].src, q[n].vers)

LEMMA CopiedStep == Inv /\ [Next]_vars => CopiedInv'
<1>. SUFFICES ASSUME Inv, [Next]_vars, build'.pc # "idle", NEW n \in DOMAIN build'.entries
              PROVE  \/ Settled(build'.entries, dir', n)
                     \/ build'.pc = "write" /\ Target' = build'.entries[n].base /\ ~IsOptional(Item')
  BY DEF CopiedInv, Settled, LastOf, OwnsName, IsOptional
<1>1. ASSUME build.pc # "idle", NEW m \in DOMAIN build.entries
      PROVE  \/ Settled(build.entries, dir, m)
             \/ build.pc = "write" /\ Target = build.entries[m].base /\ ~IsOptional(Item)
  BY <1>1 DEF Inv, CopiedInv, Settled
<1>2. CASE Aside
  <2>1. Target' = Target /\ Item' = Item
    BY <1>2, AsideIs DEF Target, Item
  <2>. QED BY <1>1, <1>2, <2>1, AsideIs
<1>3. CASE build'.entries = <<>>
  BY <1>3
<1>4. CASE (Open \/ TruncateManifest \/ WriteManifest) /\ build'.entries = build.entries
  <2>1. build.pc # "idle" /\ build.pc # "write" /\ dir' = dir
    BY <1>4 DEF Open, TruncateManifest, WriteManifest
  <2>. QED BY <1>1, <1>4, <2>1
<1>5. CASE (OpenFails \/ CopyFails) /\ IsOptional(Item) /\ build'.entries = build.entries
  <2>1. dir' = dir /\ build.pc # "idle"
    BY <1>5, FailIs DEF Copying
  <2>. QED BY <1>1, <1>5, <2>1
<1>6. CASE (Create \/ WriteChunk) /\ build'.pc = "write" /\ build'.i = build.i /\ build'.entries = build.entries
  <2>1. /\ build.pc \in {"create", "write"} /\ Copying /\ dir \in [Names -> Files]
        /\ \E f : dir' = [dir EXCEPT ![Target] = f]
    BY <1>6 DEF Create, WriteChunk, Copying, Inv, TypeOK
  <2>3. Target' = Target /\ Item' = Item /\ build.entries[n] \in Entries /\ build.entries[n].base \in Names
    BY <1>6, Shapes DEF Target, Item
  <2>4. CASE build.entries[n].base # Target
    <3>1. dir'[build.entries[n].base] = dir[build.entries[n].base]
      BY <2>1, <2>3, <2>4
    <3>2. Settled(build.entries, dir, n)
      BY <1>1, <1>6, <2>1, <2>4
    <3>. QED BY <1>6, <3>1, <3>2 DEF Settled
  <2>5. CASE build.entries[n].base = Target /\ ~IsOptional(Item)
    BY <1>6, <2>3, <2>5
  <2>6. CASE build.entries[n].base = Target /\ IsOptional(Item)
    <3>1. build.i \in 1..Len(Work) /\ Len(Work) \in Nat
      BY <2>1, Shapes, WorkIs DEF PosInv
    <3>2. PICK p \in 1..(build.i - 1) : Work[p] = build.entries[n].src
      BY <1>6 DEF Inv, OrderInv
    <3>3. p \in 1..Len(Work) /\ p < build.i
      BY <3>1, <3>2
    <3>4. build.entries[n].src # Item
      BY <2>6, <3>1, <3>2, <3>3, WorkParts DEF Item
    <3>5. Item # Profile
      BY <2>6, <3>1, WorkParts, BundleAssumption DEF IsOptional, Sources, Item
    <3>6. BaseOf[Item] = build.entries[n].base
      BY <2>6, <3>5 DEF Target
    <3>7. ~OwnsName(build.entries[n])
      BY <2>6, <3>4, <3>6 DEF OwnsName, IsOptional
    <3>. QED BY <1>6, <3>7 DEF Settled
  <2>. QED BY <2>4, <2>5, <2>6
<1>7. CASE FinishCopy
  <2>0. PICK v : Wrote(v, build'.entries)
    BY <1>7, FinishMoves
  <2>1. /\ build.pc = "write" /\ Copying /\ dir' = [dir EXCEPT ![Target] = Copy(Item, v)]
        /\ dir \in [Names -> Files] /\ Target \in Names
    BY <2>0, Shapes, ItemIs DEF Wrote, Inv, TypeOK
  <2>2. /\ \A m \in DOMAIN build.entries : build.entries[m] \in Entries /\ build.entries[m].base \in Names
                /\ build.entries[m].base # "profile.json"
    <3>1. \A m \in DOMAIN build.entries : build.entries[m] \in Entries /\ build.entries[m].base = BaseOf[build.entries[m].src]
      BY Shapes DEF Inv, BackedInv, Backed, BackedBy
    <3>. QED BY <3>1, Shapes, BundleAssumption
  <2>3. ASSUME NEW m \in DOMAIN build.entries, build.entries[m].base # Target
        PROVE  Settled(build.entries, dir', m)
    <3>1. dir'[build.entries[m].base] = dir[build.entries[m].base]
      BY <2>1, <2>2, <2>3
    <3>. QED BY <1>1, <2>1, <2>3, <3>1 DEF Settled
  <2>4. CASE Item = Profile
    <3>1. build'.entries = build.entries /\ Target = "profile.json"
      BY <1>7, <2>0, <2>4, WroteIs DEF Target
    <3>. QED BY <2>2, <2>3, <3>1
  <2>5. CASE Item # Profile
    <3>. DEFINE L == Len(build.entries)
    <3>1. /\ L \in Nat /\ DOMAIN build.entries = 1..L
          /\ DOMAIN build'.entries = 1..(L + 1)
          /\ build'.entries[L + 1] = Entry(Item, v)
          /\ \A m \in DOMAIN build.entries : build'.entries[m] = build.entries[m]
      BY <1>7, <2>0, <2>5, WroteIs
    <3>2. Target = BaseOf[Item] /\ dir'[Target] = Copy(Item, v)
      BY <2>1, <2>5 DEF Target
    <3>3. CASE n = L + 1
      BY <3>1, <3>2, <3>3, EntryIs DEF Settled
    <3>4. CASE n \in DOMAIN build.entries
      <4>1. build'.entries[n] = build.entries[n] /\ n < L + 1 /\ L + 1 \in DOMAIN build'.entries
        BY <3>1, <3>4
      <4>2. LastOf(build'.entries, n) => build.entries[n].base # Target /\ LastOf(build.entries, n)
        <5>. SUFFICES ASSUME LastOf(build'.entries, n)
                      PROVE  build.entries[n].base # Target /\ LastOf(build.entries, n)
          OBVIOUS
        <5>1. build'.entries[L + 1].base # build'.entries[n].base
          BY <4>1 DEF LastOf
        <5>2. \A j \in DOMAIN build.entries : j \in DOMAIN build'.entries
          BY <3>1
        <5>3. LastOf(build.entries, n)
          BY <3>1, <3>4, <5>2 DEF LastOf
        <5>. QED BY <3>1, <3>2, <4>1, <5>1, <5>3, EntryIs
      <4>. QED BY <2>3, <3>4, <4>1, <4>2 DEF Settled
    <3>5. n = L + 1 \/ n \in DOMAIN build.entries
      BY <3>1
    <3>. QED BY <3>3, <3>4, <3>5
  <2>. QED BY <2>4, <2>5
<1>. QED BY <1>2, <1>3, <1>4, <1>5, <1>6, <1>7, BuildMoves

LEMMA ReturnStep == Inv /\ [Next]_vars => ReturnInv'
<1>. SUFFICES ASSUME Inv, [Next]_vars, build'.pc = "return"
              PROVE  manifest' = Manifest(build'.entries, build'.signals)
  BY DEF ReturnInv
<1>1. CASE WriteManifest
  <2>1. manifest' = Manifest(build.entries, build.signals) /\ build' = [build EXCEPT !.pc = "return"]
    BY <1>1 DEF WriteManifest
  <2>2. build'.entries = build.entries /\ build'.signals = build.signals
    BY <2>1, Shapes DEF Builds
  <2>. QED BY <2>1, <2>2
<1>2. CASE build' = build /\ manifest' = manifest
  BY <1>2 DEF Inv, ReturnInv
<1>. QED BY <1>1, <1>2, BuildMoves

LEMMA AcknowledgedStep == Inv /\ [Next]_vars => AcknowledgedIsComplete'
<1>. SUFFICES ASSUME Inv, [Next]_vars, built' # Nothing, build'.pc = "idle"
              PROVE  /\ manifest' = built'
                     /\ \A n \in DOMAIN Core : n \in DOMAIN built'.entries /\ built'.entries[n].src = Core[n]
                     /\ \A n \in DOMAIN built'.entries : Settled(built'.entries, dir', n)
  BY DEF AcknowledgedIsComplete, Settled, LastOf, OwnsName
<1>1. CASE Return
  <2>1. /\ build.pc = "return" /\ built' = Manifest(build.entries, build.signals)
        /\ manifest' = manifest /\ dir' = dir
    BY <1>1 DEF Return
  <2>2. built'.entries = build.entries
    BY <2>1, Shapes, ManifestIs
  <2>3. manifest' = built'
    BY <2>1 DEF Inv, ReturnInv
  <2>4. \A n \in DOMAIN Core : n + 1 < build.i
    BY <2>1, Shapes, WorkIs DEF PosInv, Closing
  <2>5. \A n \in DOMAIN Core : n \in DOMAIN build.entries /\ build.entries[n].src = Core[n]
    BY <2>4 DEF Inv, OrderInv
  <2>6. \A n \in DOMAIN build.entries : Settled(build.entries, dir, n)
    BY <2>1 DEF Inv, CopiedInv, Settled
  <2>. QED BY <2>1, <2>2, <2>3, <2>5, <2>6
<1>2. CASE build.pc # "idle" /\ built' = built
  BY <1>2 DEF Inv, OrderInv
<1>3. CASE build' = build /\ dir' = dir /\ manifest' = manifest /\ built' = built
  BY <1>3 DEF Inv, AcknowledgedIsComplete, Settled
<1>. QED BY <1>1, <1>2, <1>3, BuildMoves

-----------------------------------------------------------------------------
(* The theorems.                                                           *)

LEMMA InitInv == Init => Inv
<1>. SUFFICES ASSUME Init PROVE Inv
  OBVIOUS
<1>. USE DEF Init
<1>1. NotBuilding \in Builds /\ NotBuilding.pc = "idle" /\ NotBuilding.i = 1
      /\ NotBuilding.entries = <<>> /\ NotBuilding.signals = FALSE
  BY NotBuildingIs
<1>2. NotReading.pc = "idle" /\ NotReading.result = "none"
  BY DEF NotReading
<1>3. Nothing \in Files /\ Nothing \in Manifests \ {Torn} /\ Nothing.state # "whole"
  <2>1. Nothing \in Files /\ Nothing \in Manifests
    BY Zenon DEF Files, Manifests
  <2>. QED BY <2>1, FilesDiffer
<1>4. MaxEdits \in Nat /\ MaxBuilds \in Nat
  BY BundleAssumption
<1>5. NotReading \in [pc : {"idle", "list"}, seen : Manifests, files : SUBSET Names, listed : BOOLEAN,
                 result : {"none", "ok", "manifest_not_found", "manifest_parse_error"}]
  BY <1>3 DEF NotReading
<1>6. source \in [Sources -> [ver : 1 .. MaxEdits + 1, present : BOOLEAN]] /\ \A s \in Sources : source[s].ver = 1
  BY <1>4
<1>7. dir \in [Names -> Files]
  BY <1>3
<1>8. TypeOK
  BY <1>1, <1>3, <1>4, <1>5, <1>6, <1>7 DEF TypeOK, Builds
<1>9. PosInv /\ FreshInv /\ CopiedInv /\ ReturnInv /\ AcknowledgedIsComplete
  BY <1>1 DEF PosInv, Copying, Closing, FreshInv, CopiedInv, ReturnInv, AcknowledgedIsComplete
<1>10. BackedInv /\ ReaderInv
  BY <1>1, <1>2, <1>3, <1>6 DEF BackedInv, ReaderInv, ReportedPathsAreListed
<1>11. Len(<<>>) = 0 /\ DOMAIN <<>> = {}
  OBVIOUS
<1>12. OrderInv
  BY <1>1, <1>11, WorkIs DEF OrderInv
<1>. QED BY <1>8, <1>9, <1>10, <1>12 DEF Inv

\* The invariant of the builds, whatever is edited, fails or is killed.
THEOREM BundleInvariant == Spec => []Inv
<1>1. Inv /\ [Next]_vars => Inv'
  BY TypeStep, BackedStep, FreshStep, ReaderStep, OrderStep, CopiedStep, ReturnStep, AcknowledgedStep DEF Inv
<1>. QED BY InitInv, <1>1, PTL DEF Spec

\* Every variable of the builds and of the inspector keeps its type.
THEOREM TypeCorrect == Spec => []TypeOK
<1>1. Inv => TypeOK
  BY DEF Inv
<1>. QED BY <1>1, BundleInvariant, PTL

\* What Build reported as built is in the directory, for profiles of any length
\* and whatever earlier builds left there.
THEOREM AcknowledgedStaysComplete == Spec => []AcknowledgedIsComplete
<1>1. Inv => AcknowledgedIsComplete
  BY DEF Inv
<1>. QED BY <1>1, BundleInvariant, PTL

\* bundle.json never names a file that is not there or is older than it says,
\* at any moment of any build.
THEOREM ManifestStaysBehind == Spec => []ManifestNeverRunsAhead
<1>1. Inv => ManifestNeverRunsAhead
  BY DEF Inv, BackedInv, Backed, BackedBy, ManifestNeverRunsAhead
<1>. QED BY <1>1, BundleInvariant, PTL

\* The two reads of awareness_bundle_inspect agree, although a build may run in
\* between.
THEOREM ReportsAreListed == Spec => []ReportedPathsAreListed
<1>1. Inv => ReportedPathsAreListed
  BY DEF Inv, ReaderInv
<1>. QED BY <1>1, BundleInvariant, PTL

=============================================================================
