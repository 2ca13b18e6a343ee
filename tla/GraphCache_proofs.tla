-------------------------- MODULE GraphCache_proofs --------------------------
(***************************************************************************)
(* Proofs about GraphCache: for any directories, profiles and places, any  *)
(* number of builders and builds, graphs of any size.                      *)
(*                                                                         *)
(* The invariant has three parts: what each builder has laid into its file *)
(* and whom it shares it with; what the walk has passed; and, while a call *)
(* is under way, that a place never seen flawed holds the graph being read *)
(* or one that is read already.                                            *)
(***************************************************************************)
EXTENDS GraphCache, TLAPS

-----------------------------------------------------------------------------
(* The invariant                                                           *)

FindTypes ==
  /\ config \in [Dirs -> Contents] /\ edits \in 0..MaxEdits
  /\ pc \in [Procs -> Steps]
  /\ \A b \in Builders : pc[b] \in {"idle", "open", "write"}
  /\ dir \in Dirs /\ direct \in BOOLEAN
  /\ profile \in Profiles \cup {"none", "failed"}
  /\ during \in [Dirs -> SUBSET Contents]

Known(s) == \A i \in DOMAIN s : s[i][1] \in DOMAIN sizes

FileTypes ==
  /\ sizes \in Seq(Sizes)
  /\ there \subseteq Places
  /\ file \in [Places -> Seq(Blocks)]
  /\ \A p \in Places : \A i \in DOMAIN file[p] :
       /\ file[p][i][1] \in DOMAIN sizes
       /\ file[p][i][2] = i /\ i <= sizes[file[p][i][1]]
  /\ building \in [Builders -> [n : Nat, place : Places \cup {NoPlace}, wrote : Nat]]
  /\ clash \subseteq Builders
  /\ owner \in [Places -> 0..Len(sizes)]
  /\ \A b \in Builders : pc[b] \in {"open", "write"} =>
       /\ building[b].n \in DOMAIN sizes /\ building[b].place \in Places
       /\ building[b].wrote <= sizes[building[b].n]

ReadTypes ==
  /\ role \in {"cli", "server"} /\ tool \in {"cli", "query", "context"}
  /\ buf \in Seq(Blocks) /\ cand \in Nat \ {0}
  /\ pc[Reader] \in {"ready", "look", "read"} => profile \in Profiles
  /\ pc[Reader] = "read" => cand \in DOMAIN MyCandidates /\ MyCandidates[cand] \in there
  /\ answer \in [kind : {"none", "graph", "torn", "absent", "binary"}, at : Nat,
                 graph : Seq(Blocks)]
  /\ whole \in [Places -> SUBSET (DOMAIN sizes)] /\ flawed \subseteq Places
  /\ Known(buf) /\ Known(answer.graph)
  /\ answer.kind # "none" => profile \in Profiles
  /\ answer.kind = "graph" => answer.at \in DOMAIN MyCandidates

\* A builder in the middle of its write(2).
Amid(b) == Writing(b) /\ building[b].wrote \in 1..(sizes[building[b].n] - 1)

\* What a builder has laid is there, and nothing else if it never shared.
Laid(b) ==
  /\ pc[b] = "open" => building[b].wrote = 0
  /\ Amid(b) => Len(file[building[b].place]) >= building[b].wrote
  /\ Writing(b) /\ b \notin clash =>
       /\ building[b].place \in there
       /\ Len(file[building[b].place]) = building[b].wrote
       /\ \A i \in 1..building[b].wrote : file[building[b].place][i] = <<building[b].n, i>>

\* Two builders with one place: at most one amid its write, both in the clash.
Apart(b, c) ==
  (b # c /\ Writing(b) /\ Writing(c) /\ building[b].place = building[c].place) =>
    ~(Amid(b) /\ Amid(c)) /\ b \in clash /\ c \in clash

Kept(p) ==
  owner[p] # 0 => /\ p \in there /\ file[p] = Data(owner[p])
                  /\ \A b \in Builders : Writing(b) => building[b].place # p

FileInv ==
  /\ FileTypes
  /\ \A b \in Builders : Laid(b)
  /\ \A b, c \in Builders : Apart(b, c)
  /\ \A p \in Places : Kept(p)

\* What the walk passed, and how it came to load.
WalkInv ==
  pc[Reader] \in {"walk", "load"} =>
    /\ \A d \in Dirs : config[d] \in during[d]
    /\ \A d \in 1..(dir - 1) : direct \/ ("missing" \in during[d] /\ d \notin GitRoots)
    /\ pc[Reader] = "load" => direct \/ during[dir] # {"missing"}
    /\ profile = "none"

Calling == pc[Reader] \in {"look", "read"}

Begins(s, t) == Len(s) <= Len(t) /\ \A i \in 1..Len(s) : s[i] = t[i]

\* The graph being read from a place that was never seen flawed.
Reading(p) ==
  p \notin flawed => \E n \in whole[p] : /\ Begins(buf, Data(n))
                                         /\ \/ file[p] = Data(n)
                                            \/ buf = Data(n) /\ Len(file[p]) <= Len(buf)

\* The history has the moment there is now.
Noted == \A p \in Places : /\ WholeIn(p) \subseteq whole[p]
                           /\ WholeIn(p) = {} => p \in flawed

CallInv ==
  Calling =>
    /\ Noted
    /\ \A i \in 1..(cand - 1) : i \in DOMAIN MyCandidates => MyCandidates[i] \in flawed
    /\ pc[Reader] = "read" => Reading(MyCandidates[cand])

Untold == pc[Reader] \in {"walk", "load", "look", "read"} => answer.kind = "none"

AnswerInv == ReadTypes /\ CallInv /\ Untold /\ AnswersAreAccountable

Inv == FindTypes /\ FileInv /\ WalkInv /\ AnswerInv

-----------------------------------------------------------------------------
(* Facts                                                                   *)

LEMMA Types == FindTypes /\ ReadTypes /\ FileTypes => TypeOK
BY DEF FindTypes, ReadTypes, FileTypes, TypeOK

LEMMA ReaderIsNoBuilder == Reader \in Procs /\ Builders \subseteq Procs /\ Reader \notin Builders
BY GraphAssumption DEF Procs

\* A graph has at least one block, and the blocks of its own build.
LEMMA DataIs ==
  ASSUME FileTypes, NEW n \in DOMAIN sizes
  PROVE  /\ sizes[n] \in Nat \ {0} /\ n \in Nat \ {0}
         /\ Data(n) \in Seq(Blocks) /\ Len(Data(n)) = sizes[n]
         /\ \A i \in 1..sizes[n] : Data(n)[i] = <<n, i>>
<1>1. sizes[n] \in Nat \ {0} /\ n \in Nat \ {0}
  <2>1. sizes \in Seq(Sizes) /\ Sizes \subseteq Nat \ {0}
    BY GraphAssumption DEF FileTypes
  <2>2. n \in 1..Len(sizes) /\ Len(sizes) \in Nat
    BY <2>1
  <2>3. sizes[n] \in Sizes
    BY <2>1, <2>2
  <2>4. sizes[n] \in Nat \ {0}
    BY <2>1, <2>3
  <2>5. n \in Nat \ {0}
    BY <2>2
  <2>6. QED
    BY <2>4, <2>5
<1>2. Data(n) \in Seq(Blocks) /\ Len(Data(n)) = sizes[n]
  <2>1. \A i \in 1..sizes[n] : <<n, i>> \in Blocks
    BY <1>1 DEF Blocks
  <2>2. Data(n) \in [1..sizes[n] -> Blocks]
    BY <2>1 DEF Data
  <2>3. QED
    BY <1>1, <2>2
<1>3. QED
  BY <1>1, <1>2 DEF Data

\* Two sequences that agree everywhere are one.
LEMMA SameBlocks ==
  ASSUME NEW s \in Seq(Blocks), NEW t \in Seq(Blocks), Len(s) = Len(t),
         \A i \in 1..Len(s) : s[i] = t[i]
  PROVE  s = t
OBVIOUS

\* Places are looked up in paths the profile gives.
LEMMA CandidatesArePlaces ==
  ASSUME NEW t \in {"cli", "query", "context"}, NEW prof \in Profiles
  PROVE  Candidates(t, prof) \in Seq(Places)
<1>1. CacheGraph[prof] \in Places \cup {NoPlace} /\ RootGraph[prof] \in Places \cup {NoPlace}
      /\ SlashGraph \in Places
  BY GraphAssumption
<1>2. IfPlace(CacheGraph[prof]) \in Seq(Places) /\ IfPlace(RootGraph[prof]) \in Seq(Places)
  BY <1>1 DEF IfPlace
<1>3. <<IF RootGraph[prof] = NoPlace THEN SlashGraph ELSE RootGraph[prof]>> \in Seq(Places)
  BY <1>1
<1>4. CASE t = "cli"
  BY <1>2, <1>3, <1>4 DEF Candidates
<1>5. CASE t = "query"
  BY <1>2, <1>5 DEF Candidates
<1>6. CASE t = "context"
  BY <1>2, <1>6 DEF Candidates
<1>7. QED
  BY <1>4, <1>5, <1>6

-----------------------------------------------------------------------------
(* Who changes what                                                        *)

LEMMA BuilderChanges ==
  ASSUME FindTypes, NEW b \in Builders, BuilderStep(b)
  PROVE  /\ UNCHANGED <<projects, finding, reading>>
         /\ pc' \in [Procs -> Steps] /\ pc'[Reader] = pc[Reader]
         /\ \A c \in Builders : /\ pc'[c] \in {"idle", "open", "write"}
                                /\ c # b => pc'[c] = pc[c]
BY ReaderIsNoBuilder DEF BuilderStep, Build, Open, Write, Return, Abandon, Goto, FindTypes, Steps

ReaderOrEdit == ReaderStep \/ \E d \in Dirs, c \in Contents : Edit(d, c)

LEMMA ReaderChanges ==
  ASSUME FindTypes, ReaderOrEdit \/ UNCHANGED vars
  PROVE  /\ UNCHANGED files
         /\ pc' \in [Procs -> Steps]
         /\ \A b \in Builders : pc'[b] = pc[b]
<1> USE DEF FindTypes
<1>1. CASE UNCHANGED vars
  BY <1>1 DEF vars
<1>2. CASE \E d \in Dirs, c \in Contents : Edit(d, c)
  BY <1>2 DEF Edit
<1>3. CASE ReaderStep
  <2>1. UNCHANGED files
    BY <1>3 DEF ReaderStep, StartReader, Discover, LoadFromDir, Call, Look, Read, Stop
  <2>2. pc' = pc \/ \E l \in Steps : pc' = [pc EXCEPT ![Reader] = l]
    BY <1>3 DEF ReaderStep, StartReader, Discover, LoadFromDir, Call, Look, Read, Stop, Goto,
                NoProfile, Found, Climb, Answer, Steps
  <2>3. QED
    BY <2>1, <2>2, ReaderIsNoBuilder
<1>4. QED
  BY <1>1, <1>2, <1>3 DEF ReaderOrEdit

LEMMA ReaderKeepsFileInv ==
  ASSUME FindTypes, FileInv, ReaderOrEdit \/ UNCHANGED vars
  PROVE  FileInv'
<1>1. /\ UNCHANGED <<sizes, there, file, building, clash, owner>>
      /\ \A b \in Builders : pc'[b] = pc[b]
  BY ReaderChanges DEF files
<1>2. FileTypes'
  BY <1>1 DEF FileInv, FileTypes
<1>3. \A b \in Builders : Laid(b)' /\ \A c \in Builders : Apart(b, c)'
  BY <1>1 DEF FileInv, Laid, Apart, Amid, Writing
<1>4. \A p \in Places : Kept(p)'
  BY <1>1 DEF FileInv, Kept, Writing, Data
<1>5. QED
  BY <1>2, <1>3, <1>4 DEF FileInv

-----------------------------------------------------------------------------
(* What builders lay                                                       *)

LEMMA BuildLays ==
  ASSUME FindTypes, FileInv, NEW b \in Builders, NEW prof, NEW size \in Sizes, NEW out \in Places,
         Build(b, prof, size, out)
  PROVE  FileInv'
<1> USE DEF FileInv
<1>1. /\ sizes' = Append(sizes, size) /\ UNCHANGED <<there, file, clash, owner>>
      /\ building' = [building EXCEPT ![b] = [n |-> Len(sizes) + 1, place |-> out, wrote |-> 0]]
      /\ pc[b] = "idle" /\ pc' = [pc EXCEPT ![b] = "open"]
  BY DEF Build, Goto
<1>2. /\ sizes \in Seq(Sizes) /\ sizes' \in Seq(Sizes) /\ Len(sizes') = Len(sizes) + 1
      /\ Len(sizes) \in Nat
      /\ \A n \in DOMAIN sizes : n \in DOMAIN sizes' /\ sizes'[n] = sizes[n]
  BY <1>1 DEF FileTypes
<1>3. /\ pc'[b] = "open" /\ \A c \in Builders : c # b => pc'[c] = pc[c]
      /\ building'[b] = [n |-> Len(sizes) + 1, place |-> out, wrote |-> 0]
      /\ \A c \in Builders : c # b => building'[c] = building[c]
  BY <1>1, ReaderIsNoBuilder DEF FindTypes, FileTypes
<1>4. FileTypes'
  <2>1. building' \in [Builders -> [n : Nat, place : Places \cup {NoPlace}, wrote : Nat]]
    BY <1>1, <1>2 DEF FileTypes
  <2>2. sizes'[Len(sizes) + 1] \in Nat \ {0} /\ Len(sizes) + 1 \in DOMAIN sizes'
    BY <1>1, <1>2, GraphAssumption
  <2>3. \A c \in Builders : pc'[c] \in {"open", "write"} =>
          /\ building'[c].n \in DOMAIN sizes' /\ building'[c].place \in Places
          /\ building'[c].wrote <= sizes'[building'[c].n]
    <3>1. SUFFICES ASSUME NEW c \in Builders, pc'[c] \in {"open", "write"}
                   PROVE  /\ building'[c].n \in DOMAIN sizes' /\ building'[c].place \in Places
                          /\ building'[c].wrote <= sizes'[building'[c].n]
      OBVIOUS
    <3>2. CASE c = b
      BY <1>3, <2>2, <3>2
    <3>3. CASE c # b
      <4>1. pc[c] \in {"open", "write"} /\ building'[c] = building[c]
        BY <1>3, <3>1, <3>3
      <4>2. /\ building[c].n \in DOMAIN sizes /\ building[c].place \in Places
            /\ building[c].wrote <= sizes[building[c].n]
        BY <4>1 DEF FileTypes
      <4>3. QED
        BY <1>2, <4>1, <4>2
    <3>4. QED
      BY <3>2, <3>3
  <2>4. \A p \in Places : \A i \in DOMAIN file[p] :
          /\ file[p][i][1] \in DOMAIN sizes'
          /\ file[p][i][2] = i /\ i <= sizes'[file[p][i][1]]
    BY <1>2 DEF FileTypes
  <2>5. owner \in [Places -> 0..Len(sizes')]
    BY <1>2 DEF FileTypes
  <2>6. QED
    BY <1>1, <1>2, <2>1, <2>3, <2>4, <2>5 DEF FileTypes
<1>5. ASSUME NEW c \in Builders
      PROVE  Laid(c)' /\ (Writing(c)' => c # b /\ Writing(c)) /\ (Amid(c)' => Amid(c))
  <2>1. CASE c = b
    BY <1>3, <2>1 DEF Laid, Amid, Writing
  <2>2. CASE c # b
    <3>1. Writing(c) => building[c].n \in DOMAIN sizes
      BY DEF Writing, FileTypes
    <3>2. Amid(c)' <=> Amid(c)
      BY <1>2, <1>3, <2>2, <3>1 DEF Amid, Writing
    <3>3. QED
      BY <1>1, <1>3, <2>2, <3>2 DEF Laid, Writing
  <2>3. QED
    BY <2>1, <2>2
<1>6. \A c, d \in Builders : Apart(c, d)'
  BY <1>1, <1>3, <1>5 DEF Apart
<1>7. \A p \in Places : Kept(p)'
  <2>1. \A p \in Places : owner[p] # 0 => owner[p] \in DOMAIN sizes
    BY <1>2 DEF FileTypes
  <2>2. \A n \in DOMAIN sizes : Data(n)' = Data(n)
    BY <1>2 DEF Data
  <2>3. QED
    BY <1>1, <1>3, <1>5, <2>1, <2>2 DEF Kept
<1>8. QED
  BY <1>4, <1>5, <1>6, <1>7

LEMMA OpenLays ==
  ASSUME FindTypes, FileInv, NEW b \in Builders, Open(b)
  PROVE  FileInv'
<1> USE DEF FileInv
<1> DEFINE p == building[b].place
<1>1. /\ UNCHANGED <<sizes, building>> /\ there' = there \cup {p}
      /\ file' = [file EXCEPT ![p] = <<>>] /\ owner' = [owner EXCEPT ![p] = 0]
      /\ clash' = IF Sharing(p) = {} THEN clash \ {b} ELSE clash \cup Sharing(p) \cup {b}
      /\ pc[b] = "open" /\ pc' = [pc EXCEPT ![b] = "write"] /\ ~Inside(p)
  BY DEF Open, Goto
<1>2. p \in Places /\ building[b].wrote = 0 /\ building[b].n \in DOMAIN sizes
  BY <1>1 DEF FileTypes, Laid
<1>3. /\ pc'[b] = "write" /\ \A c \in Builders : c # b => pc'[c] = pc[c]
  BY <1>1, ReaderIsNoBuilder DEF FindTypes
<1>4. /\ file' \in [Places -> Seq(Blocks)] /\ file'[p] = <<>> /\ owner'[p] = 0
      /\ \A q \in Places : q # p => file'[q] = file[q] /\ owner'[q] = owner[q]
  BY <1>1, <1>2 DEF FileTypes
<1>5. FileTypes'
  <2>1. owner' \in [Places -> 0..Len(sizes)]
    BY <1>1, <1>2 DEF FileTypes
  <2>2. clash' \subseteq Builders /\ there' \subseteq Places
    BY <1>1, <1>2 DEF FileTypes, Sharing
  <2>3. \A q \in Places : \A i \in DOMAIN file'[q] :
          /\ file'[q][i][1] \in DOMAIN sizes
          /\ file'[q][i][2] = i /\ i <= sizes[file'[q][i][1]]
    <3>1. SUFFICES ASSUME NEW q \in Places, NEW i \in DOMAIN file'[q]
                   PROVE  /\ file'[q][i][1] \in DOMAIN sizes
                          /\ file'[q][i][2] = i /\ i <= sizes[file'[q][i][1]]
      OBVIOUS
    <3>2. q # p /\ file'[q] = file[q]
      BY <1>4, <3>1
    <3>3. QED
      BY <3>1, <3>2 DEF FileTypes
  <2>4. \A c \in Builders : pc'[c] \in {"open", "write"} => pc[c] \in {"open", "write"}
    BY <1>1, <1>3
  <2>5. QED
    BY <1>1, <1>4, <2>1, <2>2, <2>3, <2>4 DEF FileTypes
<1>6. \A c \in Builders : /\ Amid(c)' <=> Amid(c)
                          /\ Writing(c)' <=> (c = b \/ Writing(c))
  <2>1. ~Amid(b) /\ ~Amid(b)'
    BY <1>1, <1>2 DEF Amid
  <2>2. QED
    BY <1>1, <1>3, <2>1 DEF Amid, Writing
<1>7. \A c \in Builders : Amid(c) => building[c].place # p
  BY <1>1 DEF Inside, Amid
<1>8. ASSUME NEW c \in Builders
      PROVE  Laid(c)'
  <2>1. CASE c = b
    BY <1>1, <1>2, <1>3, <1>4, <1>6, <2>1 DEF Laid, Amid
  <2>2. CASE c # b /\ Writing(c) /\ building[c].place = p
    <3>1. c \in Sharing(p) /\ c \in clash'
      BY <1>1, <2>2 DEF Sharing
    <3>2. QED
      BY <1>1, <1>3, <1>6, <1>7, <2>2, <3>1 DEF Laid, Writing
  <2>3. CASE c # b /\ ~(Writing(c) /\ building[c].place = p)
    <3>1. Writing(c) => building[c].place \in Places /\ building[c].place # p
      BY <2>3 DEF FileTypes, Writing
    <3>2. Writing(c) /\ c \notin clash' => c \notin clash
      BY <1>1, <2>3 DEF Sharing
    <3>3. QED
      BY <1>1, <1>3, <1>4, <1>6, <2>3, <3>1, <3>2 DEF Laid, Writing, Amid
  <2>4. QED
    BY <2>1, <2>2, <2>3
<1>9. ASSUME NEW c \in Builders, NEW d \in Builders
      PROVE  Apart(c, d)'
  <2>1. SUFFICES ASSUME c # d, Writing(c)', Writing(d)', building[c].place = building[d].place
                 PROVE  ~(Amid(c) /\ Amid(d)) /\ c \in clash' /\ d \in clash'
    BY <1>1, <1>6 DEF Apart
  <2>2. CASE building[c].place = p
    <3>1. c \in Sharing(p) \cup {b} /\ d \in Sharing(p) \cup {b} /\ Sharing(p) # {}
      BY <1>6, <2>1, <2>2 DEF Sharing
    <3>2. QED
      BY <1>1, <1>7, <2>1, <2>2, <3>1
  <2>3. CASE building[c].place # p
    <3>1. c # b /\ d # b /\ Writing(c) /\ Writing(d)
      BY <1>6, <2>1, <2>3
    <3>2. QED
      BY <1>1, <2>1, <3>1 DEF Apart
  <2>4. QED
    BY <2>2, <2>3
<1>10. ASSUME NEW q \in Places
       PROVE  Kept(q)'
  <2>1. CASE q = p
    BY <1>4, <2>1 DEF Kept
  <2>2. CASE q # p
    <3>1. owner'[q] = owner[q] /\ file'[q] = file[q] /\ (q \in there => q \in there')
      BY <1>1, <1>4, <2>2
    <3>2. \A c \in Builders : Writing(c)' /\ building'[c].place = q => Writing(c) /\ building[c].place = q
      BY <1>1, <1>6, <2>2
    <3>3. Data(owner[q])' = Data(owner[q])
      BY <1>1, <3>1 DEF Data
    <3>4. QED
      BY <3>1, <3>2, <3>3 DEF Kept
  <2>3. QED
    BY <2>1, <2>2
<1>11. QED
  BY <1>5, <1>8, <1>9, <1>10

\* Laying a block on a sequence that reaches up to it, or further.
Overlays(t, s, k, x) ==
  /\ t \in Seq(Blocks) /\ t[k] = x
  /\ Len(t) = IF k > Len(s) THEN k ELSE Len(s)
  /\ k \in 1..Len(t)
  /\ \A i \in 1..Len(t) : i # k => i \in 1..Len(s) /\ t[i] = s[i]

LEMMA OverlayIs ==
  ASSUME NEW s \in Seq(Blocks), NEW k \in Nat \ {0}, NEW x \in Blocks, k - 1 <= Len(s)
  PROVE  Overlays(Overlay(s, k, x), s, k, x)
<1> DEFINE L == IF k > Len(s) THEN k ELSE Len(s)
           t == Overlay(s, k, x)
<1>1. Len(s) \in Nat /\ L \in Nat /\ k \in 1..L /\ \A i \in 1..L : i # k => i \in 1..Len(s)
  OBVIOUS
<1>2. t = [i \in 1..L |-> IF i = k THEN x ELSE s[i]]
  BY DEF Overlay
<1>3. \A i \in 1..Len(s) : s[i] \in Blocks
  OBVIOUS
<1>4. t \in [1..L -> Blocks]
  BY <1>1, <1>2, <1>3
<1>5. t \in Seq(Blocks) /\ Len(t) = L
  BY <1>1, <1>4
<1>6. t[k] = x /\ \A i \in 1..L : i # k => t[i] = s[i]
  BY <1>1, <1>2
<1>7. QED
  BY <1>1, <1>5, <1>6 DEF Overlays

\* Whatever others laid or cut off, a write lays its block where the file ends, or
\* before; only a builder amid its write comes after the first block.
LEMMA WriteReaches ==
  ASSUME FindTypes, FileInv, NEW b \in Builders, Write(b), NEW p, p = building[b].place,
         NEW n, n = building[b].n, NEW k, k = building[b].wrote + 1
  PROVE  /\ p \in Places /\ n \in DOMAIN sizes /\ k \in Nat \ {0} /\ sizes[n] \in Nat
         /\ building[b].wrote \in Nat /\ file[p] \in Seq(Blocks)
         /\ k # 1 => Amid(b)
         /\ file' \in [Places -> Seq(Blocks)]
         /\ Overlays(file'[p], file[p], k, <<n, k>>)
         /\ \A q \in Places : q # p => file'[q] = file[q]
<1> USE DEF FileInv
<1>1. /\ Writing(b) /\ k <= sizes[n]
      /\ file' = [file EXCEPT ![p] = Overlay(file[p], k, <<n, k>>)]
  BY DEF Write
<1>2. p \in Places /\ n \in DOMAIN sizes /\ k \in Nat \ {0} /\ sizes[n] \in Nat
      /\ building[b].wrote \in Nat
      /\ <<n, k>> \in Blocks /\ file[p] \in Seq(Blocks)
  <2>1. p \in Places /\ n \in DOMAIN sizes /\ building[b].wrote \in Nat /\ file[p] \in Seq(Blocks)
    BY <1>1 DEF FileTypes, Writing
  <2>2. sizes[n] \in Nat /\ n \in Nat \ {0}
    BY <2>1, DataIs
  <2>3. k \in Nat \ {0}
    BY <2>1
  <2>4. QED
    BY <2>1, <2>2, <2>3 DEF Blocks
<1>3. k # 1 => Amid(b)
  BY <1>1, <1>2 DEF Amid
<1>4. k - 1 <= Len(file[p])
  <2>0. Len(file[p]) \in Nat /\ k - 1 = building[b].wrote
    BY <1>2
  <2>1. CASE k = 1
    <3>1. building[b].wrote = 0
      BY <1>2, <2>1
    <3>2. QED
      BY <2>0, <3>1
  <2>2. CASE k # 1
    BY <1>2, <1>3, <2>0, <2>2 DEF Laid
  <2>3. QED
    BY <2>1, <2>2
<1>5. Overlays(Overlay(file[p], k, <<n, k>>), file[p], k, <<n, k>>)
  BY <1>2, <1>4, OverlayIs
<1>6. file'[p] = Overlay(file[p], k, <<n, k>>)
  BY <1>1, <1>2 DEF FileTypes
<1>7. file' \in [Places -> Seq(Blocks)]
  BY <1>1, <1>2, <1>5 DEF FileTypes, Overlays
<1>8. \A q \in Places : q # p => file'[q] = file[q]
  BY <1>1, <1>2 DEF FileTypes
<1>9. QED
  BY <1>2, <1>3, <1>5, <1>6, <1>7, <1>8

LEMMA WriteOverlays ==
  ASSUME FindTypes, FileInv, NEW b \in Builders, Write(b), NEW p \in Places, file'[p] # file[p]
  PROVE  /\ building[b].place = p /\ sizes' = sizes
         /\ \E k, x : Overlays(file'[p], file[p], k, x)
<1> DEFINE q == building[b].place
           k == building[b].wrote + 1
           x == <<building[b].n, k>>
<1>1. \A r \in Places : r # q => file'[r] = file[r]
  BY WriteReaches
<1>2. Overlays(file'[q], file[q], k, x)
  BY WriteReaches
<1>3. q = p
  BY <1>1
<1>4. sizes' = sizes
  BY DEF Write
<1>5. Overlays(file'[p], file[p], k, x)
  BY <1>2, <1>3
<1>6. QED
  BY <1>3, <1>4, <1>5

LEMMA WriteLays ==
  ASSUME FindTypes, FileInv, NEW b \in Builders, Write(b)
  PROVE  FileInv'
<1> USE DEF FileInv
<1> DEFINE p == building[b].place
           n == building[b].n
           k == building[b].wrote + 1
<1>1. /\ Writing(b) /\ k <= sizes[n] /\ (k = 1 => ~Inside(p))
      /\ file' = [file EXCEPT ![p] = Overlay(file[p], k, <<n, k>>)]
      /\ building' = [building EXCEPT ![b].wrote = k]
      /\ UNCHANGED <<pc, sizes, there, clash, owner>>
  BY DEF Write
<1>2. p \in Places /\ n \in DOMAIN sizes /\ k \in Nat \ {0} /\ sizes[n] \in Nat
      /\ building[b].wrote \in Nat /\ file[p] \in Seq(Blocks)
  BY WriteReaches
<1>3. k # 1 => Amid(b)
  BY WriteReaches
<1>5. \A c \in Builders : c # b /\ Amid(c) => building[c].place # p
  <2>1. CASE k = 1
    BY <1>1, <2>1 DEF Inside, Amid
  <2>2. CASE k # 1
    BY <1>1, <1>3, <2>2 DEF Apart, Amid
  <2>3. QED
    BY <2>1, <2>2
<1>6. /\ file' \in [Places -> Seq(Blocks)]
      /\ Len(file'[p]) = IF k > Len(file[p]) THEN k ELSE Len(file[p])
      /\ file'[p][k] = <<n, k>> /\ k \in 1..Len(file'[p])
      /\ \A i \in 1..Len(file'[p]) : i # k => i \in 1..Len(file[p]) /\ file'[p][i] = file[p][i]
      /\ \A q \in Places : q # p => file'[q] = file[q]
  <2>1. /\ Overlays(file'[p], file[p], k, <<n, k>>) /\ file' \in [Places -> Seq(Blocks)]
        /\ \A q \in Places : q # p => file'[q] = file[q]
    BY WriteReaches
  <2>2. QED
    BY <2>1 DEF Overlays
<1>7. /\ building' \in [Builders -> [n : Nat, place : Places \cup {NoPlace}, wrote : Nat]]
      /\ building'[b].wrote = k /\ building'[b].n = n /\ building'[b].place = p
      /\ \A c \in Builders : c # b => building'[c] = building[c]
  BY <1>1, <1>2 DEF FileTypes
<1>8. FileTypes'
  <2>1. ASSUME NEW q \in Places, NEW i \in DOMAIN file'[q]
        PROVE  /\ file'[q][i][1] \in DOMAIN sizes
               /\ file'[q][i][2] = i /\ i <= sizes[file'[q][i][1]]
    <3>1. CASE q = p /\ i = k
      <4>1. file'[q][i] = <<n, k>>
        BY <1>6, <3>1
      <4>2. file'[q][i][1] = n /\ file'[q][i][2] = k
        BY <4>1
      <4>3. QED
        BY <1>1, <1>2, <3>1, <4>2
    <3>2. CASE q = p /\ i # k
      <4>0. i \in 1..Len(file'[p])
        BY <1>2, <1>6, <2>1, <3>2
      <4>1. i \in DOMAIN file[q] /\ file'[q][i] = file[q][i]
        BY <1>2, <1>6, <3>2, <4>0
      <4>2. QED
        BY <4>1 DEF FileTypes
    <3>3. CASE q # p
      BY <1>6, <2>1, <3>3 DEF FileTypes
    <3>4. QED
      BY <3>1, <3>2, <3>3
  <2>2. ASSUME NEW c \in Builders, pc[c] \in {"open", "write"}
        PROVE  /\ building'[c].n \in DOMAIN sizes /\ building'[c].place \in Places
               /\ building'[c].wrote <= sizes[building'[c].n]
    <3>1. CASE c = b
      BY <1>1, <1>2, <1>7, <3>1
    <3>2. CASE c # b
      BY <1>7, <2>2, <3>2 DEF FileTypes
    <3>3. QED
      BY <3>1, <3>2
  <2>3. QED
    <3>1. UNCHANGED <<pc, sizes, there, clash, owner>>
      BY <1>1
    <3>2. file' \in [Places -> Seq(Blocks)]
          /\ building' \in [Builders -> [n : Nat, place : Places \cup {NoPlace}, wrote : Nat]]
      BY <1>6, <1>7
    <3>3. QED
      BY <2>1, <2>2, <3>1, <3>2 DEF FileTypes
<1>9. \A c \in Builders : /\ Writing(c)' <=> Writing(c)
                          /\ c # b => (Amid(c)' <=> Amid(c))
  BY <1>1, <1>7 DEF Amid, Writing
<1>10. ASSUME NEW c \in Builders
       PROVE  Laid(c)'
  <2>1. CASE c = b
    <3>1. pc[b] = "write"
      BY <1>1 DEF Writing
    <3>2. Len(file'[p]) >= k
      BY <1>2, <1>6
    <3>3. ASSUME b \notin clash
          PROVE  p \in there /\ Len(file'[p]) = k /\ \A i \in 1..k : file'[p][i] = <<n, i>>
      <4>1. p \in there /\ Len(file[p]) = k - 1 /\ \A i \in 1..(k - 1) : file[p][i] = <<n, i>>
        BY <1>1, <1>2, <3>3 DEF Laid
      <4>2. Len(file'[p]) = k
        BY <1>2, <1>6, <4>1
      <4>3. QED
        BY <1>2, <1>6, <4>1, <4>2
    <3>4. QED
      BY <1>1, <1>7, <2>1, <3>1, <3>2, <3>3 DEF Laid
  <2>2. CASE c # b /\ Writing(c) /\ building[c].place = p
    <3>1. c \in clash /\ ~Amid(c)
      BY <1>1, <1>5, <2>2 DEF Apart
    <3>2. QED
      BY <1>1, <1>9, <2>2, <3>1 DEF Laid, Writing
  <2>3. CASE c # b /\ ~(Writing(c) /\ building[c].place = p)
    <3>1. Writing(c) => file'[building[c].place] = file[building[c].place]
      BY <1>6, <2>3 DEF FileTypes, Writing
    <3>2. building'[c] = building[c] /\ UNCHANGED <<pc, there, clash>>
          /\ (Amid(c)' <=> Amid(c)) /\ (Amid(c) => Writing(c)) /\ (Writing(c)' <=> Writing(c))
      BY <1>1, <1>7, <1>9, <2>3 DEF Amid
    <3>3. Laid(c)
      OBVIOUS
    <3>4. QED
      BY <3>1, <3>2, <3>3 DEF Laid
  <2>4. QED
    BY <2>1, <2>2, <2>3
<1>11. ASSUME NEW c \in Builders, NEW d \in Builders
       PROVE  Apart(c, d)'
  <2>1. SUFFICES ASSUME c # d, Writing(c), Writing(d), building[c].place = building[d].place
                 PROVE  ~(Amid(c)' /\ Amid(d)') /\ c \in clash /\ d \in clash
    BY <1>1, <1>7, <1>9 DEF Apart
  <2>2. c \in clash /\ d \in clash /\ ~(Amid(c) /\ Amid(d))
    BY <2>1 DEF Apart
  <2>3. CASE c = b
    BY <1>5, <1>9, <2>1, <2>2, <2>3
  <2>4. CASE d = b
    BY <1>5, <1>9, <2>1, <2>2, <2>4
  <2>5. CASE c # b /\ d # b
    BY <1>9, <2>2, <2>5
  <2>6. QED
    BY <2>3, <2>4, <2>5
<1>12. ASSUME NEW q \in Places
       PROVE  Kept(q)'
  <2>1. CASE q = p
    BY <1>1, <2>1 DEF Kept
  <2>2. CASE q # p
    <3>1. Data(owner[q])' = Data(owner[q])
      BY <1>1 DEF Data
    <3>2. \A c \in Builders : building'[c].place = building[c].place
      BY <1>7
    <3>3. QED
      BY <1>1, <1>6, <1>9, <2>2, <3>1, <3>2 DEF Kept
  <2>3. QED
    BY <2>1, <2>2
<1>13. QED
  BY <1>8, <1>10, <1>11, <1>12

\* A builder that ends, in either way, leaves the place to the others.
LEMMA EndLays ==
  ASSUME FindTypes, FileInv, NEW b \in Builders, Return(b) \/ Abandon(b)
  PROVE  FileInv'
<1> USE DEF FileInv
<1>1. /\ pc' = [pc EXCEPT ![b] = "idle"] /\ building' = [building EXCEPT ![b] = Idle]
      /\ clash' = clash \ {b} /\ UNCHANGED <<sizes, there, file>>
  BY DEF Return, Abandon
<1>2. /\ pc'[b] = "idle" /\ \A c \in Builders : c # b => pc'[c] = pc[c] /\ building'[c] = building[c]
      /\ building' \in [Builders -> [n : Nat, place : Places \cup {NoPlace}, wrote : Nat]]
  BY <1>1, ReaderIsNoBuilder DEF FindTypes, FileTypes, Idle
<1>3. \A q \in Places : Data(owner[q])' = [i \in 1..sizes[owner'[q]] |-> <<owner'[q], i>>]
  BY <1>1 DEF Data
<1>4. ASSUME NEW q \in Places, owner'[q] # owner[q]
      PROVE  /\ Return(b) /\ b \notin clash /\ q = building[b].place
             /\ owner'[q] = building[b].n
  BY <1>4, <1>1 DEF Return, Abandon, FileTypes
<1>5. owner' \in [Places -> 0..Len(sizes)]
  <2>1. CASE owner' = owner
    BY <2>1 DEF FileTypes
  <2>2. CASE owner' # owner
    <3>1. Writing(b) /\ owner' = [owner EXCEPT ![building[b].place] = building[b].n]
      BY <2>2 DEF Return, Abandon
    <3>2. building[b].n \in 0..Len(sizes)
      BY <3>1 DEF FileTypes, Writing
    <3>3. QED
      BY <3>1, <3>2 DEF FileTypes
  <2>3. QED
    BY <2>1, <2>2
<1>6. FileTypes'
  BY <1>1, <1>2, <1>5 DEF FileTypes
<1>7. \A c \in Builders : /\ Writing(c)' => c # b /\ Writing(c)
                          /\ Amid(c)' => c # b /\ Amid(c)
  BY <1>1, <1>2 DEF Amid, Writing
<1>8. \A c \in Builders : Laid(c)'
  BY <1>1, <1>2, <1>7 DEF Laid
<1>9. \A c, d \in Builders : Apart(c, d)'
  BY <1>1, <1>2, <1>7 DEF Apart
<1>10. ASSUME NEW q \in Places
       PROVE  Kept(q)'
  <2>1. CASE owner'[q] = owner[q]
    <3>1. Data(owner[q])' = Data(owner[q])
      BY <1>1, <2>1 DEF Data
    <3>2. QED
      BY <1>1, <1>2, <1>7, <2>1, <3>1 DEF Kept
  <2>2. CASE owner'[q] # owner[q]
    <3> DEFINE n == building[b].n
    <3>1. /\ Writing(b) /\ b \notin clash /\ q = building[b].place /\ owner'[q] = n
          /\ building[b].wrote = sizes[n]
      BY <1>4, <2>2 DEF Return
    <3>2. q \in there /\ Len(file[q]) = sizes[n] /\ \A i \in 1..sizes[n] : file[q][i] = <<n, i>>
      BY <3>1 DEF Laid
    <3>3. n \in DOMAIN sizes /\ file[q] \in Seq(Blocks)
      BY <3>1 DEF FileTypes, Writing
    <3>4. file[q] = Data(n)
      <4>1. Data(n) \in Seq(Blocks) /\ Len(Data(n)) = sizes[n]
            /\ \A i \in 1..sizes[n] : Data(n)[i] = <<n, i>>
        BY <3>3, DataIs
      <4>2. Len(file[q]) = Len(Data(n)) /\ \A i \in 1..Len(file[q]) : file[q][i] = Data(n)[i]
        BY <3>2, <4>1
      <4>3. QED
        BY <3>3, <4>1, <4>2, SameBlocks
    <3>5. Data(owner[q])' = Data(n)
      BY <1>1, <3>1 DEF Data
    <3>6. \A c \in Builders : Writing(c)' => building'[c].place # q
      BY <1>2, <1>7, <3>1 DEF Apart
    <3>7. QED
      BY <1>1, <3>2, <3>4, <3>5, <3>6 DEF Kept
  <2>3. QED
    BY <2>1, <2>2
<1>11. QED
  BY <1>6, <1>8, <1>9, <1>10

LEMMA BuilderKeepsFileInv ==
  ASSUME FindTypes, FileInv, NEW b \in Builders, BuilderStep(b)
  PROVE  FileInv'
BY BuildLays, OpenLays, WriteLays, EndLays DEF BuilderStep

-----------------------------------------------------------------------------
(* The walk                                                                *)

\* Where a reader's step leads: everything but the profile starts afresh, or a
\* resolution goes on.
LEMMA EditWalks ==
  ASSUME FindTypes, WalkInv, NEW d \in Dirs, NEW c \in Contents, Edit(d, c)
  PROVE  FindTypes' /\ WalkInv' /\ profile' = profile
<1>1. /\ pc[Reader] \in {"walk", "load"} /\ edits < MaxEdits /\ edits' = edits + 1
      /\ config' = [config EXCEPT ![d] = c] /\ during' = [during EXCEPT ![d] = @ \cup {c}]
      /\ UNCHANGED <<pc, dir, direct, profile>>
  BY DEF Edit
<1>2. \A e \in Dirs : /\ config'[e] = IF e = d THEN c ELSE config[e]
                      /\ during'[e] = IF e = d THEN during[e] \cup {c} ELSE during[e]
  BY <1>1 DEF FindTypes
<1>3. edits' \in 0..MaxEdits
  <2>1. edits \in 0..MaxEdits /\ MaxEdits \in Nat
    BY GraphAssumption DEF FindTypes
  <2>2. QED
    BY <1>1, <2>1
<1>4. FindTypes'
  BY <1>1, <1>3 DEF FindTypes
<1>5. \A e \in Dirs : config'[e] \in during'[e] /\ during[e] \subseteq during'[e]
  BY <1>1, <1>2 DEF WalkInv
<1>6. \A e \in 1..(dir - 1) : e \in Dirs
  BY GraphAssumption DEF FindTypes, Dirs
<1>7. during[dir] # {"missing"} => during'[dir] # {"missing"}
  BY <1>1, <1>5 DEF WalkInv, FindTypes
<1>8. WalkInv'
  BY <1>1, <1>5, <1>6, <1>7 DEF WalkInv
<1>9. QED
  BY <1>1, <1>4, <1>8

LEMMA StartWalks ==
  ASSUME FindTypes, NEW tree \in Trees, NEW d \in Dirs, NEW given \in BOOLEAN, NEW r,
         StartReader(tree, d, given, r)
  PROVE  FindTypes' /\ WalkInv' /\ profile' = "none"
<1>1. /\ given \/ d = 1
      /\ pc' = [pc EXCEPT ![Reader] = IF given THEN "load" ELSE "walk"]
      /\ dir' = d /\ direct' = given /\ profile' = "none" /\ config' = tree /\ edits' = 0
      /\ during' = [e \in Dirs |-> {tree[e]}]
  BY DEF StartReader, Goto
<1>2. tree \in [Dirs -> Contents] /\ 0 \in 0..MaxEdits
  BY GraphAssumption
<1>3. pc'[Reader] = IF given THEN "load" ELSE "walk"
  BY <1>1, ReaderIsNoBuilder DEF FindTypes
<1>4. /\ pc' \in [Procs -> Steps] /\ \A b \in Builders : pc'[b] = pc[b]
  BY <1>1, ReaderIsNoBuilder DEF FindTypes, Steps
<1>5. FindTypes'
  BY <1>1, <1>2, <1>4 DEF FindTypes
<1>6. WalkInv'
  BY <1>1, <1>2, <1>3 DEF WalkInv
<1>7. QED
  BY <1>1, <1>5, <1>6

LEMMA ForgetTypes ==
  ASSUME Forget
  PROVE  /\ config' \in [Dirs -> Contents] /\ edits' \in 0..MaxEdits
         /\ dir' \in Dirs /\ direct' \in BOOLEAN /\ during' \in [Dirs -> SUBSET Contents]
<1>1. config' = NoTree /\ edits' = 0 /\ dir' = 1 /\ direct' = FALSE
      /\ during' = [d \in Dirs |-> {}]
  BY DEF Forget
<1>2. NoTree \in [Dirs -> Contents]
  BY DEF NoTree, Contents
<1>3. 0 \in 0..MaxEdits /\ 1 \in Dirs
  BY GraphAssumption DEF Dirs
<1>4. [d \in Dirs |-> {}] \in [Dirs -> SUBSET Contents]
  OBVIOUS
<1>5. QED
  BY <1>1, <1>2, <1>3, <1>4

\* A directory without a config that is the boundary, or a bad config, leaves a
\* reader without a profile, and rightly so.
LEMMA DiscoverWalks ==
  ASSUME FindTypes, WalkInv, Discover
  PROVE  FindTypes' /\ WalkInv' /\ (profile' \notin {profile, "none"} => Accounted(profile'))
<1>0. pc[Reader] = "walk" /\ dir \in Dirs /\ config[dir] \in during[dir]
  BY DEF Discover, WalkInv, FindTypes
<1>1. CASE config[dir] # "missing" /\ Found
  <2>1. pc' = [pc EXCEPT ![Reader] = "load"]
        /\ UNCHANGED <<config, edits, dir, direct, profile, during>>
    BY <1>1 DEF Found, projects, finding
  <2>2. FindTypes'
    BY <2>1, ReaderIsNoBuilder DEF FindTypes, Steps
  <2>3. WalkInv'
    BY <1>0, <1>1, <2>1, ReaderIsNoBuilder DEF FindTypes, WalkInv
  <2>4. QED
    BY <2>1, <2>2, <2>3
<1>2. CASE config[dir] = "missing" /\ (dir \in GitRoots \/ dir = Depth) /\ NoProfile
  <2>1. pc' = [pc EXCEPT ![Reader] = "idle"] /\ profile' = "failed" /\ Forget
    BY <1>2 DEF NoProfile
  <2>2. FindTypes'
    BY <2>1, ForgetTypes, ReaderIsNoBuilder DEF FindTypes, Steps
  <2>3. WalkInv'
    BY <2>1, ReaderIsNoBuilder DEF FindTypes, WalkInv
  <2>4. Accounted("failed")
    BY <1>0, <1>2, GraphAssumption DEF Accounted, WalkInv
  <2>5. QED
    BY <2>1, <2>2, <2>3, <2>4
<1>3. CASE config[dir] = "missing" /\ dir \notin GitRoots /\ dir < Depth /\ Climb
  <2>1. dir' = dir + 1 /\ UNCHANGED <<config, edits, pc, direct, profile, during>>
    BY <1>3 DEF Climb, projects
  <2>2. dir' \in Dirs /\ \A d \in 1..(dir' - 1) : d = dir \/ d \in 1..(dir - 1)
    BY <1>0, <1>3, <2>1, GraphAssumption DEF Dirs
  <2>3. FindTypes'
    BY <2>1, <2>2 DEF FindTypes
  <2>4. WalkInv'
    BY <1>0, <1>3, <2>1, <2>2 DEF WalkInv
  <2>5. QED
    BY <2>1, <2>3, <2>4
<1>4. QED
  BY <1>1, <1>2, <1>3 DEF Discover

LEMMA LoadWalks ==
  ASSUME FindTypes, WalkInv, LoadFromDir
  PROVE  /\ FindTypes' /\ WalkInv' /\ (profile' \notin {profile, "none"} => Accounted(profile'))
         /\ pc'[Reader] \in {"idle", "ready"} /\ (pc'[Reader] = "ready" => profile' \in Profiles)
<1>0. pc[Reader] = "load" /\ dir \in Dirs /\ config[dir] \in during[dir] /\ config[dir] \in Contents
  BY DEF LoadFromDir, WalkInv, FindTypes
<1>1. CASE config[dir] \in Profiles
  <2>1. pc' = [pc EXCEPT ![Reader] = "ready"] /\ profile' = config[dir] /\ Forget
    BY <1>1 DEF LoadFromDir
  <2>2. FindTypes'
    BY <1>1, <2>1, ForgetTypes, ReaderIsNoBuilder DEF FindTypes, Steps
  <2>3. WalkInv' /\ pc'[Reader] = "ready"
    BY <2>1, ReaderIsNoBuilder DEF FindTypes, WalkInv
  <2>4. Accounted(config[dir])
    BY <1>0, <1>1, GraphAssumption DEF Accounted, WalkInv
  <2>5. QED
    BY <1>1, <2>1, <2>2, <2>3, <2>4
<1>2. CASE config[dir] \notin Profiles
  <2>1. pc' = [pc EXCEPT ![Reader] = "idle"] /\ profile' = "failed" /\ Forget
    BY <1>2 DEF LoadFromDir, NoProfile
  <2>2. FindTypes'
    BY <2>1, ForgetTypes, ReaderIsNoBuilder DEF FindTypes, Steps
  <2>3. WalkInv' /\ pc'[Reader] = "idle"
    BY <2>1, ReaderIsNoBuilder DEF FindTypes, WalkInv
  <2>4. config[dir] \in {"missing", "broken"}
    BY <1>0, <1>2 DEF Contents
  <2>5. Accounted("failed")
    BY <1>0, <2>4, GraphAssumption DEF Accounted, WalkInv
  <2>6. QED
    BY <2>1, <2>2, <2>3, <2>5
<1>3. QED
  BY <1>1, <1>2

LEMMA OthersWalk ==
  ASSUME FindTypes, WalkInv,
         \/ \E t \in {"cli", "query", "context"} : Call(t)
         \/ Look \/ Read \/ Stop \/ UNCHANGED vars
         \/ \E b \in Builders : BuilderStep(b)
  PROVE  FindTypes' /\ WalkInv' /\ profile' \in {profile, "none"}
<1>1. CASE UNCHANGED vars
  BY <1>1 DEF vars, projects, finding, FindTypes, WalkInv
<1>2. CASE \E b \in Builders : BuilderStep(b)
  <2>1. PICK b \in Builders : BuilderStep(b)
    BY <1>2
  <2>2. /\ UNCHANGED <<config, edits, dir, direct, profile, during>>
        /\ pc' \in [Procs -> Steps] /\ pc'[Reader] = pc[Reader]
        /\ \A c \in Builders : pc'[c] \in {"idle", "open", "write"}
    BY <2>1, BuilderChanges DEF projects, finding, FindTypes
  <2>3. FindTypes'
    BY <2>2 DEF FindTypes
  <2>4. WalkInv'
    BY <2>2 DEF WalkInv
  <2>5. QED
    BY <2>2, <2>3, <2>4
<1>3. CASE Stop
  <2>1. pc' = [pc EXCEPT ![Reader] = "idle"] /\ profile' = "none" /\ Forget
    BY <1>3 DEF Stop
  <2>2. FindTypes'
    BY <2>1, ForgetTypes, ReaderIsNoBuilder DEF FindTypes, Steps
  <2>3. WalkInv'
    BY <2>1, ReaderIsNoBuilder DEF FindTypes, WalkInv
  <2>4. QED
    BY <2>1, <2>2, <2>3
<1>4. CASE Look \/ Read \/ \E t \in {"cli", "query", "context"} : Call(t)
  <2>1. UNCHANGED <<config, edits, dir, direct, profile, during>>
    BY <1>4 DEF Look, Read, Call, projects, finding
  <2>2. pc' = pc \/ \E l \in {"idle", "ready", "look", "read"} : pc' = [pc EXCEPT ![Reader] = l]
    BY <1>4 DEF Look, Read, Call, Goto, Answer
  <2>3. pc[Reader] \notin {"walk", "load"}
    BY <1>4 DEF Look, Read, Call, Goto
  <2>4. /\ pc' \in [Procs -> Steps] /\ \A b \in Builders : pc'[b] = pc[b]
        /\ pc'[Reader] \notin {"walk", "load"}
    BY <2>2, <2>3, ReaderIsNoBuilder DEF FindTypes, Steps
  <2>5. FindTypes' /\ WalkInv'
    BY <2>1, <2>4 DEF FindTypes, WalkInv
  <2>6. QED
    BY <2>1, <2>5
<1>5. QED
  BY <1>1, <1>2, <1>3, <1>4

LEMMA NextWalks ==
  ASSUME FindTypes, WalkInv, [Next]_vars
  PROVE  FindTypes' /\ WalkInv' /\ (profile' \notin {profile, "none"} => Accounted(profile'))
BY EditWalks, StartWalks, DiscoverWalks, LoadWalks, OthersWalk DEF Next, ReaderStep

-----------------------------------------------------------------------------
(* Answers while the reader is at work                                     *)

\* The candidates of a reader with a profile.
LEMMA MineArePlaces ==
  ASSUME ReadTypes, profile \in Profiles
  PROVE  MyCandidates \in Seq(Places)
BY CandidatesArePlaces DEF MyCandidates, ReadTypes

\* A reader without a call to answer, that has answered nothing.
LEMMA SilentReads ==
  ASSUME AnswerInv, UNCHANGED <<sizes, there, file, role, tool, cand, buf, answer, history>>,
         pc'[Reader] \notin {"look", "read"}, pc'[Reader] = "ready" => profile' \in Profiles,
         answer.kind = "none"
  PROVE  AnswerInv'
<1>1. ReadTypes'
  BY DEF AnswerInv, ReadTypes, Known, history
<1>2. CallInv' /\ Untold' /\ AnswersAreAccountable'
  BY DEF CallInv, Calling, Untold, AnswersAreAccountable
<1>3. QED
  BY <1>1, <1>2 DEF AnswerInv

\* A reader that has only begun, or has stopped.
LEMMA FreshReads ==
  ASSUME AnswerInv, UNCHANGED <<sizes, there, file>>, role' \in {"cli", "server"},
         pc'[Reader] \notin {"ready", "look", "read"}, tool' = "cli", answer' = NoAnswer,
         cand' = 1 \/ cand' = cand, buf' = <<>> \/ buf' = buf,
         whole' = [p \in Places |-> {}], flawed' = {}
  PROVE  AnswerInv'
<1>1. answer' \in [kind : {"none", "graph", "torn", "absent", "binary"}, at : Nat,
                   graph : Seq(Blocks)] /\ answer'.kind = "none" /\ answer'.graph = <<>>
  BY DEF NoAnswer
<1>2. Known(buf)' /\ Known(answer.graph)' /\ buf' \in Seq(Blocks) /\ cand' \in Nat \ {0}
  <2>1. buf \in Seq(Blocks) /\ Known(buf) /\ cand \in Nat \ {0}
    BY DEF AnswerInv, ReadTypes
  <2>2. Known(answer.graph)'
    BY <1>1 DEF Known
  <2>3. CASE buf' = <<>>
    BY <2>1, <2>2, <2>3 DEF Known
  <2>4. CASE buf' = buf
    BY <2>1, <2>2, <2>4 DEF Known
  <2>5. QED
    BY <2>3, <2>4
<1>3. whole' \in [Places -> SUBSET (DOMAIN sizes')] /\ flawed' \subseteq Places
  OBVIOUS
<1>4. ReadTypes'
  BY <1>1, <1>2, <1>3 DEF ReadTypes
<1>5. CallInv' /\ Untold' /\ AnswersAreAccountable'
  BY <1>1 DEF CallInv, Calling, Untold, AnswersAreAccountable
<1>6. QED
  BY <1>4, <1>5 DEF AnswerInv

LEMMA CallReads ==
  ASSUME FindTypes, FileInv, AnswerInv, NEW t \in {"cli", "query", "context"}, Call(t)
  PROVE  AnswerInv'
<1>1. /\ pc[Reader] = "ready" /\ pc' = [pc EXCEPT ![Reader] = "look"]
      /\ tool' = t /\ cand' = 1 /\ buf' = <<>> /\ answer' = NoAnswer
      /\ whole' = [p \in Places |-> WholeIn(p)]
      /\ flawed' = {p \in Places : WholeIn(p) = {}}
      /\ UNCHANGED <<profile, sizes, there, file, role>>
  BY DEF Call, Goto, finding, files
<1>2. pc'[Reader] = "look" /\ profile' \in Profiles
  BY <1>1, ReaderIsNoBuilder DEF FindTypes, AnswerInv, ReadTypes
<1>3. \A p \in Places : WholeIn(p) \subseteq DOMAIN sizes /\ WholeIn(p)' = WholeIn(p)
  BY <1>1 DEF WholeIn, Data
<1>4. ReadTypes'
  <2>1. answer' \in [kind : {"none", "graph", "torn", "absent", "binary"}, at : Nat,
                     graph : Seq(Blocks)] /\ answer'.kind = "none" /\ answer'.graph = <<>>
    BY <1>1 DEF NoAnswer
  <2>2. Known(buf)' /\ Known(answer.graph)'
    BY <1>1, <2>1 DEF Known
  <2>3. whole' \in [Places -> SUBSET (DOMAIN sizes')] /\ flawed' \subseteq Places
    BY <1>1, <1>3
  <2>4. role' \in {"cli", "server"} /\ buf' \in Seq(Blocks) /\ cand' \in Nat \ {0}
    BY <1>1 DEF AnswerInv, ReadTypes
  <2>5. QED
    BY <1>1, <1>2, <2>1, <2>2, <2>3, <2>4 DEF ReadTypes
<1>5. CallInv'
  <2>1. Noted'
    BY <1>1, <1>3 DEF Noted
  <2>2. QED
    BY <1>1, <1>2, <2>1 DEF CallInv
<1>6. Untold' /\ AnswersAreAccountable'
  BY <1>1 DEF Untold, AnswersAreAccountable, NoAnswer
<1>7. QED
  BY <1>4, <1>5, <1>6 DEF AnswerInv

\* What a step of a call leaves alone.
LEMMA CallKeeps ==
  ASSUME Look \/ Read
  PROVE  /\ UNCHANGED <<profile, sizes, there, file, whole, flawed, role, tool>>
         /\ Noted <=> Noted'
         /\ MyCandidates' = MyCandidates
         /\ pc[Reader] \in {"look", "read"}
<1>1. /\ UNCHANGED <<profile, sizes, there, file, whole, flawed, role, tool>>
      /\ pc[Reader] \in {"look", "read"}
  BY DEF Look, Read, Answer, finding, files, history
<1>2. Noted <=> Noted'
  BY <1>1 DEF Noted, WholeIn, Data
<1>3. MyCandidates' = MyCandidates
  BY <1>1 DEF MyCandidates, Candidates
<1>4. QED
  BY <1>1, <1>2, <1>3

\* The end of a call, when what it says is so.
LEMMA AnswerReads ==
  ASSUME FindTypes, FileInv, AnswerInv, Look \/ Read,
         NEW kind \in {"graph", "torn", "absent", "binary"}, Answer(kind),
         \A i \in 1..(IF kind \in {"graph", "torn"} THEN cand - 1 ELSE Len(MyCandidates)) :
           MyCandidates[i] \in flawed,
         kind \in {"graph", "torn"} => cand \in DOMAIN MyCandidates,
         kind = "torn" => MyCandidates[cand] \in flawed,
         kind = "graph" => \/ \E n \in whole[MyCandidates[cand]] : buf = Data(n)
                           \/ MyCandidates[cand] \in flawed /\ MayParse(buf)
  PROVE  AnswerInv'
<1>1. /\ pc' = [pc EXCEPT ![Reader] = IF role = "cli" THEN "idle" ELSE "ready"]
      /\ answer' = [kind |-> kind, at |-> cand, graph |-> IF kind = "graph" THEN buf ELSE <<>>]
      /\ cand' = 1 /\ buf' = <<>>
  BY DEF Answer
<1>2. pc'[Reader] \in {"idle", "ready"}
  BY <1>1, ReaderIsNoBuilder DEF FindTypes
<1>3. /\ UNCHANGED <<profile, sizes, whole, flawed, role, tool>> /\ MyCandidates' = MyCandidates
      /\ profile \in Profiles
  BY CallKeeps DEF AnswerInv, ReadTypes
<1>4. ReadTypes'
  <2>1. /\ answer' \in [kind : {"none", "graph", "torn", "absent", "binary"}, at : Nat,
                        graph : Seq(Blocks)]
        /\ answer'.kind = kind /\ answer'.at = cand
        /\ answer'.graph = IF kind = "graph" THEN buf ELSE <<>>
    BY <1>1 DEF AnswerInv, ReadTypes
  <2>2. Known(buf)' /\ Known(answer.graph)'
    BY <1>1, <1>3, <2>1 DEF Known, AnswerInv, ReadTypes
  <2>3. role' \in {"cli", "server"} /\ tool' \in {"cli", "query", "context"}
        /\ buf' \in Seq(Blocks) /\ cand' \in Nat \ {0}
        /\ whole' \in [Places -> SUBSET (DOMAIN sizes')] /\ flawed' \subseteq Places
    BY <1>1, <1>3 DEF AnswerInv, ReadTypes
  <2>4. profile' \in Profiles /\ (answer'.kind = "graph" => answer'.at \in DOMAIN MyCandidates')
    BY <1>3, <2>1
  <2>5. QED
    BY <1>2, <2>1, <2>2, <2>3, <2>4 DEF ReadTypes
<1>5. AnswersAreAccountable'
  <2>1. answer'.kind = kind /\ answer'.at = cand /\ (kind = "graph" => answer'.graph = buf)
    BY <1>1
  <2>2. /\ (kind = "graph" /\ MayParse(buf)) => MayParse(answer.graph)'
        /\ \A n : Data(n)' = Data(n)
    BY <1>3, <2>1 DEF MayParse, Last, Data
  <2>3. QED
    BY <1>3, <2>1, <2>2 DEF AnswersAreAccountable
<1>6. CallInv' /\ Untold'
  BY <1>2 DEF CallInv, Calling, Untold
<1>7. QED
  BY <1>4, <1>5, <1>6 DEF AnswerInv

LEMMA LookReads ==
  ASSUME FindTypes, FileInv, AnswerInv, Look
  PROVE  AnswerInv'
<1>1. /\ UNCHANGED <<profile, sizes, there, file, whole, flawed, role, tool>> /\ Noted /\ Noted'
      /\ MyCandidates' = MyCandidates /\ pc[Reader] = "look" /\ profile \in Profiles
      /\ cand \in Nat \ {0}
  BY CallKeeps DEF AnswerInv, CallInv, Calling, ReadTypes, Look
<1>2. MyCandidates \in Seq(Places)
  BY <1>1, MineArePlaces DEF AnswerInv
<1>3. \A i \in 1..(cand - 1) : i \in DOMAIN MyCandidates => MyCandidates[i] \in flawed
  BY <1>1 DEF AnswerInv, CallInv, Calling
<1>4. answer.kind = "none"
  BY <1>1 DEF AnswerInv, Untold
<1>5. CASE /\ cand \in DOMAIN MyCandidates /\ MyCandidates[cand] \in there
           /\ pc' = [pc EXCEPT ![Reader] = "read"] /\ buf' = <<>>
           /\ UNCHANGED <<role, tool, cand, answer>>
  <2> DEFINE p == MyCandidates[cand]
  <2>1. pc'[Reader] = "read" /\ p \in Places
    BY <1>2, <1>5, ReaderIsNoBuilder DEF FindTypes
  <2>2. ReadTypes'
    <3>1. Known(buf)' /\ Known(answer.graph)'
      BY <1>1, <1>5 DEF Known, AnswerInv, ReadTypes
    <3>2. buf' \in Seq(Blocks)
      BY <1>5
    <3>3. QED
      BY <1>1, <1>4, <1>5, <2>1, <3>1, <3>2 DEF AnswerInv, ReadTypes
  <2>3. ASSUME NEW q \in Places
        PROVE  Reading(q)'
    <3>1. SUFFICES ASSUME q \notin flawed
                   PROVE  \E n \in whole[q] : Begins(<<>>, Data(n)) /\ file[q] = Data(n)
      <4>1. /\ flawed' = flawed /\ whole' = whole /\ file' = file /\ buf' = <<>>
            /\ \A n : Data(n)' = Data(n)
        BY <1>1, <1>5 DEF Data
      <4>2. QED
        BY <4>1 DEF Reading, Begins
    <3>2. PICK n \in DOMAIN sizes : n \in WholeIn(q)
      BY <1>1, <3>1 DEF Noted, WholeIn
    <3>3. file[q] = Data(n) /\ n \in whole[q]
      BY <1>1, <3>2 DEF Noted, WholeIn
    <3>4. Begins(<<>>, Data(n))
      BY DataIs DEF Begins, FileInv
    <3>5. QED
      BY <3>3, <3>4
  <2>4. CallInv'
    <3>1. MyCandidates'[cand'] = p
      BY <1>1, <1>5
    <3>2. Reading(MyCandidates[cand])'
      BY <2>1, <2>3, <3>1
    <3>3. QED
      BY <1>1, <1>3, <1>5, <2>1, <3>2 DEF CallInv
  <2>5. Untold' /\ AnswersAreAccountable'
    BY <1>4, <1>5 DEF Untold, AnswersAreAccountable
  <2>6. QED
    BY <2>2, <2>4, <2>5 DEF AnswerInv
<1>6. CASE /\ cand \in DOMAIN MyCandidates /\ MyCandidates[cand] \notin there
           /\ cand' = cand + 1 /\ UNCHANGED <<pc, role, tool, buf, answer>>
  <2>1. MyCandidates[cand] \in flawed
    BY <1>1, <1>2, <1>6 DEF Noted, WholeIn
  <2>2. Known(buf)' /\ Known(answer.graph)'
    BY <1>1, <1>6 DEF Known, AnswerInv, ReadTypes
  <2>3. ReadTypes'
    BY <1>1, <1>4, <1>6, <2>2 DEF AnswerInv, ReadTypes
  <2>4. \A i \in 1..(cand' - 1) : i \in DOMAIN MyCandidates => MyCandidates[i] \in flawed
    BY <1>1, <1>3, <1>6, <2>1
  <2>5. CallInv'
    BY <1>1, <1>6, <2>4 DEF CallInv
  <2>6. Untold' /\ AnswersAreAccountable'
    BY <1>4, <1>6 DEF Untold, AnswersAreAccountable
  <2>7. QED
    BY <2>3, <2>5, <2>6 DEF AnswerInv
<1>7. CASE cand \notin DOMAIN MyCandidates /\ Answer(Absent)
  <2>1. \A i \in 1..Len(MyCandidates) : MyCandidates[i] \in flawed
    BY <1>1, <1>2, <1>3, <1>7
  <2>2. Absent \in {"absent", "binary"}
    BY DEF Absent
  <2>3. QED
    BY <1>7, <2>1, <2>2, AnswerReads
<1>8. QED
  BY <1>5, <1>6, <1>7 DEF Look

\* A place that was never flawed holds what is read, to its last block.
LEMMA ReadIsWhole ==
  ASSUME FindTypes, FileInv, AnswerInv, NEW p \in Places, Reading(p), p \notin flawed,
         Len(buf) >= Len(file[p])
  PROVE  \E n \in whole[p] : buf = Data(n) /\ n \in DOMAIN sizes
<1>1. PICK n \in whole[p] : /\ Begins(buf, Data(n))
                            /\ \/ file[p] = Data(n)
                               \/ buf = Data(n) /\ Len(file[p]) <= Len(buf)
  BY DEF Reading
<1>2. n \in DOMAIN sizes /\ buf \in Seq(Blocks)
  BY DEF AnswerInv, ReadTypes
<1>3. Data(n) \in Seq(Blocks)
  BY <1>2, DataIs DEF FileInv
<1>4. CASE file[p] = Data(n)
  BY <1>1, <1>2, <1>3, <1>4, SameBlocks DEF Begins
<1>5. QED
  BY <1>1, <1>2, <1>4

LEMMA ReadReads ==
  ASSUME FindTypes, FileInv, AnswerInv, Read
  PROVE  AnswerInv'
<1> DEFINE p == MyCandidates[cand]
<1>1. /\ UNCHANGED <<profile, sizes, there, file, whole, flawed, role, tool>> /\ Noted /\ Noted'
      /\ MyCandidates' = MyCandidates /\ pc[Reader] = "read" /\ profile \in Profiles
      /\ cand \in Nat \ {0} /\ cand \in DOMAIN MyCandidates /\ p \in there /\ Reading(p)
  BY CallKeeps DEF AnswerInv, CallInv, Calling, ReadTypes, Read
<1>2. MyCandidates \in Seq(Places) /\ p \in Places /\ file[p] \in Seq(Blocks)
      /\ buf \in Seq(Blocks)
  BY <1>1, MineArePlaces DEF AnswerInv, FileInv, FileTypes, ReadTypes
<1>3. \A i \in 1..(cand - 1) : i \in DOMAIN MyCandidates /\ MyCandidates[i] \in flawed
  BY <1>1, <1>2 DEF AnswerInv, CallInv, Calling
<1>4. answer.kind = "none"
  BY <1>1 DEF AnswerInv, Untold
<1>5. CASE /\ Len(buf) < Len(file[p]) /\ buf' = Append(buf, file[p][Len(buf) + 1])
           /\ UNCHANGED <<pc, role, tool, cand, answer>>
  <2>1. Len(buf) + 1 \in DOMAIN file[p] /\ file[p][Len(buf) + 1] \in Blocks
    BY <1>2, <1>5
  <2>2. Known(buf)'
    <3>1. file[p][Len(buf) + 1][1] \in DOMAIN sizes
      BY <1>2, <2>1 DEF FileInv, FileTypes
    <3>2. Known(buf)
      BY DEF AnswerInv, ReadTypes
    <3>3. QED
      BY <1>1, <1>2, <1>5, <3>1, <3>2 DEF Known
  <2>3. ReadTypes'
    <3>1. buf' \in Seq(Blocks)
      BY <1>2, <1>5, <2>1
    <3>2. Known(answer.graph)'
      BY <1>1, <1>5 DEF AnswerInv, ReadTypes, Known
    <3>3. QED
      BY <1>1, <1>4, <1>5, <2>2, <3>1, <3>2 DEF AnswerInv, ReadTypes
  <2>4. ASSUME NEW q \in Places, q = p
        PROVE  Reading(q)'
    <3>1. SUFFICES ASSUME q \notin flawed
                   PROVE  \E n \in whole[q] : Begins(buf', Data(n)) /\ file[q] = Data(n)
      <4>1. flawed' = flawed /\ whole' = whole /\ file' = file /\ \A n : Data(n)' = Data(n)
        BY <1>1 DEF Data
      <4>2. QED
        BY <4>1 DEF Reading, Begins
    <3>2. PICK n \in whole[q] : Begins(buf, Data(n)) /\ file[q] = Data(n)
      BY <1>1, <1>2, <1>5, <2>4, <3>1 DEF Reading
    <3>3. Begins(buf', Data(n))
      BY <1>2, <1>5, <2>1, <2>4, <3>2 DEF Begins
    <3>4. QED
      BY <3>2, <3>3
  <2>5. CallInv'
    <3>1. MyCandidates'[cand'] = p
      BY <1>1, <1>5
    <3>2. Reading(MyCandidates[cand])'
      BY <1>2, <2>4, <3>1
    <3>3. QED
      BY <1>1, <1>3, <1>5, <3>2 DEF CallInv
  <2>6. Untold' /\ AnswersAreAccountable'
    BY <1>4, <1>5 DEF Untold, AnswersAreAccountable
  <2>7. QED
    BY <2>3, <2>5, <2>6 DEF AnswerInv
<1>6. CASE Len(buf) >= Len(file[p]) /\ MayParse(buf) /\ Answer("graph")
  <2>1. \/ \E n \in whole[p] : buf = Data(n)
        \/ p \in flawed /\ MayParse(buf)
    BY <1>1, <1>2, <1>6, ReadIsWhole
  <2>2. QED
    BY <1>1, <1>3, <1>6, <2>1, AnswerReads
<1>7. ASSUME Len(buf) >= Len(file[p]), ~MustParse(buf)
      PROVE  p \in flawed
  BY <1>1, <1>2, <1>7, ReadIsWhole DEF MustParse
<1>8. CASE Len(buf) >= Len(file[p]) /\ ~MustParse(buf) /\ Answer("torn")
  <2>1. p \in flawed
    BY <1>7, <1>8
  <2>2. QED
    BY <1>1, <1>3, <1>8, <2>1, AnswerReads
<1>9. CASE /\ Len(buf) >= Len(file[p]) /\ ~MustParse(buf) /\ cand' = cand + 1
           /\ pc' = [pc EXCEPT ![Reader] = "look"] /\ UNCHANGED <<role, tool, buf, answer>>
  <2>1. pc'[Reader] = "look" /\ p \in flawed
    BY <1>7, <1>9, ReaderIsNoBuilder DEF FindTypes
  <2>2. Known(buf)' /\ Known(answer.graph)'
    BY <1>1, <1>9 DEF Known, AnswerInv, ReadTypes
  <2>3. ReadTypes'
    BY <1>1, <1>4, <1>9, <2>1, <2>2 DEF AnswerInv, ReadTypes
  <2>4. \A i \in 1..(cand' - 1) : i \in DOMAIN MyCandidates => MyCandidates[i] \in flawed
    BY <1>1, <1>3, <1>9, <2>1
  <2>5. CallInv'
    BY <1>1, <1>9, <2>1, <2>4 DEF CallInv
  <2>6. Untold' /\ AnswersAreAccountable'
    BY <1>4, <1>9 DEF Untold, AnswersAreAccountable
  <2>7. QED
    BY <2>3, <2>5, <2>6 DEF AnswerInv
<1>10. QED
  BY <1>5, <1>6, <1>8, <1>9 DEF Read

\* Before there is a call, and when it is over.
LEMMA OutsideReads ==
  ASSUME FindTypes, FileInv, WalkInv, AnswerInv,
         \/ \E d \in Dirs, c \in Contents : Edit(d, c)
         \/ \E tree \in Trees, d \in Dirs, given \in BOOLEAN, r \in {"cli", "server"} :
              StartReader(tree, d, given, r)
         \/ Discover \/ LoadFromDir \/ Stop \/ UNCHANGED vars
  PROVE  AnswerInv'
<1>1. CASE \E d \in Dirs, c \in Contents : Edit(d, c)
  <2>1. /\ pc[Reader] \in {"walk", "load"}
        /\ UNCHANGED <<pc, sizes, there, file, role, tool, cand, buf, answer, history>>
    BY <1>1 DEF Edit, files, reading
  <2>2. answer.kind = "none" /\ tool \in {"cli", "query", "context"}
    BY <2>1 DEF AnswerInv, Untold, ReadTypes
  <2>3. QED
    BY <2>1, <2>2, SilentReads
<1>2. CASE Discover
  <2>1. /\ pc[Reader] = "walk"
        /\ UNCHANGED <<sizes, there, file, role, tool, cand, buf, answer, history>>
    BY <1>2 DEF Discover, files, reading
  <2>2. pc'[Reader] \in {"walk", "load", "idle"}
    BY <1>2, <2>1, ReaderIsNoBuilder DEF Discover, Found, NoProfile, Climb, FindTypes
  <2>3. answer.kind = "none" /\ tool \in {"cli", "query", "context"}
    BY <2>1 DEF AnswerInv, Untold, ReadTypes
  <2>4. QED
    BY <2>1, <2>2, <2>3, SilentReads
<1>3. CASE LoadFromDir
  <2>1. /\ pc[Reader] = "load"
        /\ UNCHANGED <<sizes, there, file, role, tool, cand, buf, answer, history>>
    BY <1>3 DEF LoadFromDir, files, reading
  <2>2. pc'[Reader] \in {"idle", "ready"} /\ (pc'[Reader] = "ready" => profile' \in Profiles)
    BY <1>3, LoadWalks
  <2>3. answer.kind = "none" /\ tool \in {"cli", "query", "context"}
    BY <2>1 DEF AnswerInv, Untold, ReadTypes
  <2>4. QED
    BY <2>1, <2>2, <2>3, SilentReads
<1>4. CASE Stop
  <2>1. /\ pc' = [pc EXCEPT ![Reader] = "idle"] /\ UNCHANGED <<sizes, there, file, role>>
        /\ tool' = "cli" /\ cand' = 1 /\ buf' = <<>> /\ answer' = NoAnswer
        /\ whole' = [p \in Places |-> {}] /\ flawed' = {}
    BY <1>4 DEF Stop, files
  <2>2. pc'[Reader] = "idle" /\ role' \in {"cli", "server"}
    BY <2>1, ReaderIsNoBuilder DEF FindTypes, AnswerInv, ReadTypes
  <2>3. QED
    BY <2>1, <2>2, FreshReads
<1>5. CASE \E tree \in Trees, d \in Dirs, given \in BOOLEAN, r \in {"cli", "server"} :
             StartReader(tree, d, given, r)
  <2>1. /\ \E l \in {"walk", "load"} : pc' = [pc EXCEPT ![Reader] = l]
        /\ UNCHANGED <<sizes, there, file, cand, buf>> /\ role' \in {"cli", "server"}
        /\ tool' = "cli" /\ answer' = NoAnswer
        /\ whole' = [p \in Places |-> {}] /\ flawed' = {}
    BY <1>5 DEF StartReader, files, Goto
  <2>2. pc'[Reader] \in {"walk", "load"}
    BY <2>1, ReaderIsNoBuilder DEF FindTypes
  <2>3. QED
    BY <2>1, <2>2, FreshReads
<1>6. CASE UNCHANGED vars
  <2>1. UNCHANGED <<pc, profile, sizes, there, file, role, tool, cand, buf, answer, whole, flawed>>
    BY <1>6 DEF vars, finding, files, reading, history
  <2>2. MyCandidates' = MyCandidates /\ \A n : Data(n)' = Data(n)
    BY <2>1 DEF MyCandidates, Data
  <2>3. ReadTypes'
    BY <2>1, <2>2 DEF AnswerInv, ReadTypes, Known
  <2>4. AnswersAreAccountable' /\ Untold'
    BY <2>1, <2>2 DEF AnswerInv, AnswersAreAccountable, MayParse, Last, Untold
  <2>5. CallInv'
    <3>1. \A p : WholeIn(p)' = WholeIn(p) /\ (Reading(p) => Reading(p)')
      BY <2>1, <2>2 DEF WholeIn, Reading, Begins
    <3>2. QED
      BY <2>1, <2>2, <3>1 DEF AnswerInv, CallInv, Calling, Noted
  <2>6. QED
    BY <2>3, <2>4, <2>5 DEF AnswerInv
<1>7. QED
  BY <1>1, <1>2, <1>3, <1>4, <1>5, <1>6

-----------------------------------------------------------------------------
(* Answers while builders are at work                                      *)

\* Builds are added, files are not removed.
LEMMA BuildsStay ==
  ASSUME FindTypes, FileInv, NEW b \in Builders, BuilderStep(b)
  PROVE  /\ sizes' \in Seq(Sizes) /\ there \subseteq there'
         /\ \A n \in DOMAIN sizes : n \in DOMAIN sizes' /\ sizes'[n] = sizes[n]
                                    /\ Data(n)' = Data(n)
<1>1. sizes \in Seq(Sizes)
  BY DEF FileInv, FileTypes
<1>2. \/ UNCHANGED sizes
      \/ \E size \in Sizes : sizes' = Append(sizes, size)
  BY DEF BuilderStep, Build, Open, Write, Return, Abandon
<1>3. /\ sizes' \in Seq(Sizes)
      /\ \A n \in DOMAIN sizes : n \in DOMAIN sizes' /\ sizes'[n] = sizes[n]
  BY <1>1, <1>2
<1>4. there \subseteq there'
  BY DEF BuilderStep, Build, Open, Write, Return, Abandon
<1>5. QED
  BY <1>3, <1>4 DEF Data

\* A file is not whole as a graph that is not written yet.
LEMMA NoneIsEarly ==
  ASSUME FindTypes, FileInv, NEW b \in Builders, BuilderStep(b), UNCHANGED <<there, file>>
  PROVE  \A p \in Places : WholeIn(p)' = WholeIn(p)
<1>1. ASSUME NEW p \in Places, NEW n \in DOMAIN sizes', file[p] = Data(n)'
      PROVE  n \in DOMAIN sizes
  <2>1. FileTypes' /\ sizes'[n] \in Nat \ {0} /\ Len(Data(n)') = sizes'[n]
        /\ \A i \in 1..sizes'[n] : Data(n)'[i] = <<n, i>>
    <3>1. FileTypes'
      BY BuilderKeepsFileInv DEF FileInv
    <3>2. sizes'[n] \in Nat \ {0}
      <4>1. sizes' \in Seq(Sizes)
        BY BuildsStay
      <4>2. sizes'[n] \in Sizes
        BY <1>1, <4>1
      <4>3. QED
        BY <4>2, GraphAssumption
    <3>3. Data(n)' = [i \in 1..sizes'[n] |-> <<n, i>>]
      BY DEF Data
    <3>4. QED
      BY <3>1, <3>2, <3>3
  <2>2. 1 \in DOMAIN file[p] /\ file[p][1] = <<n, 1>>
    BY <1>1, <2>1 DEF FileInv, FileTypes
  <2>3. file[p][1][1] = n
    BY <2>2
  <2>4. QED
    BY <2>2, <2>3 DEF FileInv, FileTypes
<1>2. \A n \in DOMAIN sizes : n \in DOMAIN sizes' /\ Data(n)' = Data(n)
  BY BuildsStay
<1>3. QED
  BY <1>1, <1>2 DEF WholeIn

\* The history grows, and has the moment there is after the step.
LEMMA HistoryGrows ==
  ASSUME FindTypes, FileInv, AnswerInv, NEW b \in Builders, BuilderStep(b)
  PROVE  /\ whole' \in [Places -> SUBSET (DOMAIN sizes')] /\ flawed' \subseteq Places
         /\ \A p \in Places : whole[p] \subseteq whole'[p]
         /\ flawed \subseteq flawed'
         /\ Calling => Noted'
         /\ ~Calling => UNCHANGED history
<1>1. /\ whole \in [Places -> SUBSET (DOMAIN sizes)] /\ flawed \subseteq Places
      /\ DOMAIN sizes \subseteq DOMAIN sizes'
  BY BuildsStay DEF AnswerInv, ReadTypes
<1>2. CASE UNCHANGED <<there, file>> /\ UNCHANGED history
  <2>1. Calling => Noted
    BY DEF AnswerInv, CallInv
  <2>2. Calling => Noted'
    BY <1>2, <2>1, NoneIsEarly DEF Noted, history
  <2>3. QED
    BY <1>1, <1>2, <2>2 DEF history
<1>3. CASE Note
  <2>1. CASE ~Calling
    BY <1>1, <1>3, <2>1 DEF Note, Calling, history
  <2>2. CASE Calling
    <3>1. /\ whole' = [p \in Places |-> whole[p] \cup WholeIn(p)']
          /\ flawed' = flawed \cup {p \in Places : WholeIn(p)' = {}}
      BY <1>3, <2>2 DEF Note, Calling
    <3>2. \A p \in Places : WholeIn(p)' \subseteq DOMAIN sizes'
      BY DEF WholeIn
    <3>3. Noted'
      BY <3>1 DEF Noted
    <3>4. QED
      BY <1>1, <2>2, <3>1, <3>2, <3>3
  <2>3. QED
    BY <2>1, <2>2
<1>4. QED
  BY <1>2, <1>3 DEF BuilderStep, Build, Open, Write, Return, Abandon

\* Writing a block of another graph over a whole one leaves a whole one only if
\* it is the same, or both are one block long.
LEMMA OverWhole ==
  ASSUME FileTypes, NEW n \in DOMAIN sizes, NEW m \in DOMAIN sizes,
         NEW k, NEW x, Overlays(Data(m), Data(n), k, x)
  PROVE  m = n \/ (sizes[m] = 1 /\ sizes[n] = 1)
<1>1. /\ sizes[n] \in Nat \ {0} /\ Len(Data(n)) = sizes[n]
      /\ \A i \in 1..sizes[n] : Data(n)[i] = <<n, i>>
  BY DataIs
<1>2. /\ sizes[m] \in Nat \ {0} /\ Len(Data(m)) = sizes[m]
      /\ \A i \in 1..sizes[m] : Data(m)[i] = <<m, i>>
  BY DataIs
<1>3. ASSUME m # n, NEW i \in 1..sizes[m], i # k
      PROVE  FALSE
  <2>1. i \in 1..sizes[n] /\ Data(m)[i] = Data(n)[i]
    BY <1>1, <1>2, <1>3 DEF Overlays
  <2>2. <<m, i>> = <<n, i>>
    BY <1>1, <1>2, <2>1
  <2>3. QED
    BY <1>3, <2>2
<1>4. k \in 1..sizes[m] /\ sizes[m] = IF k > sizes[n] THEN k ELSE sizes[n]
  BY <1>1, <1>2 DEF Overlays
<1>5. CASE m # n
  <2>1. \A i \in 1..sizes[m] : i = k
    BY <1>3, <1>5
  <2>2. 1 \in 1..sizes[m] /\ sizes[m] \in 1..sizes[m]
    BY <1>2
  <2>3. sizes[m] = 1
    BY <2>1, <2>2
  <2>4. QED
    BY <1>1, <1>4, <2>3
<1>6. QED
  BY <1>5

\* What a builder does to the place being read: the graph read stays there or is
\* read already, or the place is flawed, or nothing is read yet and another graph
\* of one block is there.
LEMMA ReadingGoesOn ==
  ASSUME FindTypes, FileInv, AnswerInv, Calling, NEW b \in Builders, BuilderStep(b),
         NEW p \in Places, Reading(p)
  PROVE  Reading(p)'
<1>1. SUFFICES ASSUME p \notin flawed'
               PROVE  \E m \in whole'[p] :
                        /\ Begins(buf, Data(m)')
                        /\ file'[p] = Data(m)' \/ (buf = Data(m)' /\ Len(file'[p]) <= Len(buf))
  <2>1. buf' = buf
    BY BuilderChanges DEF reading
  <2>2. QED
    BY <2>1 DEF Reading, Begins
<1>2. /\ p \notin flawed /\ Noted /\ whole[p] \subseteq whole'[p]
      /\ \A i \in DOMAIN sizes : Data(i)' = Data(i)
      /\ FileTypes /\ buf \in Seq(Blocks)
  BY <1>1, HistoryGrows, BuildsStay DEF AnswerInv, CallInv, ReadTypes, FileInv
<1>3. PICK n \in whole[p] : /\ Begins(buf, Data(n))
                            /\ file[p] = Data(n) \/ (buf = Data(n) /\ Len(file[p]) <= Len(buf))
  BY <1>2 DEF Reading
<1>4. n \in DOMAIN sizes /\ n \in whole'[p] /\ Data(n)' = Data(n)
  BY <1>2, <1>3 DEF AnswerInv, ReadTypes
<1>5. CASE file'[p] = file[p]
  BY <1>3, <1>4, <1>5
<1>6. CASE file'[p] # file[p]
  <2>1. PICK m \in DOMAIN sizes' : m \in WholeIn(p)'
    BY <1>1, HistoryGrows DEF Noted, WholeIn
  <2>2. file'[p] = Data(m)' /\ m \in whole'[p]
    BY <2>1, HistoryGrows DEF Noted, WholeIn
  <2>3. CASE Open(b)
    <3>1. file'[p] = <<>> /\ sizes' = sizes
      BY <1>2, <1>6, <2>3 DEF Open, FileTypes
    <3>2. m \in DOMAIN sizes /\ Data(m) = <<>>
      BY <1>2, <2>1, <2>2, <3>1
    <3>3. QED
      BY <1>2, <3>2, DataIs
  <2>4. CASE Write(b)
    <3>1. /\ building[b].place = p /\ sizes' = sizes
          /\ \E k, x : Overlays(file'[p], file[p], k, x)
      BY <1>6, <2>4, WriteOverlays
    <3>2. PICK o \in DOMAIN sizes : file[p] = Data(o)
      BY <1>2 DEF Noted, WholeIn
    <3>3. m \in DOMAIN sizes /\ file'[p] = Data(m)
      BY <1>2, <2>1, <2>2, <3>1
    <3>4. m # o
      BY <1>6, <3>2, <3>3
    <3>5. sizes[m] = 1 /\ sizes[o] = 1
      BY <1>2, <3>1, <3>2, <3>3, <3>4, OverWhole
    <3>6. Len(file'[p]) = 1 /\ Len(file[p]) = 1 /\ Len(Data(m)) = 1
      BY <1>2, <3>2, <3>3, <3>5, DataIs
    <3>7. CASE buf = Data(n) /\ Len(file[p]) <= Len(buf)
      BY <1>3, <1>4, <3>6, <3>7
    <3>8. CASE file[p] = Data(n)
      <4>0. Len(Data(n)) = 1 /\ Len(buf) <= Len(Data(n)) /\ Len(buf) \in Nat
        <5>1. Len(Data(n)) = 1
          BY <3>6, <3>8
        <5>2. Len(buf) <= Len(Data(n))
          BY <1>3 DEF Begins
        <5>3. Len(buf) \in Nat
          BY <1>2
        <5>4. QED
          BY <5>1, <5>2, <5>3
      <4>1. Len(Data(n)) = 1 /\ (Len(buf) = 0 \/ Len(buf) = 1)
        <5>1. \A i \in Nat : i <= 1 => i = 0 \/ i = 1
          OBVIOUS
        <5>2. Len(buf) \in Nat /\ Len(buf) <= 1
          BY <4>0
        <5>3. QED
          BY <4>0, <5>1, <5>2
      <4>2. CASE Len(buf) = 1
        <5>1. buf = Data(n)
          BY <1>2, <1>3, <1>4, <4>1, <4>2, SameBlocks, DataIs DEF Begins
        <5>2. QED
          BY <1>3, <1>4, <3>6, <4>2, <5>1
      <4>3. CASE Len(buf) = 0
        <5>1. Begins(buf, Data(m))
          BY <3>6, <4>3 DEF Begins
        <5>2. QED
          BY <1>2, <2>2, <3>3, <5>1
      <4>4. QED
        <5>1. Len(buf) = 1 \/ Len(buf) = 0
          BY <4>1
        <5>2. QED
          BY <4>2, <4>3, <5>1
    <3>9. QED
      BY <1>3, <3>7, <3>8
  <2>5. QED
    BY <1>6, <2>3, <2>4 DEF BuilderStep, Build, Return, Abandon
<1>7. QED
  BY <1>5, <1>6

LEMMA BuilderReads ==
  ASSUME FindTypes, FileInv, AnswerInv, NEW b \in Builders, BuilderStep(b)
  PROVE  AnswerInv'
<1>1. /\ UNCHANGED <<profile, role, tool, cand, buf, answer>> /\ pc'[Reader] = pc[Reader]
      /\ MyCandidates' = MyCandidates
  BY BuilderChanges DEF finding, reading, MyCandidates
<1>2. /\ sizes' \in Seq(Sizes) /\ there \subseteq there'
      /\ \A n \in DOMAIN sizes : n \in DOMAIN sizes' /\ sizes'[n] = sizes[n] /\ Data(n)' = Data(n)
  BY BuildsStay
<1>3. /\ whole' \in [Places -> SUBSET (DOMAIN sizes')] /\ flawed' \subseteq Places
      /\ \A p \in Places : whole[p] \subseteq whole'[p]
      /\ flawed \subseteq flawed' /\ (Calling => Noted') /\ (~Calling => UNCHANGED history)
  BY HistoryGrows
<1>4. ReadTypes'
  <2>1. Known(buf)' /\ Known(answer.graph)'
    BY <1>1, <1>2 DEF AnswerInv, ReadTypes, Known
  <2>2. QED
    BY <1>1, <1>2, <1>3, <2>1 DEF AnswerInv, ReadTypes
<1>5. CallInv'
  <2>1. SUFFICES ASSUME Calling
                 PROVE  CallInv'
    BY <1>1 DEF CallInv, Calling
  <2>2. \A i \in 1..(cand - 1) : i \in DOMAIN MyCandidates => MyCandidates[i] \in flawed
    BY <2>1 DEF AnswerInv, CallInv
  <2>3. ASSUME pc[Reader] = "read"
        PROVE  Reading(MyCandidates[cand])'
    <3>1. MyCandidates[cand] \in Places /\ Reading(MyCandidates[cand])
      BY <2>1, <2>3, MineArePlaces DEF AnswerInv, CallInv, ReadTypes
    <3>2. \A p \in Places : Reading(p) => Reading(p)'
      BY <2>1, ReadingGoesOn
    <3>3. MyCandidates'[cand'] = MyCandidates[cand]
      BY <1>1
    <3>4. QED
      BY <3>1, <3>2, <3>3
  <2>4. QED
    BY <1>1, <1>3, <2>1, <2>2, <2>3 DEF CallInv
<1>6. Untold'
  BY <1>1 DEF AnswerInv, Untold
<1>7. AnswersAreAccountable'
  <2>1. CASE answer.kind = "none"
    BY <1>1, <2>1 DEF AnswersAreAccountable
  <2>2. CASE answer.kind # "none"
    <3>1. UNCHANGED <<whole, flawed>>
      BY <1>3, <2>2 DEF AnswerInv, Untold, Calling, history
    <3>2. ASSUME answer.kind = "graph"
          PROVE  \A n \in whole[MyCandidates[answer.at]] : n \in DOMAIN sizes
      BY <2>2, <3>2, MineArePlaces DEF AnswerInv, ReadTypes
    <3>3. MayParse(answer.graph) => MayParse(answer.graph)'
      <4>1. \A i \in DOMAIN answer.graph : Last(answer.graph[i])' <=> Last(answer.graph[i])
        BY <1>1, <1>2 DEF AnswerInv, ReadTypes, Known, Last
      <4>2. QED
        BY <1>1, <4>1 DEF MayParse
    <3>4. QED
      BY <1>1, <1>2, <3>1, <3>2, <3>3 DEF AnswerInv, AnswersAreAccountable
  <2>3. QED
    BY <2>1, <2>2
<1>8. QED
  BY <1>4, <1>5, <1>6, <1>7 DEF AnswerInv

-----------------------------------------------------------------------------
(* The theorems                                                            *)

LEMMA InvHoldsAtFirst == Init => Inv
<1> SUFFICES ASSUME Init
             PROVE  Inv
  OBVIOUS
<1>1. /\ config = NoTree /\ edits = 0 /\ pc = [p \in Procs |-> "idle"]
      /\ dir = 1 /\ direct = FALSE /\ profile = "none" /\ during = [d \in Dirs |-> {}]
      /\ sizes = <<>> /\ there = {} /\ file = [p \in Places |-> <<>>]
      /\ building = [b \in Builders |-> Idle] /\ clash = {} /\ owner = [p \in Places |-> 0]
      /\ role = "cli" /\ tool = "cli" /\ cand = 1 /\ buf = <<>> /\ answer = NoAnswer
      /\ whole = [p \in Places |-> {}] /\ flawed = {}
  BY DEF Init
<1>2. pc[Reader] = "idle" /\ \A b \in Builders : pc[b] = "idle"
  BY <1>1, ReaderIsNoBuilder
<1>3. FindTypes
  <2>1. NoTree \in [Dirs -> Contents] /\ 1 \in Dirs /\ 0 \in 0..MaxEdits
    BY GraphAssumption DEF NoTree, Contents, Dirs
  <2>2. pc \in [Procs -> Steps]
    BY <1>1 DEF Steps
  <2>3. QED
    BY <1>1, <1>2, <2>1, <2>2 DEF FindTypes
<1>4. FileInv
  <2>1. FileTypes
    BY <1>1, <1>2 DEF FileTypes, Idle
  <2>2. QED
    BY <1>1, <1>2, <2>1 DEF FileInv, Laid, Apart, Kept, Amid, Writing
<1>5. WalkInv
  BY <1>2 DEF WalkInv
<1>6. AnswerInv
  <2>1. ReadTypes
    BY <1>1, <1>2 DEF ReadTypes, NoAnswer, Known
  <2>2. CallInv /\ Untold /\ AnswersAreAccountable
    BY <1>1, <1>2 DEF CallInv, Calling, Untold, AnswersAreAccountable, NoAnswer
  <2>3. QED
    BY <2>1, <2>2 DEF AnswerInv
<1>7. QED
  BY <1>3, <1>4, <1>5, <1>6 DEF Inv

LEMMA InvIsKept ==
  ASSUME Inv, [Next]_vars
  PROVE  Inv'
<1> USE DEF Inv
<1>1. FindTypes' /\ WalkInv'
  BY NextWalks
<1>2. CASE \E b \in Builders : BuilderStep(b)
  BY <1>1, <1>2, BuilderKeepsFileInv, BuilderReads
<1>3. CASE ReaderOrEdit \/ UNCHANGED vars
  <2>1. FileInv'
    BY <1>3, ReaderKeepsFileInv
  <2>2. AnswerInv'
    BY <1>3, OutsideReads, CallReads, LookReads, ReadReads DEF ReaderOrEdit, ReaderStep
  <2>3. QED
    BY <1>1, <2>1, <2>2
<1>4. QED
  BY <1>2, <1>3 DEF Next, ReaderOrEdit

\* The invariant: what builders have laid, what a walk has passed, and what a call
\* has seen.
THEOREM GraphInvariant == Spec => []Inv
<1>1. Inv /\ [Next]_vars => Inv'
  BY InvIsKept
<1>2. QED
  BY InvHoldsAtFirst, <1>1, PTL DEF Spec

\* Types: a file holds blocks of builds in order, and a call has a profile and,
\* where it reads, a file.
THEOREM TypeCorrect == Spec => []TypeOK
<1>1. Inv => TypeOK
  BY Types DEF Inv, AnswerInv, FileInv
<1>2. QED
  BY <1>1, GraphInvariant, PTL

\* With any number of builders, a build that returned and shared its place with
\* nobody is whole there until the next truncation.
THEOREM UndisturbedBuildAlwaysStays == Spec => []UndisturbedBuildStays
<1>1. Inv => UndisturbedBuildStays
  BY DEF Inv, FileInv, Kept, UndisturbedBuildStays
<1>2. QED
  BY <1>1, GraphInvariant, PTL

\* Whatever builders do under a call, what it serves, passes over or cannot read is
\* accounted for by what was in the places while it ran.
THEOREM AnswersStayAccountable == Spec => []AnswersAreAccountable
<1>1. Inv => AnswersAreAccountable
  BY DEF Inv, AnswerInv
<1>2. QED
  BY <1>1, GraphInvariant, PTL

\* However configs change under a walk, of any depth, the profile is the nearest
\* config the process could find, and a failure has its reason.
THEOREM ProfileStaysNearest == Spec => ProfileIsNearest
<1>1. Inv /\ [Next]_vars => [profile' \notin {profile, "none"} => Accounted(profile')]_vars
  BY NextWalks DEF Inv
<1>2. QED
  BY <1>1, GraphInvariant, PTL DEF Spec, ProfileIsNearest
=============================================================================
