----------------------------- MODULE GraphCache -----------------------------
(***************************************************************************)
(* graph.json, the compiled graph: `awareness graph build' writes it in    *)
(* place, `awareness graph query' and `inspect' and the tools of the MCP   *)
(* server read it.  Each process first finds .awareness.yaml by walking up *)
(* from where it was started, and takes the places of the graph from it; a *)
(* server does so once, a command every time.                              *)
(*                                                                         *)
(* A graph is known by the number of its build; the file of build n is the *)
(* sequence of blocks <<n, 1>>, <<n, 2>>, ..., as many as its size.  The   *)
(* kernel admits one write(2) or truncation at a time to a file, and lets  *)
(* reads in between.  Nothing in the repository removes graph.json.        *)
(***************************************************************************)
EXTENDS Naturals, Sequences, FiniteSets

CONSTANTS
  Depth,          \* directories from the working directory, 1, to the root
  GitRoots,       \* those that hold a .git entry
  Profiles,       \* profiles a config file may describe
  Places,         \* paths a graph.json may have
  NoPlace,        \* an empty path in a profile
  CacheGraph,     \* profile -> graph.json in its cache_dir, or NoPlace
  RootGraph,      \* profile -> cache/graph.json in its awareness root, or NoPlace
  SlashGraph,     \* the place /cache/graph.json
  BinaryBeside,   \* places with a graph.db beside them
  Outs,           \* places a caller names with --out
  Sizes,          \* sizes a graph may have, in blocks
  Builders,       \* processes that run `awareness graph build'
  Reader,         \* the process that reads: a command or the server
  Trees,          \* contents the config files may have by then
  MaxEdits,       \* bound: changes of config files
  MaxBuilds       \* bound: graphs, the ones there at the start included

Dirs  == 1..Depth
Procs == Builders \cup {Reader}

\* What a config file may be: a broken one has bad YAML, a bad TTL or no name.
Contents == Profiles \cup {"missing", "broken"}

ASSUME GraphAssumption ==
  /\ Depth \in Nat \ {0} /\ GitRoots \subseteq Dirs
  /\ Profiles \cap {"missing", "broken", "none", "failed"} = {}
  /\ NoPlace \notin Places /\ SlashGraph \in Places
  /\ CacheGraph \in [Profiles -> Places \cup {NoPlace}]
  /\ RootGraph \in [Profiles -> Places \cup {NoPlace}]
  /\ BinaryBeside \subseteq Places
  /\ Outs \subseteq Places /\ Trees \subseteq [Dirs -> Contents]
  /\ Sizes \subseteq Nat \ {0}
  /\ Reader \notin Builders
  /\ MaxEdits \in Nat /\ MaxBuilds \in Nat

VARIABLES
  config,    \* the contents of .awareness.yaml in each directory
  edits,     \* how much of MaxEdits is used
  pc,        \* per process: where it is
  dir,       \* per process: the directory it looks at, or found its profile in
  direct,    \* per process: whether --project-root named that directory
  profile,   \* per process: its profile, "none" or "failed"
  during,    \* history: contents each config had while a process resolved
  sizes,     \* the size of each build
  there,     \* the places that have a file
  file,      \* the blocks in it
  building,  \* per builder: the number of its build, its place, how much it wrote
  clash,     \* history: builders that had the place open along with another
  owner,     \* history: the build that returned last, no truncation since
  role,      \* what the reader is: "cli" or "server"
  tool,      \* the call it serves
  cand,      \* the candidate it is at
  buf,       \* what it has read
  answer,    \* what the call answered
  whole,     \* history: builds that were whole in each place during the call
  flawed     \* history: places that were not whole at some moment of it

projects == <<config, edits>>
finding  == <<dir, direct, profile, during>>
files    == <<sizes, there, file, building, clash, owner>>
reading  == <<role, tool, cand, buf, answer>>
history  == <<whole, flawed>>
vars     == <<projects, pc, finding, files, reading, history>>

Goto(p, from, to) == pc[p] = from /\ pc' = [pc EXCEPT ![p] = to]

Data(n) == [i \in 1..sizes[n] |-> <<n, i>>]

WholeIn(p) == {n \in DOMAIN sizes : p \in there /\ file[p] = Data(n)}

NoTree == [d \in Dirs |-> "missing"]

NoAnswer == [kind |-> "none", at |-> 0, graph |-> <<>>]

Idle == [n |-> 0, place |-> NoPlace, wrote |-> 0]

-----------------------------------------------------------------------------
(* People edit, remove and restore config files.  Nothing reads them but a *)
(* resolution, so `config' says what they are while one is under way.      *)

Edit(d, c) ==
  /\ pc[Reader] \in {"walk", "load"}
  /\ edits < MaxEdits /\ edits' = edits + 1
  /\ config[d] # c
  /\ config' = [config EXCEPT ![d] = c]
  /\ during' = [during EXCEPT ![d] = @ \cup {c}]
  /\ UNCHANGED <<pc, dir, direct, profile, files, reading, history>>

-----------------------------------------------------------------------------
(* ResolveProfile, step by step for the reader.  A builder resolves in the *)
(* same way, at any time, and so may have any profile.                     *)

\* A reader starts in directory 1, or is given a directory to look in.
StartReader(tree, d, given, r) ==
  /\ given \/ d = 1
  /\ Goto(Reader, "idle", IF given THEN "load" ELSE "walk")
  /\ dir' = d /\ direct' = given /\ profile' = "none"
  /\ config' = tree /\ edits' = 0
  /\ during' = [e \in Dirs |-> {tree[e]}]
  /\ role' = r /\ tool' = "cli" /\ answer' = NoAnswer
  /\ whole' = [p \in Places |-> {}] /\ flawed' = {}
  /\ UNCHANGED <<files, cand, buf>>

\* The resolution is over.
Forget ==
  /\ config' = NoTree /\ edits' = 0
  /\ dir' = 1 /\ direct' = FALSE /\ during' = [d \in Dirs |-> {}]

\* Both a command and the server exit when there is no profile.
NoProfile ==
  /\ pc' = [pc EXCEPT ![Reader] = "idle"]
  /\ profile' = "failed"
  /\ Forget

\* The config is in the directory: load it.
Found == pc' = [pc EXCEPT ![Reader] = "load"] /\ UNCHANGED <<projects, finding>>

\* The config is not: on to the parent directory.
Climb == dir' = dir + 1 /\ UNCHANGED <<projects, pc, direct, profile, during>>

\* Mutant: the repository boundary is looked for first.
DiscoverGitFirst ==
  /\ pc[Reader] = "walk"
  /\ \/ dir \in GitRoots /\ NoProfile
     \/ dir \notin GitRoots /\ config[dir] # "missing" /\ Found
     \/ dir \notin GitRoots /\ config[dir] = "missing" /\ dir = Depth /\ NoProfile
     \/ dir \notin GitRoots /\ config[dir] = "missing" /\ dir < Depth /\ Climb
  /\ UNCHANGED <<files, reading, history>>

\* One turn of the loop: the config is here, or the walk stops at the repository
\* root or the filesystem root, or goes up.
Discover ==
  /\ pc[Reader] = "walk"
  /\ \/ config[dir] # "missing" /\ Found
     \/ config[dir] = "missing" /\ (dir \in GitRoots \/ dir = Depth) /\ NoProfile
     \/ config[dir] = "missing" /\ dir \notin GitRoots /\ dir < Depth /\ Climb
  /\ UNCHANGED <<files, reading, history>>

\* loadFromDir reads what the config is by now.
LoadFromDir ==
  /\ pc[Reader] = "load"
  /\ \/ /\ config[dir] \in Profiles
        /\ pc' = [pc EXCEPT ![Reader] = "ready"]
        /\ profile' = config[dir]
        /\ Forget
     \/ config[dir] \notin Profiles /\ NoProfile
  /\ UNCHANGED <<files, reading, history>>

-----------------------------------------------------------------------------
(* Where graphs are.  Paths are concatenated, so that the command looks in *)
(* /cache when the profile has no awareness root; the tools leave it out.  *)

IfPlace(p) == IF p = NoPlace THEN <<>> ELSE <<p>>

Candidates(t, prof) ==
  CASE t = "cli"     -> IfPlace(CacheGraph[prof])
                          \o <<IF RootGraph[prof] = NoPlace THEN SlashGraph ELSE RootGraph[prof]>>
    [] t = "query"   -> IfPlace(CacheGraph[prof])
    [] t = "context" -> IfPlace(CacheGraph[prof]) \o IfPlace(RootGraph[prof])

DefaultOut(prof) == Candidates("cli", prof)[1]

-----------------------------------------------------------------------------
(* runGraphBuild.                                                          *)

\* The files of places ps are about to change as file' and there' say.
Note ==
  IF pc[Reader] \in {"look", "read"}
  THEN /\ whole' = [p \in Places |-> whole[p] \cup WholeIn(p)']
       /\ flawed' = flawed \cup {p \in Places : WholeIn(p)' = {}}
  ELSE UNCHANGED history

\* Build and marshal the graph, for the place --out names or the default one.
Build(b, prof, size, out) ==
  /\ Len(sizes) < MaxBuilds
  /\ out = DefaultOut(prof) \/ out \in Outs
  /\ Goto(b, "idle", "open")
  /\ sizes' = Append(sizes, size)
  /\ building' = [building EXCEPT ![b] = [n |-> Len(sizes) + 1, place |-> out, wrote |-> 0]]
  /\ UNCHANGED <<projects, finding, there, file, clash, owner, reading, history>>

Writing(b) == pc[b] = "write"

\* A write(2) is under way in place p.
Inside(p) == \E b \in Builders : /\ Writing(b) /\ building[b].place = p
                                 /\ building[b].wrote \in 1..(sizes[building[b].n] - 1)

Sharing(p) == {b \in Builders : Writing(b) /\ building[b].place = p}

\* Mutant: the old file is not cut off.
OpenKeepsOld(b) ==
  LET p == building[b].place IN
  /\ Goto(b, "open", "write")
  /\ ~Inside(p)
  /\ there' = there \cup {p}
  /\ clash' = IF Sharing(p) = {} THEN clash \ {b} ELSE clash \cup Sharing(p) \cup {b}
  /\ owner' = [owner EXCEPT ![p] = 0]
  /\ UNCHANGED <<projects, finding, sizes, file, building, reading>>
  /\ Note

\* os.WriteFile opens the file and truncates it.
Open(b) ==
  LET p == building[b].place IN
  /\ Goto(b, "open", "write")
  /\ ~Inside(p)
  /\ there' = there \cup {p}
  /\ file' = [file EXCEPT ![p] = <<>>]
  /\ clash' = IF Sharing(p) = {} THEN clash \ {b} ELSE clash \cup Sharing(p) \cup {b}
  /\ owner' = [owner EXCEPT ![p] = 0]
  /\ UNCHANGED <<projects, finding, sizes, building, reading>>
  /\ Note

\* Blocks overlay what another builder wrote since this one's truncation.
Overlay(s, k, x) == [i \in 1..(IF k > Len(s) THEN k ELSE Len(s)) |-> IF i = k THEN x ELSE s[i]]

\* The next block of the write; only its first one waits for another write.
Write(b) ==
  LET p == building[b].place
      k == building[b].wrote + 1 IN
  /\ Writing(b) /\ k <= sizes[building[b].n]
  /\ k = 1 => ~Inside(p)
  /\ file' = [file EXCEPT ![p] = Overlay(@, k, <<building[b].n, k>>)]
  /\ building' = [building EXCEPT ![b].wrote = k]
  /\ UNCHANGED <<projects, pc, finding, sizes, there, clash, owner, reading>>
  /\ Note

\* WriteFile returns and the command says `status: ok'.
Return(b) ==
  LET n == building[b].n
      p == building[b].place IN
  /\ Writing(b) /\ building[b].wrote = sizes[n]
  /\ pc' = [pc EXCEPT ![b] = "idle"]
  /\ building' = [building EXCEPT ![b] = Idle]
  /\ owner' = IF b \in clash THEN owner ELSE [owner EXCEPT ![p] = n]
  /\ clash' = clash \ {b}
  /\ UNCHANGED <<projects, finding, sizes, there, file, reading, history>>

\* The build ends where it stands: a step fails (the knowledge does not load,
\* no directory, a full disk), or the process is killed.
Abandon(b) ==
  /\ pc[b] # "idle"
  /\ pc' = [pc EXCEPT ![b] = "idle"]
  /\ building' = [building EXCEPT ![b] = Idle]
  /\ clash' = clash \ {b}
  /\ UNCHANGED <<projects, finding, sizes, there, file, owner, reading, history>>

-----------------------------------------------------------------------------
(* The reader: runGraphQuery and runGraphInspect, or the server with       *)
(* awareness_graph_query and the tools that use loadGraphFile.             *)

\* A command makes one call; a server makes many with the profile it has.
Call(t) ==
  /\ Goto(Reader, "ready", "look")
  /\ t \in IF role = "cli" THEN {"cli"} ELSE {"query", "context"}
  /\ tool' = t /\ cand' = 1 /\ buf' = <<>> /\ answer' = NoAnswer
  /\ whole' = [p \in Places |-> WholeIn(p)]
  /\ flawed' = {p \in Places : WholeIn(p) = {}}
  /\ UNCHANGED <<projects, finding, files, role>>

MyCandidates == Candidates(tool, profile)

Answer(kind) ==
  /\ pc' = [pc EXCEPT ![Reader] = IF role = "cli" THEN "idle" ELSE "ready"]
  /\ answer' = [kind |-> kind, at |-> cand, graph |-> IF kind = "graph" THEN buf ELSE <<>>]
  /\ cand' = 1 /\ buf' = <<>>
  /\ UNCHANGED <<role, tool>>

Absent == IF tool = "query" /\ CacheGraph[profile] \in BinaryBeside
          THEN "binary" ELSE "absent"

\* Mutant: the first candidate is taken without looking whether it is there.
LookBlindly ==
  /\ pc[Reader] = "look"
  /\ \/ /\ cand \in DOMAIN MyCandidates
        /\ pc' = [pc EXCEPT ![Reader] = "read"]
        /\ buf' = <<>>
        /\ UNCHANGED <<role, tool, cand, answer>>
     \/ /\ cand \notin DOMAIN MyCandidates
        /\ Answer(Absent)
  /\ UNCHANGED <<projects, finding, files, history>>

\* The candidate has a file, or the next is looked at.  The command and the
\* query tool stat it here and read it later; it does not go away in between.
Look ==
  /\ pc[Reader] = "look"
  /\ \/ /\ cand \in DOMAIN MyCandidates /\ MyCandidates[cand] \in there
        /\ pc' = [pc EXCEPT ![Reader] = "read"]
        /\ buf' = <<>>
        /\ UNCHANGED <<role, tool, cand, answer>>
     \/ /\ cand \in DOMAIN MyCandidates /\ MyCandidates[cand] \notin there
        /\ cand' = cand + 1
        /\ UNCHANGED <<pc, role, tool, buf, answer>>
     \/ /\ cand \notin DOMAIN MyCandidates
        /\ Answer(Absent)
  /\ UNCHANGED <<projects, finding, files, history>>

Last(b) == b[2] = sizes[b[1]]

\* The bytes may be JSON only if they end where a graph ends and nowhere
\* before; those of one whole graph are.
MayParse(s) == s # <<>> /\ {i \in DOMAIN s : Last(s[i])} = {Len(s)}

MustParse(s) == s \in {Data(n) : n \in DOMAIN sizes}

\* Mutant: what was read of a torn file counts as a graph.
ReadTrusting ==
  LET s == file[MyCandidates[cand]] IN
  /\ pc[Reader] = "read"
  /\ \/ /\ Len(buf) < Len(s)
        /\ buf' = Append(buf, s[Len(buf) + 1])
        /\ UNCHANGED <<pc, role, tool, cand, answer>>
     \/ /\ Len(buf) >= Len(s)
        /\ Answer("graph")
  /\ UNCHANGED <<projects, finding, files, history>>

\* The next block, until there is no more; then the bytes parse or they do not,
\* and loadGraphFile goes on where the others report an error.
Read ==
  LET s == file[MyCandidates[cand]] IN
  /\ pc[Reader] = "read"
  /\ \/ /\ Len(buf) < Len(s)
        /\ buf' = Append(buf, s[Len(buf) + 1])
        /\ UNCHANGED <<pc, role, tool, cand, answer>>
     \/ /\ Len(buf) >= Len(s) /\ MayParse(buf)
        /\ Answer("graph")
     \/ /\ Len(buf) >= Len(s) /\ ~MustParse(buf) /\ tool # "context"
        /\ Answer("torn")
     \/ /\ Len(buf) >= Len(s) /\ ~MustParse(buf) /\ tool = "context"
        /\ cand' = cand + 1
        /\ pc' = [pc EXCEPT ![Reader] = "look"]
        /\ UNCHANGED <<role, tool, buf, answer>>
  /\ UNCHANGED <<projects, finding, files, history>>

\* The command is interrupted, the server is stopped.
Stop ==
  /\ pc[Reader] # "idle"
  /\ pc' = [pc EXCEPT ![Reader] = "idle"]
  /\ profile' = "none" /\ Forget
  /\ tool' = "cli" /\ cand' = 1 /\ buf' = <<>> /\ answer' = NoAnswer
  /\ whole' = [p \in Places |-> {}] /\ flawed' = {}
  /\ UNCHANGED <<files, role>>

-----------------------------------------------------------------------------
Init ==
  /\ config = NoTree /\ edits = 0
  /\ pc = [p \in Procs |-> "idle"]
  /\ dir = 1 /\ direct = FALSE /\ profile = "none" /\ during = [d \in Dirs |-> {}]
  /\ sizes = <<>>
  /\ there = {} /\ file = [p \in Places |-> <<>>]
  /\ building = [b \in Builders |-> Idle]
  /\ clash = {} /\ owner = [p \in Places |-> 0]
  /\ role = "cli" /\ tool = "cli" /\ cand = 1 /\ buf = <<>> /\ answer = NoAnswer
  /\ whole = [p \in Places |-> {}] /\ flawed = {}

BuilderStep(b) ==
  \/ \E prof \in Profiles, size \in Sizes, out \in Places : Build(b, prof, size, out)
  \/ Open(b) \/ Write(b) \/ Return(b) \/ Abandon(b)

ReaderStep ==
  \/ \E tree \in Trees, d \in Dirs, given \in BOOLEAN, r \in {"cli", "server"} :
       StartReader(tree, d, given, r)
  \/ Discover \/ LoadFromDir
  \/ \E t \in {"cli", "query", "context"} : Call(t)
  \/ Look \/ Read \/ Stop

Next ==
  \/ \E d \in Dirs, c \in Contents : Edit(d, c)
  \/ \E b \in Builders : BuilderStep(b)
  \/ ReaderStep

Spec == Init /\ [][Next]_vars
-----------------------------------------------------------------------------
(* Type invariant.                                                         *)

Steps == {"idle", "open", "write", "walk", "load", "ready", "look", "read"}

Blocks == (Nat \ {0}) \X (Nat \ {0})

\* A file holds blocks of builds in order, a builder at work has a build and a
\* place, and a reader with a call to answer has a profile.
TypeOK ==
  /\ config \in [Dirs -> Contents] /\ edits \in 0..MaxEdits
  /\ pc \in [Procs -> Steps]
  /\ dir \in Dirs /\ direct \in BOOLEAN
  /\ profile \in Profiles \cup {"none", "failed"}
  /\ during \in [Dirs -> SUBSET Contents]
  /\ sizes \in Seq(Sizes)
  /\ there \subseteq Places
  /\ file \in [Places -> Seq(Blocks)]
  /\ \A p \in Places : \A i \in DOMAIN file[p] :
       /\ file[p][i][1] \in DOMAIN sizes
       /\ file[p][i][2] = i /\ i <= sizes[file[p][i][1]]
  /\ building \in [Builders -> [n : Nat, place : Places \cup {NoPlace}, wrote : Nat]]
  /\ clash \subseteq Builders
  /\ owner \in [Places -> 0..Len(sizes)]
  /\ \A b \in Builders : pc[b] \in {"open", "write"} =>
       /\ building[b].n \in DOMAIN sizes /\ building[b].place \in Places
       /\ building[b].wrote <= sizes[building[b].n]
  /\ role \in {"cli", "server"} /\ tool \in {"cli", "query", "context"}
  /\ buf \in Seq(Blocks) /\ cand \in Nat \ {0}
  /\ pc[Reader] \in {"ready", "look", "read"} => profile \in Profiles
  /\ pc[Reader] = "read" => cand \in DOMAIN MyCandidates /\ MyCandidates[cand] \in there
  /\ answer \in [kind : {"none", "graph", "torn", "absent", "binary"}, at : Nat,
                 graph : Seq(Blocks)]
  /\ whole \in [Places -> SUBSET (DOMAIN sizes)] /\ flawed \subseteq Places

-----------------------------------------------------------------------------
(* Properties.                                                             *)

\* A build that reported success and had the place to itself stays whole there
\* until the next build of that place begins.
UndisturbedBuildStays ==
  \A p \in Places : owner[p] # 0 => p \in there /\ file[p] = Data(owner[p])

\* What a call answers was so: a graph it serves was whole in its place at some
\* moment of the call, unless builds were at work there, and never is one cut short;
\* a candidate it passed over or could not read was missing or not whole at some
\* moment.
AnswersAreAccountable ==
  answer.kind # "none" =>
    LET looked == IF answer.kind \in {"graph", "torn"} THEN answer.at - 1 ELSE Len(MyCandidates)
    IN  /\ \A i \in 1..looked : MyCandidates[i] \in flawed
        /\ answer.kind = "torn" => MyCandidates[answer.at] \in flawed
        /\ answer.kind = "graph" =>
             \/ \E n \in whole[MyCandidates[answer.at]] : answer.graph = Data(n)
             \/ MyCandidates[answer.at] \in flawed /\ MayParse(answer.graph)

\* However configs change under the walk, the profile is one its config had while
\* the process looked; the directories passed on the way had none at some moment
\* and no .git; and when there is no profile there is a reason: no config up to
\* the boundary, a bad one, or one removed between the look and the read.
Accounted(p) ==
  /\ \A d \in 1..(dir - 1) : direct \/ ("missing" \in during[d] /\ d \notin GitRoots)
  /\ p \in Profiles => p \in during[dir]
  /\ p = "failed" =>
       \/ "broken" \in during[dir]
       \/ /\ "missing" \in during[dir]
          /\ direct \/ during[dir] # {"missing"} \/ dir \in GitRoots \cup {Depth}

ProfileIsNearest == [][profile' \notin {profile, "none"} => Accounted(profile')]_vars
=============================================================================
