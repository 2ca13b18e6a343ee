# A verification of awareness

TLA+ modules of the Go code under `src/`, TLC configurations that check them on
small instances, and TLAPS proofs of the theorems that matter most. Paths below
are relative to `src/`; line numbers of every definition are in `PROJECT.json`
("map"), and so are the hazards the properties answer to ("hazards").

    tlc -config MCDay1Evidence.cfg MCDay1Evidence     # one run; one .cfg per run
    tlapm Day1Evidence_proofs.tla                     # the proofs of one module

## 1. The system

Awareness packages what a team knows about a project (invariants, failure modes,
forbidden fixes, ...) and what can be observed on a node of a cluster, and answers
agents' questions about both.

| Part | Source | State it keeps | Operations |
|---|---|---|---|
| Day-1 evidence | `evidence/collector.go`, `normalizer.go`, `classifier.go` | a snapshot under construction; nothing between calls | `Collect` reads files, PKI, units, sockets; `Normalize` turns the snapshot into facts; `Classify` into readiness levels, a class and a verdict |
| Evidence storage | `evidence/storage.go` | `latest_snapshot.json`, `facts.jsonl`, `errors.jsonl` | `SaveSnapshot`, `LoadLatestSnapshot`, `LoadRecentFacts` |
| Trust envelope | `assurance/envelope.go` | none | `Compose` |
| Bundle | `bundle/builder.go`, `bundle.go` | a directory of copied files and `bundle.json` | `Build`, `Load`, the MCP inspect tool |
| Knowledge and preflight | `knowledge/`, `preflight/`, `cmd/awareness-mcp/frontend.go` | the YAML files; every call loads them afresh | `LoadFromPaths`, `Search`, `MatchedPreflightItems`, the preflight and frontend verdicts |
| MCP server | `cmd/awareness-mcp/main.go` | two pipes, a semaphore of eight slots, a context | `serveStdio`, `readStdioMessage`, `handleToolsCall` |
| Static graph | `graph/static.go`, `cmd/*/` | `cache/graph.json` | build, query with fall-back copies |
| Project | `project/` | `.awareness.yaml` | resolve, validate, doctor |
| Scanner | `scan/` | none | syntax-tree rules, allowlist |
| Runtime adapters | `runtime/compat.go` | none | null adapter, two stubs |
| CLI | `cmd/awareness/main.go` | none | a process per command around the packages above |

How they meet. A node agent (not in the repository) calls `Collect`, then saves
the snapshot; tools read the stored evidence. The CLI builds graphs and bundles
into directories that MCP tools read at the same time, in another process and
without locks. The MCP server handles one message at a time; each tool call reads
files that people edit meanwhile. Almost every difficulty of this code is of that
kind: several reads, files or processes, no lock, and a conclusion drawn at the
end.

What makes each part correct:

- *Day-1*: a verdict rests on what the node showed during this call, a PASS on
  gates that were really open, bad news never helps, a held-back node is forbidden
  to complete.
- *Storage*: the latest snapshot always loads, an acknowledged save is complete,
  errors are an excerpt of facts.
- *Envelope*: no alarm hides another, worse inputs never clear a query, what holds
  a verdict back is said.
- *Bundle*: a returned bundle is whole, a manifest never names files that are not
  there.
- *Preflight*: what is named was there, what stayed there is not missed, and what
  silences a call.
- *Knowledge reports*: what is reported was so at some moment of the call, and an ok
  is earned.
- *Graph and profile*: a build that had the file to itself stays, a reader serves a
  graph that was there, a process finds the nearest profile.
- *MCP server*: each request answered once and in order, nobody waits for ever.

## 2. The modules

### Day-1 evidence

`Day1Normalizer` and `Day1Classifier` are the pure rules: a snapshot is a record,
`Normalize` a set of facts, `Judge` the verdict with readiness ladder, class,
forbidden actions and blocked services. `NodeState` says what is on a node and
what one read of each source returns. `Day1Evidence` is `Collect`: one action per
read (`ReadReleaseIndex`, bundle, `Stat` and `Open` of each PKI file, Scylla
configuration, each unit, each line of `/proc/net/tcp` and then of `tcp6`), and
`NodeChanges` between any two. Either socket file may be unreadable from the start or
from some line on, without the other. `window` is history: the values each source has
had since the call began; `unread` the socket files not read to their end.

`Day1Gate` is the abstract promise, without any of that: a verdict is published
with evidence the node offered since the collection opened. The detailed module
implements it (`ImplementsGate`), checked by TLC and proved.

### Evidence storage

`EvidenceStore` is `SaveSnapshot` as its file operations, per writer process:
temp file, encode, rename, then one append per fact and per error. `Fail`
makes any of them fail, in part if it is a write of a record; `Crash` kills the
process anywhere. `EvidenceLedger` is the abstract ledger of published snapshots,
logged facts and acknowledgements it refines. Each snapshot is saved once: that a
caller who retries a failed save appends its facts again is left out.

### Trust envelope

`TrustEnvelope` walks over the inputs of `Compose` one observation at a time, so
that "a step" is one piece of news and action properties can compare the verdict
before and after. Of each count only whether it is positive is kept: nothing in
`Compose` tells more.

### Bundle

`BundleBuild` is `Build`: profile, core files, optional files, manifest, with open,
create and every chunk of `io.Copy` as separate steps, over a directory that may hold
an older bundle; authors edit and delete sources, also amid their copy, the build fails
or is killed anywhere, and the inspect tool reads the manifest and lists the directory
in two steps, of which the second may fail without the report saying so. A copy is
known by its source and by the versions of the source its chunks came from: a source
that is edited while it is copied leaves a mixture that `Build` reports as success.

### MCP server

`MCPServer` has the client, two pipes of bounded size, and the server's loop. A
message is a few units in the pipe (lines, headers, body) so that it can be cut
anywhere; its content is its kind. Both framings and batch arrays are there, and
the rule that tells a header from a message by its first character.

`RequestLine` is the abstract promise: messages queue up, one is taken up at a time,
and what asks for an answer gets one before the next is taken up. The definition
`PassedOver` says the one exception, a batch and bare lines right behind one. Under
the mapping in `MCPServer` (`Line`) parsing a message takes it up and writing a reply
answers it.

### Preflight

`Preflight` is `awareness_preflight`, its twin in the CLI, and `frontend_verify_change`.
A call goes through git (`GitDiff`, `GitStatus`) and two or three loads (`raw` by
conventional file names, `full` by the profile's files, `items` by the profile and the
root), each kind by kind (`OpenKind`) and file by file (`ReadFile`); the files of a core
kind are looked for one by one before they are read (`StatFile`, which is
`expandPaths`). Files are saved, half saved, removed or made unreadable between any two
steps. Text is a set of words: an entry's blob and its triggers are sets, the search
terms are the words of the query less the dropped ones, and substring matching becomes
membership. IDs are numbers in the order of IDs. `seen` and `still` are history:
contents of each file, and unchanged dirtiness, since the call began.

What git calls a changed file need not be its name, and `GitDiff` and `GitStatus` keep
that apart: `DiffName` is the name, or the name in quotes; `StatusNames` that or the new
directory the file is in, which has one line for all its files; `Unnamed` are the files
git status may have no usable line for, which are the old name of a rename and a name
of one letter on the first line.

Of an answer the module keeps the verdict, the confidence and the entries it
names. The classification labels, the scores of the raw matches and the runtime
status are left out: they are reported and steer nothing.

### Knowledge reports

`KnowledgeReports` extends `Preflight` by the tools that report on the knowledge
itself: `awareness_selfcheck`, `awareness_assurance`, their commands and the five
lookup tools. They use the loader of `Preflight` (`OpenKind`, `StatFile`, `ReadPlace`)
under the same edits and put `Selfcheck`, `Assurance`, `Validate` or the matcher on what was
loaded (`EndReport`). An entry has an ID, which may be empty or shared, and
references, each a kind and an ID; the state of the two is a base, a set of entries.
The counts of `Assurance` are of the list the loader appends to, not of that set: a file
that the profile lists directly and by its directory has two places in `Files` (`Again`)
and is read twice, and `copies` keeps what was found at each place.
`Validate`, a second opinion on dangling references, is an operator, and `OkIsEarned`
compares the two.

### Graph cache and profile

`GraphCache` is `graph.json` between processes. Builders are `awareness graph build`
(`Build`, `Open` truncates, `Write` block by block, `Return`), possibly two at once on
the same place; `Abandon` fails or kills one anywhere. The reader is a command or the
server. It first walks up the directories for `.awareness.yaml` while people edit
these files (`Discover`, `LoadFromDir`), then looks at the candidate places of its
profile in turn (`Look`, `Read`): the command stops at a torn file, and so does
`awareness_graph_query`, while `loadGraphFile` of the other tools goes on to the next
place. A graph is the number of its build and its blocks; which bytes parse is known
where it must be (those of one whole graph do, those that do not end like one do
not) and open in between. `during`, `whole` and `flawed` are history: what the config
files and the places were while the reader looked, `clash` and `owner` which build had
its place to itself.

## 3. The runs

All runs finish in about a minute or less with two workers, but for the first one
and `mcp_server` (two minutes each) and `preflight` (three).

| Run | Instance and bounds | Shows |
|---|---|---|
| `day1_evidence` | two units, two PKI files, the three backend ports, two versions and builds, a healthy and a booting node, two changes, one unit or socket file that cannot be read | what a published verdict may be relied on for; refinement of `Day1Gate` |
| `day1_settles` | the same, one change, fairness | verdicts settle on the truth |
| `evidence_store` | two writers, three snapshots (three facts, one, none), two faults | what readers and acknowledgements may be relied on for; refinement of `EvidenceLedger` |
| `trust_envelope` | two match kinds, all tuples, reports of up to two of five alarms | masking, explanation, monotony |
| `bundle_build` | two core files of one name, a third, an optional one; two edits, two builds | returned bundles, manifests found, inspect reports |
| `mcp_server` | three messages of four kinds and three framings, pipes of two units | order, completeness, liveness; refinement of `RequestLine`, which has the signal in it |
| `preflight` | five files of one entry each, a source file that may stand in a new directory, another that may be the old name of a rename, two edits, a search that keeps two results | witnesses, nothing steady missed, silence |
| `knowledge_reports` | six files, one of them listed twice, seven entries, an ID in two files, an empty ID, two references to nothing, two edits | what a report says was so; an ok is earned |
| `graph_cache` | three directories with a repository root in the middle, a profile with both places and one with none, two builders, graphs of two and three blocks, two builds, one edit of a config | undisturbed builds stay, answers are accounted for, the profile is the nearest |
| `day1_release_gate`, `day1_unit_names`, `evidence_loss` | as above | disagreements with the documents, section 6 |

Why the bounds are enough. Two changes of the node suffice for a source to change and
change back, or for two sources to change between their reads; two units because rules
treat a backend and a generic unit differently (a prefixed one has a run of its own), and
apart from that units are alike. Two writers and two faults give a crash inside the interleaving of another
save and a fault after it. Two alarms are enough for one to hide another, and the proofs
cover reports of any length. Two builds are enough for a rebuild over what a whole, a
failed or a killed build left. Pipes of two units are shorter than a message, so both
sides block; three messages give a message before and one after an odd one. In
`preflight` two results are enough for truncation to bite with three matches, and two
edits for a save in each of two passes or for a change and its undoing; after an answer
a second call begins, so that leftovers of the first would show. The instance has no
preflight question, so that case of `NothingSteadyIsMissed` is covered by the proof
alone. In `knowledge_reports` two edits remove the target of a reference and put it back
between the reads of the two. In `graph_cache` a short and a long graph leave every
mixture two overlapping writes can; a second build over the first one's place truncates
under a reader that has a block of it; one edit makes the nearest config come, go or
break at each step of the walk.

Deadlock checking is off where the system may stop: the saves are finished
(`evidence_store`), or the server has exited (`mcp_server`).

Fairness. `Day1Evidence!FairSpec` has weak fairness of the collector: it is
straight-line code of one goroutine called again and again by its agent, and every
read returns (systemctl is run under a context). Neither the node nor failing reads
are fair; the run bounds both, so they cease. `MCPServer!FairSpec` has weak
fairness of the server's step, which includes that a tool returns (`runGit` has no
timeout, so this is an assumption and a listed hazard), of a client that finishes
a message it began to write and of one that reads its answers. The signal, the
closing of the pipe and the beginning of a message are not fair.

Each property of a passing run has a mutant in `PROJECT.json`: a definition
changed as a plausible bug would change it, which TLC finds to violate the
property. The mutants stand beside the definitions they change.

## 4. The proofs

Each module of theorems extends the module it is about; the theorems hold for every
value of the constants under the assumptions that module names.

| Module | About | Theorems on properties of the runs |
|---|---|---|
| `Day1Judge_proofs`, `Day1Evidence_proofs` | the rules, the collector | `TypeOK`, `ImplementsGate`, `PassIsWitnessed`, `QuietNodeJudgedExactly`, `BadBundleDecides`, `HeldBackMeansForbidden`, `CertificateAdviceIsWitnessed`, `DownBackendBlocksDependents`, `DegradationNeverUnblocks` |
| `TrustEnvelope_proofs` | `Compose` | `ClearedOnlyWhenQuiet`, `WorseNewsNeverClears`, `HeldBackSaysWhy` |
| `EvidenceStore_proofs` | the store | `TypeOK`, `LatestAlwaysLoads`, `AcknowledgedIsStored`, `TearAtTheEndHidesNothing`, `ImplementsLedger` |
| `BundleBuild_proofs` | builds and the inspector | `TypeOK`, `AcknowledgedIsComplete`, `ManifestNeverRunsAhead`, `ReportedPathsAreListed` |
| `MCPServer_proofs` | the server | `TypeOK`, `MessagesInOrder`, `AnswersFollowRequests`, `ImplementsRequestLine` |
| `Preflight_proofs` | preflight calls and reports | `TypeOK`, `AnswersAreWitnessed`, `NothingSteadyIsMissed`, `BadFileSilencesTheCall`, `UnwarnedCallSawTheChanges`, `ReportTypeOK`, `ReportIsWitnessed`, `OkIsEarned` |
| `GraphCache_proofs` | builds, the walk, the readers | `TypeOK`, `UndisturbedBuildStays`, `AnswersAreAccountable`, `ProfileIsNearest` |

More theorems state what no run checks by itself, in three groups.

- Parts and companions of the above: `CollectReadsAreWitnessed`,
  `PassStandsOnWholeLadder`, `LegsAlwaysDecide` (which of the rules written above
  `Compose` the code keeps, and where it does not) and the envelope's types,
  `ErrorsAreAnExcerpt`, `TempsStayAccounted`, `SlotsAreGivenBack`, `SignalIsNoticed` (which
  the refinement of `RequestLine` contains).
- What the findings of section 6 come to for every value of the constants:
  `PassExactlyWhenSound`, `ReleaseIndexIsNoGate`, `OnlyPlainNamesCount`, `TearsStay`,
  `TearBlindsForGood`. The counterexamples of the runs are thus no accident of an
  instance.
- What liveness has of safety: `EveryCallRunsDown`, `EverySaveRunsDown`,
  `ClosedServerStops`, `ServerWaitsOnlyOnPipes` (below).

The action properties among them (`CollectRunsDown`, `SavesRunDown`,
`TearsAreForGood`, `ClosedServerRunsDown`) and `OnlyPipesBlock` hold on the instances
of the runs too, if one adds them to the .cfg; they are left out there for the time
they take.

What is assumed of the constants. *Day-1*: every unit and PKI file occurs in the list
that is read, `UnknownUnit` is not a state systemd reports, there is a unit, the
plain unit names of the backends and of the gateway have no prefix to trim, `""` is no
version. *Envelope*: alarms
have the identifiers and severities of the code. *Store*: facts are finite sequences.
*Bundle*: no file is both a core and an optional one, optional files have different
names, none is called `profile.json` or `runtime_signals.json`. *Server*: the pipes
hold at least one unit, there is at least one slot. *Preflight*: finitely many words
and entries. *Graph cache*: a graph has at least one block, a walk at least one
directory. Bounds are natural numbers.

*Day-1.* The invariant is `TypeOK /\ ReadsWitnessed` with `NodeInWindow`: each
observation made so far lies in the window of its source, and the present state of the
node does too. It is needed because the verdict speaks of the past: at the judging step
nothing relates the snapshot to the node except what was true when each read was made.
Of the sockets it says less than of the rest: a port that is seen was open at some
moment, and one that is not was, at a moment each, in neither of the files read. Three
open ports need never have been open together, and a listener that moves from `tcp6` to
`tcp` may be seen nowhere. `Widen` only adds, so a node change preserves it; each read
adds an observation that is the node's current state, which is in the window. From it
follow

- `PipelineImplementsGate`: the judging step publishes evidence that is witnessed,
  every other step maps to a change of the node, an opening or a stutter;
- `PassIsAlwaysWitnessed`, `DownBackendAlwaysBlocks`, `CertificateAdviceHolds`,
  `BadBundleAlwaysDecides`, `HeldBackIsForbidden`, `PassStandsOnWholeLadder`: a lemma
  about `Judge` of any snapshot, combined with the witnesses. For the first half of
  `BadBundleAlwaysDecides` that is all; the second half, that index and bundle must both
  have changed before a drift is reported that never was, needs the history `agreed`;
- `WorseNodeNeverPasses`: the verdict is PASS exactly on a sound snapshot (bundle
  loaded and free of drift, PKI files readable, no backend or gateway unit failed
  under its plain name, backend ports open), and none of these is gained by getting
  worse;
- `PassExactlyWhenSound` makes the first half of that a theorem of its own; with no
  release index the drift is void, whence `ReleaseIndexIsNoGate`;
- `QuietNodeIsJudgedExactly`: windows of one value make every observation that
  value, so the snapshot is the ideal one.

`EveryCallRunsDown` needs that the indices into the two lists of files and units stay
within them (`IndexInv`): `StepsLeft` counts what is left of the list at hand and of
those to come, each step of the collector lowers it, and a change of the node does
not touch it.

*Envelope.* `NoAlarmHidesAnother` and `BadNewsNeverClears` rest on a lemma that the
freshness label is `fresh` exactly if no relevant alarm is anywhere in the report,
although the loop looks at the first only.

*Store.* `AcknowledgedIsStored` says nothing of a save that is under way, so it is not
inductive. `Inv` adds, for each writer at each line of `SaveSnapshot`, which records of
its snapshot the two logs hold (`WriterInv`), that nobody else saves the same one, that
an unfinished record is the last of its file and belongs to the one writer inside that
write (`PendingInv`), and that a temp file is whole when it is renamed (`TempInv`).
`TempInv` also has that no call under way has left a temp file behind, and no published
snapshot: whence `TempsStayAccounted`, with a crash or a failed `Remove` for each file
that was left. `StoreImplementsLedger` then has one case per action: a rename publishes,
a completed append logs, `Return` acknowledges what `WriterInv` says is there,
everything else stutters.

A torn record is out of reach of every later step, because a record is only ever
finished or torn by the writer amid that write, and a torn one has no such writer
(`TornForGood`); the reader gives up at the first tear, so `TearBlindsForGood` follows.
`EverySaveRunsDown` counts the records of the snapshot still to be written at the line
where the writer is. That the error at hand is one of the snapshot's (`PickInv`) is
what makes each round of the second loop lower it. A failing operation goes straight
to the clean-up or to the return, which is nearer to the end.

*Bundle.* The properties speak of the directory at any moment, also in the middle of
a later build over it. `BackedInv` says that whatever is entered, in the running build
or in the manifest in the directory, is there and no newer than its source; `FreshInv`
that the chunks of the file at hand are read after every copy of it that is entered,
which is what makes each write safe; `OrderInv` and `CopiedInv` follow the list of core
files and the last copy of each name. The inspector's two reads agree because a name
never leaves the directory (`NeverGone`).

*Server.* Units of messages lie in the pipe and in the server's buffer, cut anywhere.
The invariant says that the units still to be read follow each other as the framings
demand (`WellFramed`), which of them the reader expects next (`HeadFits`), and that
every message before the one in hand has been handled or is of the kinds that are
skipped (`Settled`). `MessagesStayInOrder` and `AnswersMatch` follow: what is taken up
next is later than everything taken up before.

`ServerImplementsRequestLine` has one case per action: the taking up of a message is
`TakeUp`, because everything between the last one and this one is `Settled` and so
`PassedOver`; `WriteReply` is `Answer`, because the message in hand is the last taken
up and has no reply yet; the signal and the client's sending map to themselves;
headers, semaphore, the tool and the moving of units stutter. The abstract line is
closed by a message taken up after the signal, or by a call turned away (`TurnsAway`);
that the server takes up nothing then is the rest of the proof.

Liveness is not proved, but what it rests on besides fairness is.
`ServerWaitsOnlyOnPipes`: of the guards of the step the server is at, those that are
not about a pipe hold; neither the framing nor the semaphore nor a case without branch
can hold it up. `ClosedServerStops`: once its input is closed, each of its steps lowers
a measure made of the units in the pipe and of the line it is at (`Effort`), and no
step of the client raises it. Together: a closed server either exits or waits for
somebody to read its answers.

*Preflight and reports.* The histories `seen` only grow during a call. The invariant
says that an entry that has been on the disk since the call began is in a file still
to be read or in the base (`GatherInv`), and that a file spoiled throughout is still
to be read or has failed its load (`SpoilInv`); what is in the base or among the
matches was in a file during the call, a match that stayed is missing only for an
error or better results, and without the git warning the call has one of the
`StatusNames` of each change that was there all along and is not `Unnamed`. A report is
`ReportOn` of a base for which the same two statements hold, and its counts are of
copies, each of which was found at its place: whence `ReportIsWitnessed` and
`OkIsEarned`.

*Graph cache.* `Inv` has three parts. What each builder has laid: outside the clash it
is alone in its place and the file is exactly what it wrote so far; two that share a
place are both in the clash, at most one of them amid its write. What the walk has
passed: each directory behind it is no git root and had no config at some moment of this
call, unless `--project-root` named the directory. What a call has seen: every candidate
behind it was missing or torn at some moment, and a place that was never so holds the
graph being read, or that graph has been read to its end, for writing over a whole graph
leaves a whole one only if it is the same or both are a single block. The proof refuted
an earlier form of `AnswersAreAccountable` by a history that takes three builds (an
older graph read whole, then truncated); the property now says what the code grants.

Only model-checked: liveness (`SettlesOnTruth`, `EveryRequestAnswered`,
`ClosingStops`), since fairness and ENABLED are out of the prover's reach. The
run-down theorems say what the fairness is needed for and what not: each step that is
taken brings the end nearer, and fairness adds that the step is taken.

## 5. Abstractions to know about

- Crashes are crashes of a process; files survive as they were written. Loss of
  power, and therefore the missing fsync before the rename, is not modelled.
- Temp files of two writers never have the same name (`os.CreateTemp`).
- A write of one record is whole, fails, or leaves a part; `O_APPEND` writes of two
  processes do not mix within a record.
- In the bundle, a failing `MkdirAll` changes nothing and is left out.
- The client of the MCP server does not close the server's output (SIGPIPE).
- In preflight the awareness root is set (with an empty root the loaders skip the
  extended kinds and the raw search finds nothing); IDs are distinct (not so in
  `KnowledgeReports`); a preflight question asks at least one thing; kinds without files
  take no step. A directory in the profile is taken name by name: one that cannot be
  listed is one whose files are missing. A file the profile names twice in the same way
  is left out. Whether a changed file is tracked, and so shows in `git diff`, and
  whether git status gives its name or that of its directory, is left open.
- A file that is made unreadable stands for every read error but "not exist".
- Of a graph nothing is kept but its build and its size; nobody removes a
  `graph.json`, and a `write(2)` to it is not interrupted by another one, as the
  file system's inode lock has it, while reads come in between.
- A builder has any profile: it resolves it like the reader, whose walk is modelled.
- In the reports an entry with `last_verified` is overdue or not as the clock has it.

## 6. Where documents and code part

With a run each (see "findings"):

1. A missing release index blocks nothing (`day1_release_gate`): the authority
   contract says it blocks AWARENESS_READY and DAY1_COMPLETE. `ReleaseIndexIsNoGate`.
2. A failed `globular-envoy` holds nothing back, a failed `envoy` does
   (`day1_unit_names`): the comment says both forms classify the same way.
   `OnlyPlainNamesCount` has it for all names and states.
3. A torn record hides all later facts (`evidence_loss`): the comment says all
   recent facts are read. For good: `TearBlindsForGood`.

Read off the code, without a run:

- With a manifest that does not parse an architecture failure becomes the
  classification (`evidence/classifier.go:138`); the preamble of
  `evidence/day1_freshness_test.go:16-18` says it must not.
- Of two knowledge files with one base name the bundle has only the last
  (`bundle/builder.go:131`), and the manifest names it once for each;
  `docs/cli/bundle.md:38` says each file is copied. If the
  other one is an optional file whose copy fails half way, a torn file stands under a
  name the manifest gives to a core file, and `Build` returns no error:
  `AcknowledgedIsComplete` leaves that name out.
- `assurance/envelope.go:136` "sufficient — mitigation + (test OR detector)": test
  and detector without mitigation are sufficient too. Line 230: no coverage means
  unsafe or unknown, but a stale input gives stale. Lines 266-268: any critical
  alarm is stale, but one with an identifier the loop does not list is ignored.
- `docs/cli/preflight.md:21` says that `--changed` detects the changed files, and `:74`
  that `changed_files` lists them. In the tool (`cmd/awareness-mcp/main.go:1159`) and in
  the command (`cmd/awareness/main.go:352`) a new file in a new directory appears only as
  the directory with a slash, an unusual name keeps the quotes of git, and a changed file
  with a name of one letter may be dropped from the first line, all without a warning.
  `UnwarnedCallSawTheChanges` says what is left. The same table has a flag `--files`,
  which the command does not read.
- `bundle/builder.go:29` speaks of `manifest.json`; the file is `bundle.json`. A
  `runtime_signals.json` of an earlier build stays in the directory of a later one
  that has none. `bundle/bundle.go` accepts any schema version that is not empty;
  `docs/concepts/bundles.md` calls an unknown one an error.
- The class WORKFLOW_REMEDIATION_UNSAFE is unreachable (`evidence/classifier.go:169`):
  an unready Scylla is caught three lines before.
- `knowledge/knowledge.go:367` allows directories in the profile's lists; the loaders
  of the frontend tools (`cmd/awareness-mcp/knowledge.go:92-150`) read each entry as
  a file and silently skip a directory, so a block-listed fix there never blocks.
  The raw search, in turn, goes only by conventional names in the root and never
  sees files the profile keeps elsewhere (`preflight/compat.go:52`).
- `runtime/compat.go` announces an error for unknown adapters and never returns one.
- `freshness_ttl` and `invalidate_on` of the graph cache
  (`docs/concepts/project-profile.md:81-82`) are parsed and never used: a graph is
  served however old it is. The hint of `awareness_graph_query` to run
  `awareness graph build` does not help a profile without `cache_dir`: that command
  then writes to a place the tool does not look at.
- Without an awareness root the commands look for `/cache/graph.json`; the tools
  leave that candidate out.
- `knowledge/knowledge_test.go:137` expects an error for a core file that does not
  parse. It tests `Load`, which no program calls; `LoadFromPaths`, which all call,
  takes such a file for an empty one, and so `awareness_selfcheck` ("Returns ok=true
  when the knowledge base is healthy", `cmd/awareness-mcp/main.go:1002`) may say ok of
  a base with a broken file, if nothing refers to it.
- `knowledge/selfcheck.go:53` and `:62` announce links of failure modes to incidents
  and of forbidden fixes to failure modes; no check of either follows.

`BadFileSilencesTheCall` is not a disagreement, for no document speaks of it, but it
is the fact about preflight a reader should know: one file that cannot be read, or
one extended file that does not parse, and the answer is "ok", "confirmed", empty.

A report may be true of no single moment: the self-check reads a reference and its
target one after the other, and reports an invariant missing that was there whenever
the file with the reference was. `ReportIsWitnessed` is what remains true.

## 7. Not modelled

- The syntax-tree scanners (`scan/`) and the frontend tools built on them (trace,
  explain, plan): what they find depends on program text.
- Which nodes and edges `graph/static.go` makes of knowledge and sources, and what a
  query selects of them: pure data flow from one loaded base to one file.
- Task classification (`preflight/classify.go`): word lists to labels that steer
  nothing. The runtime adapters: the null adapter and two that read nothing.
- The doctor and `awareness validate`: existence checks printed one by one.
- `finding/`, `evidence/closure.go`: declarations without operations. Argument parsing
  of the CLI. Callers that are not in the repository (node agent, gateway, bundlesync).

What would come next: the content of the static graph and the selection of a query,
and the trace and explain tools, as operators checked against a reference definition
on small sources.
