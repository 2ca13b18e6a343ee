---------------------------- MODULE EvidenceStore ----------------------------
(***************************************************************************)
(* SaveSnapshot of package evidence: several writers save snapshots into   *)
(* one runtime directory, any call of the file system may fail and a       *)
(* writer may crash between any two of them.  LoadLatestSnapshot and       *)
(* LoadRecentFacts are read-only: they are operators on the files.         *)
(*                                                                         *)
(* One append is one write(2) on an O_APPEND descriptor: the kernel admits *)
(* one writer at a time to a file, and a write that is cut short (a full   *)
(* disk, a crash) leaves a torn record at the end of the file.             *)
(*                                                                         *)
(* os.CreateTemp draws names from 2^32; that two live temp files never     *)
(* share one is taken for granted, so a temp file is known by its writer.  *)
(***************************************************************************)
EXTENDS Naturals, Sequences, FiniteSets

CONSTANTS
  Writers,     \* processes that call SaveSnapshot
  Snapshots,   \* the snapshots they collect; each is saved once
  FactsOf,     \* snapshot -> its facts, in order
  NoSnapshot,  \* no snapshot
  MaxFaults    \* bound: failed file operations and crashes

ASSUME StoreAssumption ==
  /\ NoSnapshot \notin Snapshots
  /\ FactsOf \in [Snapshots -> Seq([severe : BOOLEAN, time : Nat])]
  /\ MaxFaults \in Nat

VARIABLES
  pc, snap, k,  \* per writer: where it is, what it saves, which fact it is at
  temp,         \* per writer: its temp file
  latest,       \* latest_snapshot.json: [snap, whole]
  facts,        \* facts.jsonl: a sequence of records [snap, k, whole]
  errors,       \* errors.jsonl: likewise
  unsaved,      \* the snapshots no call has been made for
  published,    \* history: the snapshots renamed into place
  acked,        \* history: the snapshots whose call returned nil
  orphans,      \* history: the snapshots whose temp file was left behind
  faults        \* how much of the bound is used

vars == <<pc, snap, k, temp, latest, facts, errors, unsaved, published, acked, orphans, faults>>

Steps == {"idle", "mkdir", "create", "encode", "rename", "abandon", "openFacts", "fact",
          "factWrite", "pick", "openErrors", "error", "errorWrite"}

NoFile == [snap |-> NoSnapshot, whole |-> FALSE]

Record(s, j) == [snap |-> s, k |-> j, whole |-> FALSE]

Init ==
  /\ pc = [w \in Writers |-> "idle"]
  /\ snap = [w \in Writers |-> NoSnapshot]
  /\ k = [w \in Writers |-> 1]
  /\ temp = [w \in Writers |-> "none"]
  /\ latest = NoFile
  /\ facts = <<>> /\ errors = <<>>
  /\ unsaved = Snapshots
  /\ published = {} /\ acked = {} /\ orphans = {}
  /\ faults = 0

(***************************************************************************)
(* A call of SaveSnapshot, when nothing goes wrong.                        *)
(***************************************************************************)
Goto(w, from, to) == pc[w] = from /\ pc' = [pc EXCEPT ![w] = to]

MyFacts(w) == FactsOf[snap[w]]

Begin(w, s) ==
  /\ s \in unsaved
  /\ Goto(w, "idle", "mkdir")
  /\ snap' = [snap EXCEPT ![w] = s]
  /\ k' = [k EXCEPT ![w] = 1]
  /\ unsaved' = unsaved \ {s}
  /\ UNCHANGED <<temp, latest, facts, errors, published, acked, orphans, faults>>

MkdirAll(w) ==
  /\ Goto(w, "mkdir", "create")
  /\ UNCHANGED <<snap, k, temp, latest, facts, errors, unsaved, published, acked, orphans, faults>>

CreateTemp(w) ==
  /\ Goto(w, "create", "encode")
  /\ temp' = [temp EXCEPT ![w] = "partial"]
  /\ UNCHANGED <<snap, k, latest, facts, errors, unsaved, published, acked, orphans, faults>>

\* Mutant: the file is not closed, so not written out, before it is renamed.
EncodeLeavesPartial(w) ==
  /\ Goto(w, "encode", "rename")
  /\ UNCHANGED <<snap, k, temp, latest, facts, errors, unsaved, published, acked, orphans, faults>>

\* Encode and Close.
Encode(w) ==
  /\ Goto(w, "encode", "rename")
  /\ temp' = [temp EXCEPT ![w] = "whole"]
  /\ UNCHANGED <<snap, k, latest, facts, errors, unsaved, published, acked, orphans, faults>>

\* The deferred Remove then finds no file.
Rename(w) ==
  /\ Goto(w, "rename", IF MyFacts(w) = <<>> THEN "pick" ELSE "openFacts")
  /\ latest' = [snap |-> snap[w], whole |-> temp[w] = "whole"]
  /\ temp' = [temp EXCEPT ![w] = "none"]
  /\ published' = published \cup {snap[w]}
  /\ UNCHANGED <<snap, k, facts, errors, unsaved, acked, orphans, faults>>

\* Mutant: facts.jsonl is opened like a new file.
OpenFactsTruncates(w) ==
  /\ Goto(w, "openFacts", "fact")
  /\ facts' = <<>>
  /\ UNCHANGED <<snap, k, temp, latest, errors, unsaved, published, acked, orphans, faults>>

OpenFacts(w) ==
  /\ Goto(w, "openFacts", "fact")
  /\ UNCHANGED <<snap, k, temp, latest, facts, errors, unsaved, published, acked, orphans, faults>>

\* The write of one fact begins: no other write to the file is under way.
WriteFact(w) ==
  /\ Goto(w, "fact", "factWrite")
  /\ \A v \in Writers : pc[v] # "factWrite"
  /\ facts' = Append(facts, Record(snap[w], k[w]))
  /\ UNCHANGED <<snap, k, temp, latest, errors, unsaved, published, acked, orphans, faults>>

\* Mutant: one fact too many.
FactWrittenOffByOne(w) ==
  /\ Goto(w, "factWrite", IF k[w] <= Len(MyFacts(w)) THEN "fact" ELSE "pick")
  /\ facts' = [facts EXCEPT ![Len(facts)].whole = TRUE]
  /\ k' = [k EXCEPT ![w] = IF k[w] <= Len(MyFacts(w)) THEN k[w] + 1 ELSE 1]
  /\ UNCHANGED <<snap, temp, latest, errors, unsaved, published, acked, orphans, faults>>

\* Mutant: the error pass starts after the first fact.
FactWrittenStartsErrors(w) ==
  /\ Goto(w, "factWrite", "pick")
  /\ facts' = [facts EXCEPT ![Len(facts)].whole = TRUE]
  /\ k' = [k EXCEPT ![w] = 1]
  /\ UNCHANGED <<snap, temp, latest, errors, unsaved, published, acked, orphans, faults>>

\* The write ends: on to the next fact, or to the pass over the errors.
FactWritten(w) ==
  /\ Goto(w, "factWrite", IF k[w] < Len(MyFacts(w)) THEN "fact" ELSE "pick")
  /\ facts' = [facts EXCEPT ![Len(facts)].whole = TRUE]
  /\ k' = [k EXCEPT ![w] = IF k[w] < Len(MyFacts(w)) THEN k[w] + 1 ELSE 1]
  /\ UNCHANGED <<snap, temp, latest, errors, unsaved, published, acked, orphans, faults>>

\* j is the first severe fact not before position n.
NextSevere(fs, n, j) ==
  /\ j \in DOMAIN fs /\ fs[j].severe /\ n <= j
  /\ \A i \in n..(j - 1) : ~fs[i].severe

\* On to the next severe fact; errors.jsonl is opened at the first one.
PickError(w) ==
  /\ pc[w] = "pick"
  /\ \E j \in k[w]..Len(MyFacts(w)) :
       /\ NextSevere(MyFacts(w), k[w], j)
       /\ Goto(w, "pick", IF \E i \in 1..(j - 1) : MyFacts(w)[i].severe THEN "error" ELSE "openErrors")
       /\ k' = [k EXCEPT ![w] = j]
  /\ UNCHANGED <<snap, temp, latest, facts, errors, unsaved, published, acked, orphans, faults>>

OpenErrors(w) ==
  /\ Goto(w, "openErrors", "error")
  /\ UNCHANGED <<snap, k, temp, latest, facts, errors, unsaved, published, acked, orphans, faults>>

WriteError(w) ==
  /\ Goto(w, "error", "errorWrite")
  /\ \A v \in Writers : pc[v] # "errorWrite"
  /\ errors' = Append(errors, Record(snap[w], k[w]))
  /\ UNCHANGED <<snap, k, temp, latest, facts, unsaved, published, acked, orphans, faults>>

ErrorWritten(w) ==
  /\ Goto(w, "errorWrite", "pick")
  /\ errors' = [errors EXCEPT ![Len(errors)].whole = TRUE]
  /\ k' = [k EXCEPT ![w] = k[w] + 1]
  /\ UNCHANGED <<snap, temp, latest, facts, unsaved, published, acked, orphans, faults>>

\* Mutant: the call returns after the facts.
ReturnSkipsErrors(w) ==
  /\ Goto(w, "pick", "idle")
  /\ acked' = acked \cup {snap[w]}
  /\ UNCHANGED <<snap, k, temp, latest, facts, errors, unsaved, published, orphans, faults>>

\* No severe fact is left: the call returns nil.
Return(w) ==
  /\ Goto(w, "pick", "idle")
  /\ \A j \in k[w]..Len(MyFacts(w)) : ~MyFacts(w)[j].severe
  /\ acked' = acked \cup {snap[w]}
  /\ UNCHANGED <<snap, k, temp, latest, facts, errors, unsaved, published, orphans, faults>>

(***************************************************************************)
(* What can go wrong.                                                      *)
(***************************************************************************)
Fault == faults < MaxFaults /\ faults' = faults + 1

\* The call at hand fails; inside writeJSONAtomic the deferred Remove follows,
\* elsewhere SaveSnapshot returns the error.  A write of a record either fails
\* as a whole or is cut short: then what was written of it stays.
Fail(w) ==
  /\ Fault
  /\ \/ /\ pc[w] \in {"mkdir", "create", "openFacts", "fact", "factWrite", "openErrors",
                       "error", "errorWrite"}
        /\ pc' = [pc EXCEPT ![w] = "idle"]
     \/ /\ pc[w] \in {"encode", "rename"}
        /\ pc' = [pc EXCEPT ![w] = "abandon"]
  /\ UNCHANGED <<snap, k, temp, latest, facts, errors, unsaved, published, acked, orphans>>

RemoveTemp(w) ==
  /\ Goto(w, "abandon", "idle")
  /\ temp' = [temp EXCEPT ![w] = "none"]
  /\ UNCHANGED <<snap, k, latest, facts, errors, unsaved, published, acked, orphans, faults>>

\* The error of the deferred Remove is dropped: the file is left behind.
RemoveTempFails(w) ==
  /\ Fault
  /\ Goto(w, "abandon", "idle")
  /\ temp' = [temp EXCEPT ![w] = "none"]
  /\ orphans' = orphans \cup {snap[w]}
  /\ UNCHANGED <<snap, k, latest, facts, errors, unsaved, published, acked>>

Crash(w) ==
  /\ Fault
  /\ pc[w] # "idle"
  /\ pc' = [pc EXCEPT ![w] = "idle"]
  /\ temp' = [temp EXCEPT ![w] = "none"]
  /\ orphans' = IF temp[w] = "none" THEN orphans ELSE orphans \cup {snap[w]}
  /\ UNCHANGED <<snap, k, latest, facts, errors, unsaved, published, acked>>

WriterStep(w) ==
  \/ \E s \in Snapshots : Begin(w, s)
  \/ MkdirAll(w) \/ CreateTemp(w) \/ Encode(w) \/ Rename(w)
  \/ OpenFacts(w) \/ WriteFact(w) \/ FactWritten(w)
  \/ PickError(w) \/ OpenErrors(w) \/ WriteError(w) \/ ErrorWritten(w) \/ Return(w)
  \/ Fail(w) \/ RemoveTemp(w) \/ RemoveTempFails(w) \/ Crash(w)

Next == \E w \in Writers : WriterStep(w)

Spec == Init /\ [][Next]_vars

(***************************************************************************)
(* The readers.                                                            *)
(***************************************************************************)
\* LoadLatestSnapshot: nothing yet, a snapshot, or a parse error.
LoadLatestSnapshot ==
  IF latest = NoFile THEN [snap |-> NoSnapshot, err |-> FALSE]
                     ELSE [snap |-> latest.snap, err |-> ~latest.whole]

FactAt(n) == FactsOf[facts[n].snap][facts[n].k]

\* LoadRecentFacts: the positions of the facts it returns.  The decoder stops
\* at the first record it cannot decode, and that is not an error.
LoadRecentFacts(cutoff) ==
  {n \in DOMAIN facts : /\ \A m \in 1..n : facts[m].whole
                        /\ FactAt(n).time > cutoff}

(***************************************************************************)
(* Type invariant.                                                         *)
(***************************************************************************)
Records == [snap : Snapshots, k : Nat \ {0}, whole : BOOLEAN]

\* The files hold records of facts there are, and a writer at work is at a fact
\* of its snapshot.
TypeOK ==
  /\ pc \in [Writers -> Steps]
  /\ snap \in [Writers -> Snapshots \cup {NoSnapshot}]
  /\ k \in [Writers -> Nat \ {0}]
  /\ temp \in [Writers -> {"none", "partial", "whole"}]
  /\ latest \in [snap : Snapshots, whole : BOOLEAN] \cup {NoFile}
  /\ facts \in Seq(Records) /\ errors \in Seq(Records)
  /\ \A n \in DOMAIN facts : facts[n].k \in DOMAIN FactsOf[facts[n].snap]
  /\ \A n \in DOMAIN errors : errors[n].k \in DOMAIN FactsOf[errors[n].snap]
  /\ unsaved \subseteq Snapshots /\ published \subseteq Snapshots
  /\ acked \subseteq Snapshots /\ orphans \subseteq Snapshots
  /\ faults \in 0..MaxFaults
  /\ \A w \in Writers : pc[w] # "idle" => snap[w] \in Snapshots
  /\ \A w \in Writers : pc[w] \in {"fact", "factWrite", "openFacts", "openErrors", "error",
                                   "errorWrite"} => k[w] \in DOMAIN MyFacts(w)

(***************************************************************************)
(* Properties.                                                             *)
(***************************************************************************)
Logged(log, s) == {log[n].k : n \in {m \in DOMAIN log : log[m].snap = s /\ log[m].whole}}

\* However writers interleave, fail and crash, the store is a ledger: whole
\* records appear in order, errors after all facts, acknowledgement after all.
Ledger == INSTANCE EvidenceLedger WITH
            latest  <- latest.snap,
            logged  <- [s \in Snapshots |-> Logged(facts, s)],
            errored <- [s \in Snapshots |-> Logged(errors, s)]

ImplementsLedger == Ledger!LedgerSpec

\* latest_snapshot.json is replaced atomically: once there is a snapshot, every
\* later read returns one, and never a parse error.
LatestAlwaysLoads ==
  /\ ~LoadLatestSnapshot.err
  /\ published # {} => LoadLatestSnapshot.snap \in published

\* A call that returned nil has stored everything: all facts, and all critical
\* and high ones as errors too, whatever happened to other writers meanwhile.
AcknowledgedIsStored ==
  \A s \in acked :
    /\ s \in published
    /\ Logged(facts, s) = DOMAIN FactsOf[s]
    /\ Logged(errors, s) = {j \in DOMAIN FactsOf[s] : FactsOf[s][j].severe}

\* A tear at the very end of facts.jsonl, left by a write that is under way or
\* was the last one, hides no acknowledged fact from LoadRecentFacts.
TearAtTheEndHidesNothing ==
  (\A n \in DOMAIN facts : facts[n].whole \/ n = Len(facts)) =>
     \A s \in acked : \A j \in DOMAIN FactsOf[s] :
       \A cutoff \in 0..(FactsOf[s][j].time - 1) :
         \E n \in LoadRecentFacts(cutoff) : facts[n].snap = s /\ facts[n].k = j

\* errors.jsonl is an excerpt of facts.jsonl: no error is on record, not even a
\* torn one, whose fact is not.
ErrorsAreFacts ==
  \A n \in DOMAIN errors :
    /\ errors[n].k \in Logged(facts, errors[n].snap)
    /\ FactsOf[errors[n].snap][errors[n].k].severe

\* The temp files on the disk are those of the calls inside writeJSONAtomic and
\* those left behind.  Each of the latter cost a crash or a failed Remove, and it
\* was no call that published its snapshot, let alone one that returned nil.
TempsAreAccounted ==
  /\ \A w \in Writers : pc[w] \notin {"encode", "rename", "abandon"} => temp[w] = "none"
  /\ Cardinality(orphans) <= faults
  /\ orphans \cap (published \cup acked) = {}

\* Record n of facts.jsonl was cut short, and nobody is still writing it.
Torn(n) ==
  /\ n \in DOMAIN facts /\ ~facts[n].whole
  /\ n = Len(facts) => \A w \in Writers : pc[w] # "factWrite"

\* A tear is for good: SaveSnapshot neither completes nor removes it, and the
\* next record is appended behind it.
TearsAreForGood == [][\A n \in DOMAIN facts : Torn(n) => Torn(n)']_vars

\* The calls a save of n facts has left at most when its pass is at fact j: the
\* pass over the facts is followed by the one over the errors.
StepsLeft(label, n, j) ==
  LET rest == n + 1 - j
  IN [mkdir |-> 6 * n + 6, create |-> 6 * n + 5, encode |-> 6 * n + 4, rename |-> 6 * n + 3,
      abandon |-> 1, openFacts |-> 6 * n + 2,
      fact |-> 4 * n + 2 * rest + 1, factWrite |-> 4 * n + 2 * rest, pick |-> 4 * rest + 1,
      openErrors |-> 4 * rest, error |-> 4 * rest - 1, errorWrite |-> 4 * rest - 2][label]

Effort(w) == IF pc[w] = "idle" THEN 0 ELSE StepsLeft(pc[w], Len(MyFacts(w)), k[w])

\* Every save runs down: each step of its writer leaves it fewer, no step of
\* another writer adds one, and as long as it runs there is one left.
SavesRunDown ==
  [][\A w \in Writers : pc[w] # "idle" =>
       /\ Effort(w) \in Nat \ {0} /\ Effort(w)' <= Effort(w)
       /\ WriterStep(w) => Effort(w)' < Effort(w)]_vars

(***************************************************************************)
(* What the repository says and the code does not do.                      *)
(***************************************************************************)
\* LoadRecentFacts reads all facts from facts.jsonl that are newer than cutoff.
RecentFactsAreComplete ==
  \A n \in DOMAIN facts : \A cutoff \in 0..(FactAt(n).time - 1) :
    facts[n].whole => n \in LoadRecentFacts(cutoff)
=============================================================================
