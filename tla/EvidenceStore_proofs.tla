------------------------ MODULE EvidenceStore_proofs ------------------------
(***************************************************************************)
(* Proofs about EvidenceStore: for any writers, snapshots, facts and       *)
(* number of faults.                                                       *)
(*                                                                         *)
(* The invariant Inv says, next to the types, where each writer stands: at *)
(* every line of SaveSnapshot which records of its snapshot the two files  *)
(* hold, and that nobody else saves the same one.  A record under way is   *)
(* the last of its file and belongs to the one writer inside that write.   *)
(***************************************************************************)
EXTENDS EvidenceStore, FiniteSetTheorems, TLAPS

Early   == {"mkdir", "create", "encode", "rename", "abandon"}
Logging == {"openFacts", "fact", "factWrite"}
Erring  == {"pick", "openErrors", "error", "errorWrite"}

Severe(s) == {j \in DOMAIN FactsOf[s] : FactsOf[s][j].severe}

\* Nobody else saves the snapshot of writer w.
Alone(w) ==
  /\ snap[w] \in Snapshots /\ snap[w] \notin unsaved /\ snap[w] \notin acked
  /\ \A v \in Writers : v # w /\ pc[v] # "idle" => snap[v] # snap[w]

\* What is published and on record of it.
Saved(w) ==
  /\ pc[w] \in Early =>
       /\ snap[w] \notin published /\ k[w] = 1
       /\ Logged(facts, snap[w]) = {} /\ Logged(errors, snap[w]) = {}
  /\ pc[w] \in Logging =>
       /\ snap[w] \in published /\ k[w] \in DOMAIN FactsOf[snap[w]]
       /\ Logged(facts, snap[w]) = 1..(k[w] - 1) /\ Logged(errors, snap[w]) = {}
  /\ pc[w] = "openFacts" => k[w] = 1
  /\ pc[w] \in Erring =>
       /\ snap[w] \in published
       /\ Logged(facts, snap[w]) = DOMAIN FactsOf[snap[w]]
       /\ Logged(errors, snap[w]) = {j \in Severe(snap[w]) : j < k[w]}
  /\ pc[w] \in Erring \ {"pick"} => k[w] \in Severe(snap[w])

\* Where each writer stands.
WriterInv == \A w \in Writers : pc[w] # "idle" => Alone(w) /\ Saved(w)

\* The last record is the one writer w is writing.
Pending(log, w) ==
  /\ log # <<>> /\ ~log[Len(log)].whole
  /\ log[Len(log)].snap = snap[w] /\ log[Len(log)].k = k[w]

\* One writer at a time is inside a write, and its record is the last.
PendingInv ==
  \A w \in Writers :
    /\ pc[w] = "factWrite" => /\ Pending(facts, w)
                              /\ \A v \in Writers : pc[v] = "factWrite" => v = w
    /\ pc[w] = "errorWrite" => /\ Pending(errors, w)
                               /\ \A v \in Writers : pc[v] = "errorWrite" => v = w

\* Of a snapshot nobody has begun to save there is nothing.
UnsavedInv ==
  \A s \in unsaved : /\ s \notin published
                     /\ Logged(facts, s) = {} /\ Logged(errors, s) = {}

\* A temp file is there only inside writeJSONAtomic, and whole when it is renamed.
\* What was left behind is of calls that are over, none of which got to the rename.
TempInv ==
  /\ \A w \in Writers : pc[w] \notin {"encode", "rename", "abandon"} => temp[w] = "none"
  /\ \A w \in Writers : pc[w] = "rename" => temp[w] = "whole"
  /\ IsFiniteSet(orphans) /\ Cardinality(orphans) <= faults
  /\ orphans \cap (published \cup unsaved) = {}
  /\ \A w \in Writers : pc[w] # "idle" => snap[w] \notin orphans

LatestInv ==
  /\ latest = NoFile => published = {}
  /\ latest # NoFile => latest.whole /\ latest.snap \in published

Inv == /\ TypeOK /\ WriterInv /\ PendingInv /\ UnsavedInv /\ TempInv /\ LatestInv
       /\ AcknowledgedIsStored /\ ErrorsAreFacts
-----------------------------------------------------------------------------
(* What the file operations do to what is on record.                       *)

\* Sets with the same elements are the same.
LEMMA SameElements ==
  ASSUME NEW A, NEW B, \A j : j \in A <=> j \in B PROVE A = B
OBVIOUS

\* A fact is on record when some whole line of the file holds it.
LEMMA LoggedIs ==
  ASSUME NEW log, NEW s, NEW j
  PROVE  j \in Logged(log, s) <=>
           \E n \in DOMAIN log : log[n].snap = s /\ log[n].whole /\ log[n].k = j
BY DEF Logged

\* A write that begins puts nothing on record.
LEMMA LoggedAppend ==
  ASSUME NEW log \in Seq(Records), NEW r \in Records, ~r.whole, NEW s
  PROVE  Logged(Append(log, r), s) = Logged(log, s)
<1>1. ASSUME NEW j PROVE j \in Logged(Append(log, r), s) <=> j \in Logged(log, s)
  <2>1. \A n \in DOMAIN log : n \in DOMAIN Append(log, r) /\ Append(log, r)[n] = log[n]
    OBVIOUS
  <2>2. \A n \in DOMAIN Append(log, r) : n \in DOMAIN log \/ Append(log, r)[n] = r
    OBVIOUS
  <2>3. ASSUME j \in Logged(Append(log, r), s) PROVE j \in Logged(log, s)
    <3>1. PICK n \in DOMAIN Append(log, r) :
            /\ Append(log, r)[n].snap = s /\ Append(log, r)[n].whole
            /\ Append(log, r)[n].k = j
      BY <2>3 DEF Logged
    <3>2. n \in DOMAIN log /\ Append(log, r)[n] = log[n]
      BY <2>1, <2>2, <3>1
    <3>. QED BY <3>1, <3>2, LoggedIs, Zenon
  <2>4. ASSUME j \in Logged(log, s) PROVE j \in Logged(Append(log, r), s)
    <3>1. PICK n \in DOMAIN log : log[n].snap = s /\ log[n].whole /\ log[n].k = j
      BY <2>4 DEF Logged
    <3>. QED BY <2>1, <3>1, LoggedIs, Zenon
  <2>. QED BY <2>3, <2>4
<1>. QED BY <1>1, SameElements, Zenon

\* The file after the write of its last line has ended.
Done(log) == [log EXCEPT ![Len(log)].whole = TRUE]

\* It changes one flag of the last line.
LEMMA LastWhole ==
  ASSUME NEW log \in Seq(Records), log # <<>>
  PROVE  /\ Len(log) \in DOMAIN log
         /\ Done(log) \in Seq(Records) /\ Len(Done(log)) = Len(log) /\ DOMAIN Done(log) = DOMAIN log
         /\ \A n \in DOMAIN log : Done(log)[n].snap = log[n].snap /\ Done(log)[n].k = log[n].k
         /\ \A n \in DOMAIN log : n # Len(log) => Done(log)[n].whole = log[n].whole
         /\ Done(log)[Len(log)].whole = TRUE
<1>. USE DEF Done
<1>0. Len(log) \in DOMAIN log /\ DOMAIN log = 1..Len(log)
  OBVIOUS
<1>1. \A n \in DOMAIN log : log[n] \in Records
  OBVIOUS
<1>2. [log[Len(log)] EXCEPT !.whole = TRUE] \in Records
  BY <1>0, <1>1 DEF Records
<1>3. Done(log) \in [1..Len(log) -> Records]
  BY <1>0, <1>1, <1>2
<1>4. Done(log) \in Seq(Records) /\ Len(Done(log)) = Len(log) /\ DOMAIN Done(log) = DOMAIN log
  BY <1>0, <1>3
<1>5. \A n \in DOMAIN log : n # Len(log) => Done(log)[n] = log[n]
  BY <1>0
<1>6. Done(log)[Len(log)] = [log[Len(log)] EXCEPT !.whole = TRUE]
  BY <1>0
<1>. QED BY <1>0, <1>1, <1>4, <1>5, <1>6 DEF Records

\* A write that ends puts the last line, and no other, on record.
LEMMA LoggedWhole ==
  ASSUME NEW log \in Seq(Records), log # <<>>, NEW s
  PROVE  /\ s = log[Len(log)].snap => Logged(Done(log), s) = Logged(log, s) \cup {log[Len(log)].k}
         /\ s # log[Len(log)].snap => Logged(Done(log), s) = Logged(log, s)
<1>1. ASSUME NEW j
      PROVE  j \in Logged(Done(log), s) <=>
               j \in Logged(log, s) \/ (s = log[Len(log)].snap /\ j = log[Len(log)].k)
  <2>1. ASSUME j \in Logged(Done(log), s)
        PROVE  j \in Logged(log, s) \/ (s = log[Len(log)].snap /\ j = log[Len(log)].k)
    <3>1. PICK n \in DOMAIN Done(log) : Done(log)[n].snap = s /\ Done(log)[n].whole /\ Done(log)[n].k = j
      BY <2>1 DEF Logged
    <3>2. n \in DOMAIN log /\ log[n].snap = s /\ log[n].k = j
      BY <3>1, LastWhole, Zenon
    <3>3. n # Len(log) => log[n].whole
      BY <3>1, <3>2, LastWhole, Zenon
    <3>. QED BY <3>2, <3>3, LoggedIs, Zenon
  <2>2. ASSUME j \in Logged(log, s) PROVE j \in Logged(Done(log), s)
    <3>1. PICK n \in DOMAIN log : log[n].snap = s /\ log[n].whole /\ log[n].k = j
      BY <2>2 DEF Logged
    <3>2. n \in DOMAIN Done(log) /\ Done(log)[n].snap = s /\ Done(log)[n].k = j
      BY <3>1, LastWhole, Zenon
    <3>3. Done(log)[n].whole
      BY <3>1, LastWhole, Zenon
    <3>. QED BY <3>2, <3>3, LoggedIs, Zenon
  <2>3. ASSUME s = log[Len(log)].snap, j = log[Len(log)].k PROVE j \in Logged(Done(log), s)
    <3>1. Len(log) \in DOMAIN Done(log) /\ Done(log)[Len(log)].whole
      BY LastWhole, Zenon
    <3>2. Done(log)[Len(log)].snap = s /\ Done(log)[Len(log)].k = j
      BY <2>3, LastWhole, Zenon
    <3>. QED BY <3>1, <3>2, LoggedIs, Zenon
  <2>. QED BY <2>1, <2>2, <2>3
<1>2. s # log[Len(log)].snap => Logged(Done(log), s) = Logged(log, s)
  BY <1>1, SameElements, Zenon
<1>3. s = log[Len(log)].snap => Logged(Done(log), s) = Logged(log, s) \cup {log[Len(log)].k}
  BY <1>1, SameElements, Zenon
<1>. QED BY <1>2, <1>3

-----------------------------------------------------------------------------
(* Types.                                                                  *)

\* What a writer at work has.
LEMMA AtWork ==
  ASSUME TypeOK, NEW w \in Writers, pc[w] # "idle"
  PROVE  /\ snap[w] \in Snapshots /\ k[w] \in Nat \ {0}
         /\ MyFacts(w) = FactsOf[snap[w]] /\ MyFacts(w) \in Seq([severe : BOOLEAN, time : Nat])
         /\ DOMAIN MyFacts(w) = 1..Len(MyFacts(w)) /\ Len(MyFacts(w)) \in Nat
BY StoreAssumption DEF TypeOK, MyFacts

LEMMA TypeStep == TypeOK /\ WriterInv /\ PendingInv /\ [Next]_vars => TypeOK'
<1>. SUFFICES ASSUME TypeOK, WriterInv, PendingInv, [Next]_vars PROVE TypeOK'
  OBVIOUS
<1>. USE DEF TypeOK, Steps, NoFile, MyFacts, Goto
<1>0. CASE UNCHANGED vars
  BY <1>0 DEF vars
<1>. SUFFICES ASSUME NEW w \in Writers, WriterStep(w) PROVE TypeOK'
  BY <1>0 DEF Next
<1>1. CASE \E s \in Snapshots : Begin(w, s)
  BY <1>1 DEF Begin
<1>2. CASE MkdirAll(w)
  BY <1>2, AtWork DEF MkdirAll
<1>3. CASE CreateTemp(w)
  BY <1>3, AtWork DEF CreateTemp
<1>4. CASE Encode(w)
  BY <1>4, AtWork DEF Encode
<1>5. CASE Rename(w)
  <2>1. k[w] = 1
    BY <1>5 DEF Rename, WriterInv, Saved, Early
  <2>2. MyFacts(w) # <<>> => 1 \in DOMAIN MyFacts(w)
    BY <1>5, AtWork DEF Rename
  <2>. QED BY <1>5, <2>1, <2>2, AtWork DEF Rename
<1>6. CASE OpenFacts(w)
  BY <1>6, AtWork DEF OpenFacts
<1>7. CASE WriteFact(w)
  <2>1. Record(snap[w], k[w]) \in Records
    BY <1>7, AtWork DEF WriteFact, Record, Records
  <2>2. facts' \in Seq(Records) /\ DOMAIN facts' = 1..(Len(facts) + 1)
    BY <1>7, <2>1 DEF WriteFact
  <2>3. \A n \in DOMAIN facts' : facts'[n].k \in DOMAIN FactsOf[facts'[n].snap]
    BY <1>7, <2>1 DEF WriteFact, Record
  <2>. QED BY <1>7, <2>2, <2>3 DEF WriteFact
<1>8. CASE FactWritten(w)
  <2>0. facts' = Done(facts)
    BY <1>8 DEF FactWritten, Done
  <2>1. facts # <<>>
    BY <1>8 DEF FactWritten, PendingInv, Pending
  <2>2. /\ facts' \in Seq(Records) /\ DOMAIN facts' = DOMAIN facts
        /\ \A n \in DOMAIN facts : facts'[n].snap = facts[n].snap /\ facts'[n].k = facts[n].k
    BY <2>0, <2>1, LastWhole
  <2>. QED BY <1>8, <2>2, AtWork DEF FactWritten
<1>9. CASE PickError(w)
  BY <1>9, AtWork DEF PickError
<1>10. CASE OpenErrors(w)
  BY <1>10, AtWork DEF OpenErrors
<1>11. CASE WriteError(w)
  <2>1. Record(snap[w], k[w]) \in Records
    BY <1>11, AtWork DEF WriteError, Record, Records
  <2>2. errors' \in Seq(Records) /\ DOMAIN errors' = 1..(Len(errors) + 1)
    BY <1>11, <2>1 DEF WriteError
  <2>3. \A n \in DOMAIN errors' : errors'[n].k \in DOMAIN FactsOf[errors'[n].snap]
    BY <1>11, <2>1 DEF WriteError, Record
  <2>. QED BY <1>11, <2>2, <2>3 DEF WriteError
<1>12. CASE ErrorWritten(w)
  <2>0. errors' = Done(errors)
    BY <1>12 DEF ErrorWritten, Done
  <2>1. errors # <<>>
    BY <1>12 DEF ErrorWritten, PendingInv, Pending
  <2>2. /\ errors' \in Seq(Records) /\ DOMAIN errors' = DOMAIN errors
        /\ \A n \in DOMAIN errors : errors'[n].snap = errors[n].snap /\ errors'[n].k = errors[n].k
    BY <2>0, <2>1, LastWhole
  <2>. QED BY <1>12, <2>2, AtWork DEF ErrorWritten
<1>13. CASE Return(w)
  BY <1>13, AtWork DEF Return
<1>14. CASE Fail(w)
  <2>1. faults' \in 0..MaxFaults
    BY <1>14, StoreAssumption DEF Fail, Fault
  <2>2. pc' \in [Writers -> Steps]
    BY <1>14 DEF Fail
  <2>3. \A v \in Writers : pc'[v] # "idle" => pc[v] # "idle"
    BY <1>14 DEF Fail
  <2>4. \A v \in Writers : pc'[v] \in {"fact", "factWrite", "openFacts", "openErrors", "error",
                                      "errorWrite"} => pc'[v] = pc[v]
    BY <1>14 DEF Fail
  <2>. QED BY <1>14, <2>1, <2>2, <2>3, <2>4 DEF Fail
<1>15. CASE RemoveTemp(w)
  BY <1>15, AtWork DEF RemoveTemp
<1>16. CASE RemoveTempFails(w)
  BY <1>16, StoreAssumption DEF RemoveTempFails, Fault
<1>17. CASE Crash(w)
  BY <1>17, StoreAssumption DEF Crash, Fault
<1>. QED BY <1>1, <1>2, <1>3, <1>4, <1>5, <1>6, <1>7, <1>8, <1>9, <1>10, <1>11, <1>12, <1>13, <1>14, <1>15, <1>16, <1>17 DEF WriterStep
-----------------------------------------------------------------------------
(* What is on record.                                                      *)

\* facts.jsonl gains on record what FactWritten completes, and nothing else.
LEMMA FactsOnRecord ==
  ASSUME TypeOK, PendingInv, NEW w \in Writers, WriterStep(w)
  PROVE  /\ FactWritten(w) => pc[w] = "factWrite" /\ facts # <<>> /\ \A s :
              /\ s = snap[w] => Logged(facts', s) = Logged(facts, s) \cup {k[w]}
              /\ s # snap[w] => Logged(facts', s) = Logged(facts, s)
         /\ ~FactWritten(w) => \A s : Logged(facts', s) = Logged(facts, s)
<1>1. CASE FactWritten(w)
  <2>1. pc[w] = "factWrite" /\ facts' = Done(facts) /\ facts \in Seq(Records)
    BY <1>1 DEF FactWritten, Done, Goto, TypeOK
  <2>2. Pending(facts, w)
    BY <2>1 DEF PendingInv
  <2>3. facts # <<>> /\ facts[Len(facts)].snap = snap[w] /\ facts[Len(facts)].k = k[w]
    BY <2>2 DEF Pending
  <2>4. \A s : /\ s = snap[w] => Logged(Done(facts), s) = Logged(facts, s) \cup {k[w]}
               /\ s # snap[w] => Logged(Done(facts), s) = Logged(facts, s)
    BY <2>1, <2>3, LoggedWhole, Zenon
  <2>. QED BY <1>1, <2>1, <2>3, <2>4, Zenon
<1>2. CASE WriteFact(w)
  <2>1. /\ facts' = Append(facts, Record(snap[w], k[w])) /\ facts \in Seq(Records)
        /\ pc[w] = "fact" /\ snap[w] \in Snapshots /\ k[w] \in Nat \ {0}
    BY <1>2 DEF WriteFact, Goto, TypeOK
  <2>2. Record(snap[w], k[w]) \in Records /\ ~Record(snap[w], k[w]).whole
    BY <2>1 DEF Record, Records
  <2>3. \A s : Logged(facts', s) = Logged(facts, s)
    BY <2>1, <2>2, LoggedAppend, Zenon
  <2>4. ~FactWritten(w)
    BY <2>1 DEF FactWritten, Goto
  <2>. QED BY <2>3, <2>4, Zenon
<1>3. CASE ~FactWritten(w) /\ ~WriteFact(w)
  <2>1. facts' = facts
    BY <1>3 DEF WriterStep, Begin, MkdirAll, CreateTemp, Encode, Rename, OpenFacts, PickError, OpenErrors, WriteError, ErrorWritten, Return, Fail, RemoveTemp, RemoveTempFails, Crash
  <2>. QED BY <1>3, <2>1, Zenon
<1>. QED BY <1>1, <1>2, <1>3

\* errors.jsonl gains on record what ErrorWritten completes, and nothing else.
LEMMA ErrorsOnRecord ==
  ASSUME TypeOK, PendingInv, NEW w \in Writers, WriterStep(w)
  PROVE  /\ ErrorWritten(w) => pc[w] = "errorWrite" /\ errors # <<>> /\ \A s :
              /\ s = snap[w] => Logged(errors', s) = Logged(errors, s) \cup {k[w]}
              /\ s # snap[w] => Logged(errors', s) = Logged(errors, s)
         /\ ~ErrorWritten(w) => \A s : Logged(errors', s) = Logged(errors, s)
<1>1. CASE ErrorWritten(w)
  <2>1. pc[w] = "errorWrite" /\ errors' = Done(errors) /\ errors \in Seq(Records)
    BY <1>1 DEF ErrorWritten, Done, Goto, TypeOK
  <2>2. Pending(errors, w)
    BY <2>1 DEF PendingInv
  <2>3. errors # <<>> /\ errors[Len(errors)].snap = snap[w] /\ errors[Len(errors)].k = k[w]
    BY <2>2 DEF Pending
  <2>4. \A s : /\ s = snap[w] => Logged(Done(errors), s) = Logged(errors, s) \cup {k[w]}
               /\ s # snap[w] => Logged(Done(errors), s) = Logged(errors, s)
    BY <2>1, <2>3, LoggedWhole, Zenon
  <2>. QED BY <1>1, <2>1, <2>3, <2>4, Zenon
<1>2. CASE WriteError(w)
  <2>1. /\ errors' = Append(errors, Record(snap[w], k[w])) /\ errors \in Seq(Records)
        /\ pc[w] = "error" /\ snap[w] \in Snapshots /\ k[w] \in Nat \ {0}
    BY <1>2 DEF WriteError, Goto, TypeOK
  <2>2. Record(snap[w], k[w]) \in Records /\ ~Record(snap[w], k[w]).whole
    BY <2>1 DEF Record, Records
  <2>3. \A s : Logged(errors', s) = Logged(errors, s)
    BY <2>1, <2>2, LoggedAppend, Zenon
  <2>4. ~ErrorWritten(w)
    BY <2>1 DEF ErrorWritten, Goto
  <2>. QED BY <2>3, <2>4, Zenon
<1>3. CASE ~ErrorWritten(w) /\ ~WriteError(w)
  <2>1. errors' = errors
    BY <1>3 DEF WriterStep, Begin, MkdirAll, CreateTemp, Encode, Rename, OpenFacts, WriteFact, FactWritten, PickError, OpenErrors, Return, Fail, RemoveTemp, RemoveTempFails, Crash
  <2>. QED BY <1>3, <2>1, Zenon
<1>. QED BY <1>1, <1>2, <1>3
-----------------------------------------------------------------------------
(* Writers.                                                                *)

\* Writer w leaves the others alone, and the snapshots they save.
LEMMA OthersStay ==
  ASSUME TypeOK, WriterInv, NEW w \in Writers, WriterStep(w), NEW v \in Writers, v # w
  PROVE  pc'[v] = pc[v] /\ snap'[v] = snap[v] /\ k'[v] = k[v] /\ temp'[v] = temp[v]
BY DEF TypeOK, WriterStep, Begin, MkdirAll, CreateTemp, Encode, Rename, OpenFacts, WriteFact, FactWritten, PickError, OpenErrors, WriteError, ErrorWritten, Return, Fail, RemoveTemp, RemoveTempFails, Crash, Goto

\* What a step may do to the sets of snapshots.
LEMMA SetsMove ==
  ASSUME TypeOK, WriterInv, NEW w \in Writers, WriterStep(w)
  PROVE  /\ unsaved' \subseteq unsaved
         /\ published \subseteq published' /\ published' \subseteq published \cup {snap[w]}
         /\ acked \subseteq acked' /\ acked' \subseteq acked \cup {snap[w]}
         /\ snap'[w] # snap[w] => /\ pc[w] = "idle" /\ snap'[w] \in unsaved \ unsaved'
                                 /\ published' = published /\ acked' = acked
                                 /\ facts' = facts /\ errors' = errors
         /\ pc[w] = "idle" => pc'[w] = "mkdir" /\ snap'[w] \in unsaved \ unsaved'
                               /\ snap'[w] \in Snapshots /\ k'[w] = 1
                               /\ published' = published /\ acked' = acked
                               /\ facts' = facts /\ errors' = errors
         /\ pc[w] # "idle" => snap'[w] = snap[w] /\ unsaved' = unsaved
BY DEF TypeOK, WriterStep, Begin, MkdirAll, CreateTemp, Encode, Rename, OpenFacts, WriteFact, FactWritten, PickError, OpenErrors, WriteError, ErrorWritten, Return, Fail, RemoveTemp, RemoveTempFails, Crash, Goto

\* The snapshots of the others are not touched by a step of w.
LEMMA OthersApart ==
  ASSUME TypeOK, WriterInv, NEW w \in Writers, WriterStep(w),
         NEW v \in Writers, v # w, pc[v] # "idle"
  PROVE  /\ snap[v] \notin unsaved' /\ snap[v] \notin acked'
         /\ pc[w] # "idle" => snap[v] # snap[w]
         /\ pc'[w] # "idle" => snap'[w] # snap[v]
         /\ snap[v] \in published' <=> snap[v] \in published
<1>1. Alone(v)
  BY DEF WriterInv
<1>2. pc[w] # "idle" => snap[v] # snap[w] /\ snap'[w] = snap[w]
  BY <1>1, SetsMove DEF Alone
<1>. QED BY <1>1, <1>2, SetsMove DEF Alone

LEMMA OthersStand ==
  ASSUME TypeOK, WriterInv, PendingInv, NEW w \in Writers, WriterStep(w),
         NEW v \in Writers, v # w, pc[v] # "idle"
  PROVE  Alone(v)' /\ Saved(v)'
<1>1. pc'[v] = pc[v] /\ snap'[v] = snap[v] /\ k'[v] = k[v] /\ Alone(v) /\ Saved(v)
  BY OthersStay DEF WriterInv
<1>2. Alone(v)'
  <2>1. ASSUME NEW u \in Writers, u # v, pc'[u] # "idle" PROVE snap'[u] # snap[v]
    <3>1. CASE u = w
      BY <2>1, <3>1, OthersApart
    <3>2. CASE u # w
      BY <1>1, <2>1, <3>2, OthersStay DEF Alone
    <3>. QED BY <3>1, <3>2
  <2>. QED BY <1>1, <2>1, OthersApart DEF Alone
<1>3. Logged(facts', snap[v]) = Logged(facts, snap[v])
  <2>1. FactWritten(w) => snap[v] # snap[w]
    BY OthersApart, FactsOnRecord
  <2>. QED BY <2>1, FactsOnRecord
<1>4. Logged(errors', snap[v]) = Logged(errors, snap[v])
  <2>1. ErrorWritten(w) => snap[v] # snap[w]
    BY OthersApart, ErrorsOnRecord
  <2>. QED BY <2>1, ErrorsOnRecord
<1>5. snap[v] \in published' <=> snap[v] \in published
  BY OthersApart
<1>6. Saved(v)'
  BY <1>1, <1>3, <1>4, <1>5 DEF Saved, Severe
<1>. QED BY <1>2, <1>6


\* Where writer w stands after its own step.
LEMMA OwnStands ==
  ASSUME TypeOK, WriterInv, PendingInv, UnsavedInv, AcknowledgedIsStored,
         NEW w \in Writers, WriterStep(w), pc'[w] # "idle"
  PROVE  Alone(w)' /\ Saved(w)'
<1>1. Alone(w)'
  <2>1. pc[w] # "idle" => Alone(w) /\ snap'[w] = snap[w] /\ unsaved' = unsaved
    BY SetsMove DEF WriterInv
  <2>2. pc[w] = "idle" => snap'[w] \in unsaved \ unsaved' /\ snap'[w] \in Snapshots
    BY SetsMove
  <2>3. acked' = acked
    BY DEF WriterStep, Begin, MkdirAll, CreateTemp, Encode, Rename, OpenFacts, WriteFact, FactWritten, PickError, OpenErrors, WriteError, ErrorWritten, Return, Fail, RemoveTemp, RemoveTempFails, Crash, Goto, TypeOK
  <2>4. \A s \in unsaved : s \notin acked
    BY DEF UnsavedInv, AcknowledgedIsStored
  <2>5. ASSUME NEW v \in Writers, v # w, pc'[v] # "idle" PROVE snap'[v] # snap'[w]
    <3>1. pc'[v] = pc[v] /\ snap'[v] = snap[v]
      BY <2>5, OthersStay
    <3>. QED BY <2>5, <3>1, OthersApart
  <2>. QED BY <2>1, <2>2, <2>3, <2>4, <2>5 DEF Alone
<1>. USE DEF Goto, TypeOK, Early, Logging, Erring
<1>2. CASE pc[w] = "idle"
  <2>1. /\ pc'[w] = "mkdir" /\ snap'[w] \in unsaved /\ k'[w] = 1
        /\ published' = published /\ facts' = facts /\ errors' = errors
    BY <1>2, SetsMove
  <2>2. /\ snap'[w] \notin published
        /\ Logged(facts, snap'[w]) = {} /\ Logged(errors, snap'[w]) = {}
    BY <2>1 DEF UnsavedInv
  <2>. QED BY <1>1, <2>1, <2>2 DEF Saved
<1>3. CASE pc[w] # "idle"
  <2>1. Saved(w) /\ snap'[w] = snap[w] /\ snap[w] \in Snapshots /\ k[w] \in Nat \ {0}
    BY <1>3, SetsMove, AtWork DEF WriterInv
  <2>2. ~FactWritten(w) => Logged(facts', snap[w]) = Logged(facts, snap[w])
    BY FactsOnRecord
  <2>3. ~ErrorWritten(w) => Logged(errors', snap[w]) = Logged(errors, snap[w])
    BY ErrorsOnRecord
  <2>4. /\ FactsOf[snap[w]] \in Seq([severe : BOOLEAN, time : Nat]) /\ MyFacts(w) = FactsOf[snap[w]]
        /\ DOMAIN MyFacts(w) = 1..Len(MyFacts(w)) /\ Len(MyFacts(w)) \in Nat
    BY <1>3, AtWork
  <2>5. CASE MkdirAll(w)
    <3>1. ~FactWritten(w) /\ ~ErrorWritten(w) /\ k'[w] = k[w] /\ published' = published
      BY <2>5 DEF MkdirAll, FactWritten, ErrorWritten
    <3>. QED BY <1>1, <2>5, <2>1, <2>2, <2>3, <3>1 DEF MkdirAll, Saved, MyFacts
  <2>6. CASE CreateTemp(w)
    <3>1. ~FactWritten(w) /\ ~ErrorWritten(w) /\ k'[w] = k[w] /\ published' = published
      BY <2>6 DEF CreateTemp, FactWritten, ErrorWritten
    <3>. QED BY <1>1, <2>6, <2>1, <2>2, <2>3, <3>1 DEF CreateTemp, Saved, MyFacts
  <2>7. CASE Encode(w)
    <3>1. ~FactWritten(w) /\ ~ErrorWritten(w) /\ k'[w] = k[w] /\ published' = published
      BY <2>7 DEF Encode, FactWritten, ErrorWritten
    <3>. QED BY <1>1, <2>7, <2>1, <2>2, <2>3, <3>1 DEF Encode, Saved, MyFacts
  <2>8. CASE Rename(w)
    <3>1. ~FactWritten(w) /\ ~ErrorWritten(w) /\ k'[w] = k[w] /\ snap[w] \in published' /\ k[w] = 1
      BY <2>8, <2>1 DEF Rename, FactWritten, ErrorWritten, Saved
    <3>2. Logged(facts', snap[w]) = {} /\ Logged(errors', snap[w]) = {}
      BY <2>8, <2>1, <2>2, <2>3, <3>1 DEF Rename, Saved
    <3>3. CASE MyFacts(w) = <<>>
      <4>1. pc'[w] = "pick" /\ DOMAIN MyFacts(w) = {}
        BY <2>8, <3>3 DEF Rename
      <4>. QED BY <1>1, <2>1, <2>4, <3>1, <3>2, <4>1 DEF Saved, Severe
    <3>4. CASE MyFacts(w) # <<>>
      <4>1. pc'[w] = "openFacts" /\ 1 \in DOMAIN MyFacts(w)
        BY <2>8, <2>4, <3>4 DEF Rename
      <4>2. 1..(k'[w] - 1) = {}
        BY <3>1
      <4>. QED BY <1>1, <2>1, <2>4, <3>1, <3>2, <4>1, <4>2 DEF Saved
    <3>. QED BY <3>3, <3>4
  <2>9. CASE OpenFacts(w)
    <3>1. ~FactWritten(w) /\ ~ErrorWritten(w) /\ k'[w] = k[w] /\ published' = published
      BY <2>9 DEF OpenFacts, FactWritten, ErrorWritten
    <3>. QED BY <1>1, <2>9, <2>1, <2>2, <2>3, <3>1 DEF OpenFacts, Saved, MyFacts
  <2>10. CASE WriteFact(w)
    <3>1. ~FactWritten(w) /\ ~ErrorWritten(w) /\ k'[w] = k[w] /\ published' = published
      BY <2>10 DEF WriteFact, FactWritten, ErrorWritten
    <3>. QED BY <1>1, <2>10, <2>1, <2>2, <2>3, <3>1 DEF WriteFact, Saved, MyFacts
  <2>11. CASE FactWritten(w)
    <3>1. ~ErrorWritten(w) /\ pc[w] = "factWrite" /\ published' = published
      BY <2>11 DEF FactWritten, ErrorWritten
    <3>2. /\ snap[w] \in published /\ k[w] \in DOMAIN MyFacts(w)
          /\ Logged(facts, snap[w]) = 1..(k[w] - 1) /\ Logged(errors', snap[w]) = {}
      BY <2>1, <2>3, <2>4, <3>1 DEF Saved
    <3>3. Logged(facts', snap[w]) = 1..k[w]
      <4>1. Logged(facts', snap[w]) = (1..(k[w] - 1)) \cup {k[w]}
        BY <2>11, <3>2, FactsOnRecord
      <4>. QED BY <2>1, <4>1
    <3>4. CASE k[w] < Len(MyFacts(w))
      <4>0. k[w] + 1 \in DOMAIN MyFacts(w)
        BY <2>1, <2>4, <3>4
      <4>1. pc'[w] = "fact" /\ k'[w] = k[w] + 1 /\ k[w] + 1 \in DOMAIN MyFacts(w)
        BY <2>11, <3>4, <4>0 DEF FactWritten
      <4>2. k'[w] - 1 = k[w]
        BY <2>1, <4>1
      <4>. QED BY <1>1, <2>1, <2>4, <3>1, <3>2, <3>3, <4>1, <4>2 DEF Saved
    <3>5. CASE ~(k[w] < Len(MyFacts(w)))
      <4>1. pc'[w] = "pick" /\ k'[w] = 1 /\ k[w] = Len(MyFacts(w))
        BY <2>11, <2>1, <2>4, <3>2, <3>5 DEF FactWritten
      <4>2. {j \in Severe(snap[w]) : j < 1} = {}
        BY <2>4 DEF Severe
      <4>. QED BY <1>1, <2>1, <2>4, <3>1, <3>2, <3>3, <4>1, <4>2 DEF Saved, Severe
    <3>. QED BY <3>4, <3>5
  <2>12. CASE PickError(w)
    <3>1. PICK j \in k[w]..Len(MyFacts(w)) :
            /\ NextSevere(MyFacts(w), k[w], j) /\ k' = [k EXCEPT ![w] = j]
            /\ pc[w] = "pick" /\ pc'[w] \in {"error", "openErrors"}
      BY <2>12 DEF PickError
    <3>2. ~FactWritten(w) /\ ~ErrorWritten(w) /\ published' = published /\ k'[w] = j
      BY <2>12, <3>1 DEF PickError, FactWritten, ErrorWritten
    <3>3. j \in Severe(snap[w]) /\ \A i \in Severe(snap[w]) : i < j <=> i < k[w]
      BY <2>1, <2>4, <3>1 DEF NextSevere, Severe
    <3>4. {i \in Severe(snap[w]) : i < j} = {i \in Severe(snap[w]) : i < k[w]}
      BY <3>3
    <3>. QED BY <1>1, <2>1, <2>2, <2>3, <3>1, <3>2, <3>3, <3>4 DEF Saved, Severe
  <2>13. CASE OpenErrors(w)
    <3>1. ~FactWritten(w) /\ ~ErrorWritten(w) /\ k'[w] = k[w] /\ published' = published
      BY <2>13 DEF OpenErrors, FactWritten, ErrorWritten
    <3>. QED BY <1>1, <2>13, <2>1, <2>2, <2>3, <3>1 DEF OpenErrors, Saved, MyFacts
  <2>14. CASE WriteError(w)
    <3>1. ~FactWritten(w) /\ ~ErrorWritten(w) /\ k'[w] = k[w] /\ published' = published
      BY <2>14 DEF WriteError, FactWritten, ErrorWritten
    <3>. QED BY <1>1, <2>14, <2>1, <2>2, <2>3, <3>1 DEF WriteError, Saved, MyFacts
  <2>15. CASE ErrorWritten(w)
    <3>1. /\ ~FactWritten(w) /\ pc[w] = "errorWrite" /\ pc'[w] = "pick"
          /\ published' = published /\ k'[w] = k[w] + 1
      BY <2>15 DEF FactWritten, ErrorWritten
    <3>2. /\ k[w] \in Severe(snap[w])
          /\ Logged(errors, snap[w]) = {j \in Severe(snap[w]) : j < k[w]}
      BY <2>1, <3>1 DEF Saved
    <3>3. Logged(errors', snap[w]) = {j \in Severe(snap[w]) : j < k[w]} \cup {k[w]}
      BY <2>15, <3>2, ErrorsOnRecord
    <3>4. \A j \in Severe(snap[w]) : j \in Nat
      BY <2>4 DEF Severe
    <3>5. Logged(errors', snap[w]) = {j \in Severe(snap[w]) : j < k[w] + 1}
      BY <2>1, <3>2, <3>3, <3>4
    <3>. QED BY <1>1, <2>1, <2>2, <3>1, <3>5 DEF Saved, Severe
  <2>16. CASE Return(w)
    BY <2>16 DEF Return
  <2>17. CASE Fail(w)
    <3>1. /\ ~FactWritten(w) /\ ~ErrorWritten(w)
          /\ pc[w] \in {"encode", "rename"} /\ pc'[w] = "abandon"
          /\ k'[w] = k[w] /\ published' = published /\ facts' = facts /\ errors' = errors
      BY <2>17 DEF Fail, FactWritten, ErrorWritten
    <3>. QED BY <1>1, <2>1, <3>1 DEF Saved
  <2>18. CASE RemoveTemp(w)
    BY <2>18 DEF RemoveTemp
  <2>19. CASE RemoveTempFails(w)
    BY <2>19 DEF RemoveTempFails
  <2>20. CASE Crash(w)
    BY <2>20 DEF Crash
  <2>. QED BY <1>3, <2>5, <2>6, <2>7, <2>8, <2>9, <2>10, <2>11, <2>12, <2>13, <2>14, <2>15, <2>16, <2>17, <2>18, <2>19, <2>20 DEF WriterStep, Begin
<1>. QED BY <1>2, <1>3

LEMMA WriterInvStep ==
  TypeOK /\ WriterInv /\ PendingInv /\ UnsavedInv /\ AcknowledgedIsStored /\ [Next]_vars
    => WriterInv'
<1>. SUFFICES ASSUME TypeOK, WriterInv, PendingInv, UnsavedInv, AcknowledgedIsStored, [Next]_vars
              PROVE  WriterInv'
  OBVIOUS
<1>1. CASE UNCHANGED vars
  BY <1>1 DEF vars, WriterInv, Alone, Saved, Severe
<1>2. ASSUME NEW w \in Writers, WriterStep(w) PROVE WriterInv'
  <2>1. ASSUME NEW v \in Writers, pc'[v] # "idle" PROVE Alone(v)' /\ Saved(v)'
    <3>1. CASE v = w
      BY <1>2, <2>1, <3>1, OwnStands
    <3>2. CASE v # w
      BY <1>2, <2>1, <3>2, OthersStay, OthersStand
    <3>. QED BY <3>1, <3>2
  <2>. QED BY <2>1 DEF WriterInv
<1>. QED BY <1>1, <1>2 DEF Next
-----------------------------------------------------------------------------
(* The records under way, the temp files and the latest snapshot.          *)

LEMMA AppendedLast ==
  ASSUME NEW log \in Seq(Records), NEW r \in Records
  PROVE  Append(log, r) # <<>> /\ Append(log, r)[Len(Append(log, r))] = r
<1>1. Len(Append(log, r)) = Len(log) + 1 /\ Len(log) \in Nat
  OBVIOUS
<1>. QED BY <1>1

LEMMA PendingStep ==
  ASSUME TypeOK, WriterInv, PendingInv, NEW w \in Writers, WriterStep(w) PROVE PendingInv'
<1>. USE DEF TypeOK, Goto
<1>1. ASSUME NEW v \in Writers, pc'[v] = "factWrite"
      PROVE  Pending(facts, v)' /\ \A u \in Writers : pc'[u] = "factWrite" => u = v
  <2>1. CASE WriteFact(w)
    <3>1. /\ \A u \in Writers : pc'[u] = "factWrite" => u = w
          /\ facts' = Append(facts, Record(snap[w], k[w])) /\ snap' = snap /\ k' = k
      BY <2>1 DEF WriteFact
    <3>0. Record(snap[w], k[w]) \in Records
      BY <2>1, AtWork DEF WriteFact, Record, Records
    <3>2. facts' # <<>> /\ facts'[Len(facts')] = Record(snap[w], k[w])
      BY <3>0, <3>1, AppendedLast
    <3>3. v = w
      BY <1>1, <3>1
    <3>4. /\ facts'[Len(facts')].whole = FALSE /\ facts'[Len(facts')].snap = snap'[w]
          /\ facts'[Len(facts')].k = k'[w]
      BY <3>1, <3>2 DEF Record
    <3>. QED BY <3>1, <3>2, <3>3, <3>4 DEF Pending
  <2>2. CASE ~WriteFact(w)
    <3>1. pc[v] = "factWrite"
      BY <1>1, <2>2 DEF WriterStep, Begin, MkdirAll, CreateTemp, Encode, Rename, OpenFacts, WriteFact, FactWritten, PickError, OpenErrors, WriteError, ErrorWritten, Return, Fail, RemoveTemp, RemoveTempFails, Crash
    <3>2. Pending(facts, v) /\ \A u \in Writers : pc[u] = "factWrite" => u = v
      BY <3>1 DEF PendingInv
    <3>3. \A u \in Writers : pc'[u] = "factWrite" => pc[u] = "factWrite"
      BY <2>2 DEF WriterStep, Begin, MkdirAll, CreateTemp, Encode, Rename, OpenFacts, WriteFact, FactWritten, PickError, OpenErrors, WriteError, ErrorWritten, Return, Fail, RemoveTemp, RemoveTempFails, Crash
    <3>4. v # w
      BY <1>1, <2>2, <3>1 DEF WriterStep, Begin, MkdirAll, CreateTemp, Encode, Rename, OpenFacts, WriteFact, FactWritten, PickError, OpenErrors, WriteError, ErrorWritten, Return, Fail, RemoveTemp, RemoveTempFails, Crash
    <3>5. ~FactWritten(w)
      BY <3>2, <3>4 DEF FactWritten
    <3>6. facts' = facts
      BY <2>2, <3>5 DEF WriterStep, Begin, MkdirAll, CreateTemp, Encode, Rename, OpenFacts, PickError, OpenErrors, WriteError, ErrorWritten, Return, Fail, RemoveTemp, RemoveTempFails, Crash
    <3>7. snap'[v] = snap[v] /\ k'[v] = k[v]
      BY <3>4, OthersStay
    <3>. QED BY <3>2, <3>3, <3>6, <3>7 DEF Pending
  <2>. QED BY <2>1, <2>2
<1>2. ASSUME NEW v \in Writers, pc'[v] = "errorWrite"
      PROVE  Pending(errors, v)' /\ \A u \in Writers : pc'[u] = "errorWrite" => u = v
  <2>1. CASE WriteError(w)
    <3>1. /\ \A u \in Writers : pc'[u] = "errorWrite" => u = w
          /\ errors' = Append(errors, Record(snap[w], k[w])) /\ snap' = snap /\ k' = k
      BY <2>1 DEF WriteError
    <3>0. Record(snap[w], k[w]) \in Records
      BY <2>1, AtWork DEF WriteError, Record, Records
    <3>2. errors' # <<>> /\ errors'[Len(errors')] = Record(snap[w], k[w])
      BY <3>0, <3>1, AppendedLast
    <3>3. v = w
      BY <1>2, <3>1
    <3>4. /\ errors'[Len(errors')].whole = FALSE /\ errors'[Len(errors')].snap = snap'[w]
          /\ errors'[Len(errors')].k = k'[w]
      BY <3>1, <3>2 DEF Record
    <3>. QED BY <3>1, <3>2, <3>3, <3>4 DEF Pending
  <2>2. CASE ~WriteError(w)
    <3>1. pc[v] = "errorWrite"
      BY <1>2, <2>2 DEF WriterStep, Begin, MkdirAll, CreateTemp, Encode, Rename, OpenFacts, WriteFact, FactWritten, PickError, OpenErrors, WriteError, ErrorWritten, Return, Fail, RemoveTemp, RemoveTempFails, Crash
    <3>2. Pending(errors, v) /\ \A u \in Writers : pc[u] = "errorWrite" => u = v
      BY <3>1 DEF PendingInv
    <3>3. \A u \in Writers : pc'[u] = "errorWrite" => pc[u] = "errorWrite"
      BY <2>2 DEF WriterStep, Begin, MkdirAll, CreateTemp, Encode, Rename, OpenFacts, WriteFact, FactWritten, PickError, OpenErrors, WriteError, ErrorWritten, Return, Fail, RemoveTemp, RemoveTempFails, Crash
    <3>4. v # w
      BY <1>2, <2>2, <3>1 DEF WriterStep, Begin, MkdirAll, CreateTemp, Encode, Rename, OpenFacts, WriteFact, FactWritten, PickError, OpenErrors, WriteError, ErrorWritten, Return, Fail, RemoveTemp, RemoveTempFails, Crash
    <3>5. ~ErrorWritten(w)
      BY <3>2, <3>4 DEF ErrorWritten
    <3>6. errors' = errors
      BY <2>2, <3>5 DEF WriterStep, Begin, MkdirAll, CreateTemp, Encode, Rename, OpenFacts, WriteFact, FactWritten, PickError, OpenErrors, Return, Fail, RemoveTemp, RemoveTempFails, Crash
    <3>7. snap'[v] = snap[v] /\ k'[v] = k[v]
      BY <3>4, OthersStay
    <3>. QED BY <3>2, <3>3, <3>6, <3>7 DEF Pending
  <2>. QED BY <2>1, <2>2
<1>. QED BY <1>1, <1>2 DEF PendingInv

LEMMA UnsavedStep ==
  ASSUME TypeOK, WriterInv, PendingInv, UnsavedInv, NEW w \in Writers, WriterStep(w)
  PROVE  UnsavedInv'
<1>1. ASSUME NEW s \in unsaved'
      PROVE  s \notin published' /\ Logged(facts', s) = {} /\ Logged(errors', s) = {}
  <2>1. s \in unsaved /\ s \notin published /\ Logged(facts, s) = {} /\ Logged(errors, s) = {}
    BY <1>1, SetsMove DEF UnsavedInv
  <2>2. CASE pc[w] = "idle"
    BY <2>1, <2>2, SetsMove
  <2>3. CASE pc[w] # "idle"
    <3>1. s # snap[w]
      BY <2>1, <2>3 DEF WriterInv, Alone
    <3>. QED BY <2>1, <3>1, SetsMove, FactsOnRecord, ErrorsOnRecord
  <2>. QED BY <2>2, <2>3
<1>. QED BY <1>1 DEF UnsavedInv

\* What a step leaves behind: nothing, or the temp file of a call that ends here,
\* which is a fault.
LEMMA LeftBehind ==
  ASSUME TypeOK, WriterInv, TempInv, NEW w \in Writers, WriterStep(w)
  PROVE  /\ faults' \in Nat /\ faults <= faults'
         /\ \/ orphans' = orphans
            \/ /\ orphans' = orphans \cup {snap[w]} /\ faults' = faults + 1
               /\ pc[w] \in Early /\ pc'[w] = "idle" /\ published' = published
<1>. faults \in Nat
  BY StoreAssumption DEF TypeOK
<1>1. CASE RemoveTempFails(w)
  BY <1>1 DEF RemoveTempFails, Fault, Goto, TypeOK, Early
<1>2. CASE Crash(w)
  BY <1>2 DEF Crash, Fault, TypeOK, TempInv, Early
<1>3. CASE Fail(w)
  BY <1>3 DEF Fail, Fault
<1>4. CASE ~RemoveTempFails(w) /\ ~Crash(w) /\ ~Fail(w)
  BY <1>4 DEF WriterStep, Begin, MkdirAll, CreateTemp, Encode, Rename, OpenFacts, WriteFact, FactWritten, PickError, OpenErrors, WriteError, ErrorWritten, Return, RemoveTemp
<1>. QED BY <1>1, <1>2, <1>3, <1>4

LEMMA TempStep ==
  ASSUME TypeOK, WriterInv, TempInv, NEW w \in Writers, WriterStep(w) PROVE TempInv'
<1>1. ASSUME NEW v \in Writers
      PROVE  /\ pc'[v] \notin {"encode", "rename", "abandon"} => temp'[v] = "none"
             /\ pc'[v] = "rename" => temp'[v] = "whole"
  <2>1. CASE v = w
    BY <2>1 DEF TempInv, TypeOK, Goto, WriterStep, Begin, MkdirAll, CreateTemp, Encode, Rename, OpenFacts, WriteFact, FactWritten, PickError, OpenErrors, WriteError, ErrorWritten, Return, Fail, RemoveTemp, RemoveTempFails, Crash
  <2>2. CASE v # w
    BY <2>2, OthersStay DEF TempInv
  <2>. QED BY <2>1, <2>2
<1>2. IsFiniteSet(orphans') /\ Cardinality(orphans') <= faults'
  <2>1. Cardinality(orphans) \in Nat /\ faults \in Nat
    BY FS_CardinalityType, StoreAssumption DEF TempInv, TypeOK
  <2>2. /\ IsFiniteSet(orphans \cup {snap[w]})
        /\ Cardinality(orphans \cup {snap[w]}) \in {Cardinality(orphans), Cardinality(orphans) + 1}
    BY FS_AddElement DEF TempInv
  <2>3. CASE orphans' = orphans
    <3>1. Cardinality(orphans') = Cardinality(orphans) /\ IsFiniteSet(orphans')
      BY <2>3 DEF TempInv
    <3>. QED BY <2>1, <3>1, LeftBehind DEF TempInv
  <2>4. CASE orphans' = orphans \cup {snap[w]} /\ faults' = faults + 1
    <3>1. /\ Cardinality(orphans') \in {Cardinality(orphans), Cardinality(orphans) + 1}
          /\ IsFiniteSet(orphans')
      BY <2>2, <2>4
    <3>. QED BY <2>1, <2>4, <3>1 DEF TempInv
  <2>. QED BY <2>3, <2>4, LeftBehind
<1>3. orphans' \cap (published' \cup unsaved') = {}
  <2>1. /\ unsaved' \subseteq unsaved /\ published' \subseteq published \cup {snap[w]}
        /\ pc[w] = "idle" => published' = published
    BY SetsMove
  <2>2. pc[w] # "idle" => snap[w] \notin orphans /\ snap[w] \notin unsaved
    BY DEF TempInv, WriterInv, Alone
  <2>3. pc[w] \in Early => snap[w] \notin published
    BY DEF WriterInv, Saved, Early
  <2>4. orphans \cap (published \cup unsaved) = {}
    BY DEF TempInv
  <2>. QED BY <2>1, <2>2, <2>3, <2>4, LeftBehind DEF Early
<1>4. ASSUME NEW v \in Writers, pc'[v] # "idle" PROVE snap'[v] \notin orphans'
  <2>1. CASE v = w
    <3>1. orphans' = orphans
      BY <1>4, <2>1, LeftBehind
    <3>2. pc[w] = "idle" => snap'[w] \in unsaved
      BY SetsMove
    <3>3. pc[w] # "idle" => snap'[w] = snap[w]
      BY SetsMove
    <3>. QED BY <2>1, <3>1, <3>2, <3>3 DEF TempInv
  <2>2. CASE v # w
    <3>1. pc[v] # "idle" /\ snap'[v] = snap[v] /\ snap[v] \notin orphans
      BY <1>4, <2>2, OthersStay DEF TempInv
    <3>2. pc[w] # "idle" => snap[v] # snap[w]
      BY <2>2, <3>1 DEF WriterInv, Alone
    <3>. QED BY <3>1, <3>2, LeftBehind DEF Early
  <2>. QED BY <2>1, <2>2
<1>. QED BY <1>1, <1>2, <1>3, <1>4 DEF TempInv

LEMMA LatestStep ==
  ASSUME TypeOK, TempInv, LatestInv, NEW w \in Writers, WriterStep(w) PROVE LatestInv'
<1>1. CASE Rename(w)
  <2>1. temp[w] = "whole" /\ snap[w] \in Snapshots
    BY <1>1 DEF Rename, Goto, TempInv, TypeOK
  <2>2. latest' = [snap |-> snap[w], whole |-> TRUE] /\ snap[w] \in published'
    BY <1>1, <2>1 DEF Rename
  <2>3. latest' # NoFile
    BY <2>1, <2>2, StoreAssumption DEF NoFile
  <2>. QED BY <2>2, <2>3 DEF LatestInv
<1>2. CASE ~Rename(w)
  <2>1. latest' = latest /\ published' = published
    BY <1>2 DEF WriterStep, Begin, MkdirAll, CreateTemp, Encode, OpenFacts, WriteFact, FactWritten, PickError, OpenErrors, WriteError, ErrorWritten, Return, Fail, RemoveTemp, RemoveTempFails, Crash
  <2>. QED BY <2>1 DEF LatestInv
<1>. QED BY <1>1, <1>2
-----------------------------------------------------------------------------
(* Acknowledged snapshots and the excerpt in errors.jsonl.                 *)

LEMMA AckStep ==
  ASSUME TypeOK, WriterInv, PendingInv, AcknowledgedIsStored, NEW w \in Writers, WriterStep(w)
  PROVE  AcknowledgedIsStored'
<1>. DEFINE Stored(s) == /\ s \in published /\ Logged(facts, s) = DOMAIN FactsOf[s]
                        /\ Logged(errors, s) = Severe(s)
<1>1. AcknowledgedIsStored <=> \A s \in acked : Stored(s)
  BY DEF AcknowledgedIsStored, Severe
<1>2. AcknowledgedIsStored' <=> \A s \in acked' : Stored(s)'
  BY DEF AcknowledgedIsStored, Severe
<1>3. ASSUME NEW s \in acked' PROVE Stored(s)'
  <2>1. CASE s \in acked
    <3>1. pc[w] # "idle" => s # snap[w]
      BY <2>1 DEF WriterInv, Alone
    <3>2. Logged(facts', s) = Logged(facts, s) /\ Logged(errors', s) = Logged(errors, s)
      <4>1. CASE pc[w] = "idle"
        BY <4>1, SetsMove
      <4>2. CASE pc[w] # "idle"
        BY <3>1, <4>2, FactsOnRecord, ErrorsOnRecord
      <4>. QED BY <4>1, <4>2
    <3>. QED BY <1>1, <2>1, <3>2, SetsMove DEF Severe
  <2>2. CASE s \notin acked
    <3>1. Return(w) /\ s = snap[w]
      BY <1>3, <2>2 DEF WriterStep, Begin, MkdirAll, CreateTemp, Encode, Rename, OpenFacts, WriteFact, FactWritten, PickError, OpenErrors, WriteError, ErrorWritten, Return, Fail, RemoveTemp, RemoveTempFails, Crash
    <3>2. pc[w] = "pick" /\ Saved(w) /\ snap[w] \in Snapshots
      BY <3>1 DEF Return, Goto, WriterInv, Alone
    <3>3. /\ snap[w] \in published /\ Logged(facts, snap[w]) = DOMAIN FactsOf[snap[w]]
          /\ Logged(errors, snap[w]) = {j \in Severe(snap[w]) : j < k[w]}
      BY <3>2 DEF Saved, Erring
    <3>4. \A j \in Severe(snap[w]) : j < k[w]
      <4>1. \A j \in k[w]..Len(MyFacts(w)) : ~FactsOf[snap[w]][j].severe
        BY <3>1 DEF Return, MyFacts
      <4>2. DOMAIN FactsOf[snap[w]] = 1..Len(MyFacts(w)) /\ k[w] \in Nat \ {0} /\ Len(MyFacts(w)) \in Nat
        BY <3>2, AtWork
      <4>. QED BY <4>1, <4>2 DEF Severe
    <3>5. Logged(errors, snap[w]) = Severe(snap[w])
      BY <3>3, <3>4
    <3>6. facts' = facts /\ errors' = errors /\ published' = published
      BY <3>1 DEF Return
    <3>. QED BY <3>1, <3>3, <3>5, <3>6 DEF Severe
  <2>. QED BY <2>1, <2>2
<1>. QED BY <1>2, <1>3

\* What is on record stays on record.
LEMMA RecordStays ==
  ASSUME TypeOK, PendingInv, NEW w \in Writers, WriterStep(w), NEW s
  PROVE  Logged(facts, s) \subseteq Logged(facts', s)
BY FactsOnRecord

LEMMA ExcerptStep ==
  ASSUME TypeOK, WriterInv, PendingInv, ErrorsAreFacts, NEW w \in Writers, WriterStep(w)
  PROVE  ErrorsAreFacts'
<1>1. ASSUME NEW n \in DOMAIN errors, errors'[n].k = errors[n].k, errors'[n].snap = errors[n].snap
      PROVE  /\ errors'[n].k \in Logged(facts', errors'[n].snap)
             /\ FactsOf[errors'[n].snap][errors'[n].k].severe
  BY <1>1, RecordStays DEF ErrorsAreFacts
<1>2. CASE WriteError(w)
  <2>1. /\ pc[w] = "error" /\ Saved(w) /\ snap[w] \in Snapshots
        /\ errors' = Append(errors, Record(snap[w], k[w])) /\ facts' = facts
    BY <1>2 DEF WriteError, Goto, WriterInv, Alone
  <2>2. k[w] \in Severe(snap[w]) /\ Logged(facts, snap[w]) = DOMAIN FactsOf[snap[w]]
    BY <2>1 DEF Saved, Erring
  <2>3. \A n \in DOMAIN errors' : (n \in DOMAIN errors /\ errors'[n] = errors[n])
                                   \/ errors'[n] = Record(snap[w], k[w])
    BY <2>1 DEF TypeOK
  <2>4. k[w] \in Logged(facts', snap[w]) /\ FactsOf[snap[w]][k[w]].severe
    BY <2>1, <2>2 DEF Severe
  <2>. QED BY <1>1, <2>3, <2>4 DEF ErrorsAreFacts, Record
<1>3. CASE ErrorWritten(w)
  <2>1. errors' = Done(errors) /\ errors # <<>> /\ errors \in Seq(Records)
    BY <1>3, ErrorsOnRecord DEF ErrorWritten, Done, TypeOK
  <2>2. /\ DOMAIN errors' = DOMAIN errors
        /\ \A n \in DOMAIN errors : errors'[n].snap = errors[n].snap /\ errors'[n].k = errors[n].k
    BY <2>1, LastWhole
  <2>. QED BY <1>1, <2>2 DEF ErrorsAreFacts
<1>4. CASE ~WriteError(w) /\ ~ErrorWritten(w)
  <2>1. errors' = errors
    BY <1>4 DEF WriterStep, Begin, MkdirAll, CreateTemp, Encode, Rename, OpenFacts, WriteFact, FactWritten, PickError, OpenErrors, Return, Fail, RemoveTemp, RemoveTempFails, Crash
  <2>. QED BY <1>1, <2>1 DEF ErrorsAreFacts
<1>. QED BY <1>2, <1>3, <1>4

-----------------------------------------------------------------------------
(* The invariant and what follows from it.                                 *)

LEMMA InitInv == Init => Inv
<1>. SUFFICES ASSUME Init PROVE Inv
  OBVIOUS
<1>1. TypeOK
  BY StoreAssumption DEF Init, TypeOK, Steps, NoFile
<1>2. \A s : Logged(facts, s) = {} /\ Logged(errors, s) = {}
  BY DEF Init, Logged
<1>3. LatestInv
  BY DEF Init, LatestInv, NoFile
<1>4. TempInv
  BY FS_EmptySet DEF Init, TempInv
<1>. QED BY <1>1, <1>2, <1>3, <1>4 DEF Init, Inv, WriterInv, PendingInv, UnsavedInv,
       AcknowledgedIsStored, ErrorsAreFacts

LEMMA NextInv == Inv /\ [Next]_vars => Inv'
<1>. SUFFICES ASSUME Inv, [Next]_vars PROVE Inv'
  OBVIOUS
<1>. USE DEF Inv
<1>1. CASE UNCHANGED vars
  <2>1. TypeOK' /\ WriterInv'
    BY <1>1, TypeStep, WriterInvStep
  <2>2. PendingInv'
    BY <1>1 DEF vars, PendingInv, Pending
  <2>3. UnsavedInv' /\ AcknowledgedIsStored' /\ ErrorsAreFacts'
    BY <1>1 DEF vars, UnsavedInv, AcknowledgedIsStored, ErrorsAreFacts
  <2>4. TempInv' /\ LatestInv'
    BY <1>1 DEF vars, TempInv, LatestInv
  <2>. QED BY <2>1, <2>2, <2>3, <2>4
<1>2. ASSUME NEW w \in Writers, WriterStep(w) PROVE Inv'
  <2>1. TypeOK' /\ WriterInv'
    BY TypeStep, WriterInvStep
  <2>2. PendingInv' /\ UnsavedInv' /\ TempInv' /\ LatestInv'
    BY <1>2, PendingStep, UnsavedStep, TempStep, LatestStep
  <2>3. AcknowledgedIsStored' /\ ErrorsAreFacts'
    BY <1>2, AckStep, ExcerptStep
  <2>. QED BY <2>1, <2>2, <2>3
<1>. QED BY <1>1, <1>2 DEF Next

THEOREM StoreInvariant == Spec => []Inv
BY InitInv, NextInv, PTL DEF Spec

\* The files and the writers keep their types: a record names a fact there is.
THEOREM TypeCorrect == Spec => []TypeOK
<1>1. Inv => TypeOK
  BY DEF Inv
<1>. QED BY <1>1, StoreInvariant, PTL

\* LoadLatestSnapshot finds a snapshot that was published whenever there is one,
\* and never a file it cannot parse.
THEOREM LatestLoads == Spec => []LatestAlwaysLoads
<1>1. Inv => LatestAlwaysLoads
  BY DEF Inv, LatestInv, LatestAlwaysLoads, LoadLatestSnapshot
<1>. QED BY <1>1, StoreInvariant, PTL

\* A SaveSnapshot that returned nil stored every fact and every severe one as an
\* error too, for any number of writers and faults.
THEOREM AcknowledgedStaysStored == Spec => []AcknowledgedIsStored
<1>1. Inv => AcknowledgedIsStored
  BY DEF Inv
<1>. QED BY <1>1, StoreInvariant, PTL

\* No error is on record whose fact is not.
THEOREM ErrorsAreAnExcerpt == Spec => []ErrorsAreFacts
<1>1. Inv => ErrorsAreFacts
  BY DEF Inv
<1>. QED BY <1>1, StoreInvariant, PTL

\* Every temp file left behind cost a crash or a failed Remove, and none is of a
\* call that published its snapshot, for any number of writers and faults.
THEOREM TempsStayAccounted == Spec => []TempsAreAccounted
<1>1. Inv => TempsAreAccounted
  BY DEF Inv, TempInv, TempsAreAccounted, AcknowledgedIsStored
<1>. QED BY <1>1, StoreInvariant, PTL

\* A fact carries a time.
LEMMA FactsAreTimed ==
  ASSUME NEW s \in Snapshots, NEW j \in DOMAIN FactsOf[s]
  PROVE  FactsOf[s][j].time \in Nat
<1>1. FactsOf[s] \in Seq([severe : BOOLEAN, time : Nat])
  BY StoreAssumption
<1>2. ASSUME NEW S, NEW q \in Seq(S), NEW i \in DOMAIN q PROVE q[i] \in S
  OBVIOUS
<1>3. FactsOf[s][j] \in [severe : BOOLEAN, time : Nat]
  BY <1>1, <1>2, Zenon
<1>. QED BY <1>3

\* While only the last line of facts.jsonl may be torn, LoadRecentFacts returns
\* every acknowledged fact newer than its cutoff.
THEOREM TearHidesNothing == Spec => []TearAtTheEndHidesNothing
<1>1. ASSUME TypeOK, AcknowledgedIsStored,
             \A n \in DOMAIN facts : facts[n].whole \/ n = Len(facts),
             NEW s \in acked, NEW j \in DOMAIN FactsOf[s],
             NEW cutoff \in 0..(FactsOf[s][j].time - 1)
      PROVE  \E n \in LoadRecentFacts(cutoff) : facts[n].snap = s /\ facts[n].k = j
  <2>1. j \in Logged(facts, s)
    BY <1>1 DEF AcknowledgedIsStored
  <2>2. PICK n \in DOMAIN facts : facts[n].snap = s /\ facts[n].whole /\ facts[n].k = j
    BY <2>1 DEF Logged
  <2>3. facts \in Seq(Records) /\ s \in Snapshots
    BY <1>1 DEF TypeOK
  <2>4. \A m \in 1..n : facts[m].whole
    BY <1>1, <2>2, <2>3
  <2>5. FactsOf[s][j].time \in Nat
    BY <1>1, <2>3, FactsAreTimed
  <2>6. FactAt(n).time > cutoff
    BY <2>2, <2>5 DEF FactAt
  <2>. QED BY <2>2, <2>4, <2>6 DEF LoadRecentFacts
<1>2. Inv => TearAtTheEndHidesNothing
  BY <1>1 DEF Inv, TearAtTheEndHidesNothing
<1>. QED BY <1>2, StoreInvariant, PTL
-----------------------------------------------------------------------------
(* Tears.                                                                  *)

\* No step mends or removes a torn record.
LEMMA TornStays ==
  ASSUME Inv, NEW w \in Writers, WriterStep(w), NEW n, Torn(n)
  PROVE  Torn(n)'
<1>. USE DEF Inv
<1>0. facts \in Seq(Records) /\ n \in 1..Len(facts) /\ ~facts[n].whole
  BY DEF TypeOK, Torn
<1>1. CASE WriteFact(w)
  <2>1. facts' = Append(facts, Record(snap[w], k[w]))
    BY <1>1 DEF WriteFact
  <2>2. n \in DOMAIN facts' /\ facts'[n] = facts[n] /\ n # Len(facts')
    BY <1>0, <2>1
  <2>. QED BY <1>0, <2>2 DEF Torn
<1>2. CASE FactWritten(w)
  <2>1. pc[w] = "factWrite" /\ facts' = Done(facts) /\ facts # <<>>
    BY <1>2, FactsOnRecord DEF FactWritten, Goto, Done
  <2>2. n # Len(facts)
    BY <2>1 DEF Torn
  <2>3. n \in DOMAIN facts' /\ ~facts'[n].whole /\ Len(facts') = Len(facts)
    <3>1. n \in DOMAIN facts /\ facts \in Seq(Records)
      BY <1>0
    <3>. QED BY <1>0, <2>1, <2>2, <3>1, LastWhole, Zenon
  <2>. QED BY <2>2, <2>3 DEF Torn
<1>3. CASE ~WriteFact(w) /\ ~FactWritten(w)
  <2>1. facts' = facts
    BY <1>3 DEF WriterStep, Begin, MkdirAll, CreateTemp, Encode, Rename, OpenFacts, PickError, OpenErrors, WriteError, ErrorWritten, Return, Fail, RemoveTemp, RemoveTempFails, Crash
  <2>2. pc'[w] # "factWrite"
    BY <1>3 DEF TypeOK, WriterStep, Begin, MkdirAll, CreateTemp, Encode, Rename, OpenFacts, PickError, OpenErrors, WriteError, ErrorWritten, Return, Fail, RemoveTemp, RemoveTempFails, Crash, Goto
  <2>3. ASSUME NEW v \in Writers, pc'[v] = "factWrite" PROVE pc[v] = "factWrite"
    BY <2>2, <2>3, OthersStay
  <2>. QED BY <2>1, <2>3 DEF Torn
<1>. QED BY <1>1, <1>2, <1>3

LEMMA TornForGood == Inv /\ [Next]_vars => \A n : Torn(n) => Torn(n)'
<1>1. UNCHANGED vars => \A n : Torn(n) => Torn(n)'
  BY DEF vars, Torn
<1>. QED BY <1>1, TornStays DEF Next

\* A record that a full disk or a crash cut short stays in facts.jsonl, for ever
\* and whatever SaveSnapshot is called for afterwards.
THEOREM TearsStay == Spec => TearsAreForGood
<1>1. Inv /\ [Next]_vars => [\A n \in DOMAIN facts : Torn(n) => Torn(n)']_vars
  BY TornForGood
<1>. QED BY <1>1, StoreInvariant, PTL DEF Spec, TearsAreForGood

\* From then on LoadRecentFacts returns nothing that lies behind it, whatever
\* its cutoff: no fact saved later is ever read, acknowledged or not.
THEOREM TearBlindsForGood ==
  ASSUME NEW n, NEW cutoff
  PROVE  Spec => [](Torn(n) => [](\A m \in LoadRecentFacts(cutoff) : m < n))
<1>1. Inv /\ [Next]_vars => (Torn(n) => Torn(n)')
  BY TornForGood
<1>2. Inv => (Torn(n) => \A m \in LoadRecentFacts(cutoff) : m < n)
  <2>. SUFFICES ASSUME Inv, Torn(n), NEW m \in LoadRecentFacts(cutoff) PROVE m < n
    OBVIOUS
  <2>1. m \in DOMAIN facts /\ (\A i \in 1..m : facts[i].whole) /\ n \in DOMAIN facts /\ ~facts[n].whole
    BY DEF LoadRecentFacts, Torn
  <2>2. DOMAIN facts = 1..Len(facts) /\ Len(facts) \in Nat
    BY DEF Inv, TypeOK
  <2>. QED BY <2>1, <2>2
<1>. QED BY <1>1, <1>2, StoreInvariant, PTL DEF Spec
-----------------------------------------------------------------------------
(* Every save comes to its end.                                            *)

\* The pass over the errors stops one behind the last fact.
PickInv == \A w \in Writers : pc[w] = "pick" => k[w] <= Len(MyFacts(w)) + 1

\* The bound of each label, and that each is a number of steps.
LEMMA StepsAre ==
  ASSUME NEW label, NEW n \in Nat, NEW j \in Nat \ {0}
  PROVE  /\ label = "mkdir" => StepsLeft(label, n, j) = 6 * n + 6
         /\ label = "create" => StepsLeft(label, n, j) = 6 * n + 5
         /\ label = "encode" => StepsLeft(label, n, j) = 6 * n + 4
         /\ label = "rename" => StepsLeft(label, n, j) = 6 * n + 3
         /\ label = "abandon" => StepsLeft(label, n, j) = 1
         /\ label = "openFacts" => StepsLeft(label, n, j) = 6 * n + 2
         /\ label = "fact" => StepsLeft(label, n, j) = 4 * n + 2 * (n + 1 - j) + 1
         /\ label = "factWrite" => StepsLeft(label, n, j) = 4 * n + 2 * (n + 1 - j)
         /\ label = "pick" => StepsLeft(label, n, j) = 4 * (n + 1 - j) + 1
         /\ label = "openErrors" => StepsLeft(label, n, j) = 4 * (n + 1 - j)
         /\ label = "error" => StepsLeft(label, n, j) = 4 * (n + 1 - j) - 1
         /\ label = "errorWrite" => StepsLeft(label, n, j) = 4 * (n + 1 - j) - 2
BY DEF StepsLeft

\* The step bound of a writer at work, and where its pass can be.
LEMMA BoundOf ==
  ASSUME TypeOK, PickInv, NEW w \in Writers, pc[w] # "idle"
  PROVE  /\ Len(MyFacts(w)) \in Nat /\ k[w] \in Nat \ {0}
         /\ Effort(w) = StepsLeft(pc[w], Len(MyFacts(w)), k[w])
         /\ pc[w] \in {"openFacts", "fact", "factWrite", "openErrors", "error", "errorWrite"}
              => k[w] <= Len(MyFacts(w))
         /\ pc[w] = "pick" => k[w] <= Len(MyFacts(w)) + 1
<1>1. /\ Len(MyFacts(w)) \in Nat /\ k[w] \in Nat \ {0}
      /\ DOMAIN MyFacts(w) = 1..Len(MyFacts(w))
  BY AtWork
<1>2. Effort(w) = StepsLeft(pc[w], Len(MyFacts(w)), k[w])
  BY DEF Effort
<1>3. pc[w] \in {"openFacts", "fact", "factWrite", "openErrors", "error", "errorWrite"}
        => k[w] \in DOMAIN MyFacts(w)
  BY DEF TypeOK
<1>. QED BY <1>1, <1>2, <1>3 DEF PickInv

\* As long as a save runs there is a step left.
LEMMA BoundIsPositive ==
  ASSUME TypeOK, PickInv, NEW w \in Writers, pc[w] # "idle"
  PROVE  Effort(w) \in Nat \ {0}
<1>. DEFINE n == Len(MyFacts(w))
            j == k[w]
<1>1. pc[w] \in Steps
  BY DEF TypeOK
<1>2. /\ n \in Nat /\ j \in Nat \ {0} /\ Effort(w) = StepsLeft(pc[w], n, j)
      /\ pc[w] \in {"openFacts", "fact", "factWrite", "openErrors", "error", "errorWrite"} => j <= n
      /\ pc[w] = "pick" => j <= n + 1
  BY BoundOf
<1>. HIDE DEF n, j
<1>3. CASE pc[w] \in {"mkdir", "create", "encode", "rename", "abandon", "openFacts"}
  BY <1>2, <1>3, StepsAre
<1>4. CASE pc[w] \in {"fact", "factWrite", "pick"}
  BY <1>2, <1>4, StepsAre
<1>5. CASE pc[w] \in {"openErrors", "error", "errorWrite"}
  BY <1>2, <1>5, StepsAre
<1>. QED BY <1>1, <1>3, <1>4, <1>5 DEF Steps

\* A step that leaves a writer at work leaves it the bound of its new label.
LEMMA BoundAfter ==
  ASSUME TypeOK, TypeOK', WriterInv, NEW w \in Writers, WriterStep(w), pc[w] # "idle"
  PROVE  /\ MyFacts(w)' = MyFacts(w)
         /\ pc'[w] # "idle" => Effort(w)' = StepsLeft(pc'[w], Len(MyFacts(w)), k'[w])
         /\ pc'[w] = "idle" => Effort(w)' = 0
<1>1. snap'[w] = snap[w]
  BY SetsMove
<1>. QED BY <1>1 DEF MyFacts, Effort

LEMMA PickStep ==
  ASSUME Inv, Inv', PickInv, NEW w \in Writers, WriterStep(w)
  PROVE  PickInv'
<1>. USE DEF Inv
<1>1. ASSUME NEW v \in Writers, v # w, pc'[v] = "pick" PROVE k'[v] <= Len(MyFacts(v)') + 1
  <2>1. pc[v] = "pick" /\ k'[v] = k[v] /\ MyFacts(v)' = MyFacts(v)
    BY <1>1, OthersStay DEF MyFacts
  <2>. QED BY <2>1 DEF PickInv
<1>2. ASSUME pc'[w] = "pick" PROVE k'[w] <= Len(MyFacts(w)') + 1
  <2>1. pc[w] # "idle"
    BY <1>2, SetsMove
  <2>2. /\ MyFacts(w)' = MyFacts(w) /\ Len(MyFacts(w)) \in Nat /\ k[w] \in Nat \ {0}
        /\ pc[w] = "errorWrite" => k[w] <= Len(MyFacts(w))
    BY <2>1, BoundAfter, BoundOf
  <2>3. k'[w] = 1 \/ (pc[w] = "errorWrite" /\ k'[w] = k[w] + 1)
    <3>1. Rename(w) \/ FactWritten(w) \/ ErrorWritten(w)
      BY <1>2 DEF TypeOK, WriterStep, Begin, MkdirAll, CreateTemp, Encode, OpenFacts, WriteFact, PickError, OpenErrors, WriteError, Return, Fail, RemoveTemp, RemoveTempFails, Crash, Goto
    <3>2. CASE Rename(w)
      BY <3>2, <2>1 DEF Rename, Goto, WriterInv, Saved, Early
    <3>3. CASE FactWritten(w)
      BY <1>2, <3>3 DEF FactWritten, Goto, TypeOK
    <3>4. CASE ErrorWritten(w)
      BY <3>4 DEF ErrorWritten, Goto, TypeOK
    <3>. QED BY <3>1, <3>2, <3>3, <3>4
  <2>. QED BY <2>2, <2>3
<1>. QED BY <1>1, <1>2 DEF PickInv

\* A step of its writer brings a save nearer to its end.
LEMMA SaveRunsDown ==
  ASSUME Inv, Inv', PickInv, NEW w \in Writers, WriterStep(w), pc[w] # "idle"
  PROVE  Effort(w)' < Effort(w)
<1>. USE DEF Inv
<1>. DEFINE n == Len(MyFacts(w))
            j == k[w]
<1>1. /\ n \in Nat /\ j \in Nat \ {0} /\ Effort(w) = StepsLeft(pc[w], n, j)
      /\ pc[w] \in {"openFacts", "fact", "factWrite", "openErrors", "error", "errorWrite"} => j <= n
      /\ pc[w] = "pick" => j <= n + 1
      /\ pc[w] = "openFacts" => j = 1
  BY BoundOf DEF WriterInv, Saved
<1>2. Effort(w) \in Nat \ {0}
  BY BoundIsPositive
<1>3. /\ pc'[w] # "idle" => Effort(w)' = StepsLeft(pc'[w], n, k'[w])
      /\ pc'[w] = "idle" => Effort(w)' = 0
  BY BoundAfter
<1>4. k'[w] \in Nat \ {0}
  BY DEF TypeOK
<1>. HIDE DEF n, j, Inv
<1>5. CASE pc'[w] = "idle"
  BY <1>2, <1>3, <1>5
<1>6. CASE pc'[w] = "abandon"
  <2>1. pc[w] \in {"encode", "rename"} /\ k'[w] = j
    BY <1>6 DEF j, Inv, TypeOK, WriterStep, Begin, MkdirAll, CreateTemp, Encode, Rename, OpenFacts, WriteFact, FactWritten, PickError, OpenErrors, WriteError, ErrorWritten, Return, Fail, RemoveTemp, RemoveTempFails, Crash, Goto
  <2>. QED BY <1>1, <1>3, <1>6, <2>1, StepsAre
<1>7. CASE MkdirAll(w)
  <2>1. pc[w] = "mkdir" /\ pc'[w] = "create" /\ k'[w] = j
    BY <1>7 DEF MkdirAll, Goto, Inv, TypeOK, j
  <2>. QED BY <1>1, <1>3, <2>1, StepsAre
<1>8. CASE CreateTemp(w)
  <2>1. pc[w] = "create" /\ pc'[w] = "encode" /\ k'[w] = j
    BY <1>8 DEF CreateTemp, Goto, Inv, TypeOK, j
  <2>. QED BY <1>1, <1>3, <2>1, StepsAre
<1>9. CASE Encode(w)
  <2>1. pc[w] = "encode" /\ pc'[w] = "rename" /\ k'[w] = j
    BY <1>9 DEF Encode, Goto, Inv, TypeOK, j
  <2>. QED BY <1>1, <1>3, <2>1, StepsAre
<1>10. CASE Rename(w)
  <2>1. pc[w] = "rename" /\ pc'[w] \in {"openFacts", "pick"} /\ k'[w] = j
    BY <1>10 DEF Rename, Goto, Inv, TypeOK, j
  <2>2. j = 1
    BY <2>1 DEF Inv, WriterInv, Saved, Early, j
  <2>. QED BY <1>1, <1>3, <2>1, <2>2, StepsAre
<1>11. CASE OpenFacts(w)
  <2>1. pc[w] = "openFacts" /\ pc'[w] = "fact" /\ k'[w] = j
    BY <1>11 DEF OpenFacts, Goto, Inv, TypeOK, j
  <2>. QED BY <1>1, <1>3, <2>1, StepsAre
<1>12. CASE WriteFact(w)
  <2>1. pc[w] = "fact" /\ pc'[w] = "factWrite" /\ k'[w] = j
    BY <1>12 DEF WriteFact, Goto, Inv, TypeOK, j
  <2>. QED BY <1>1, <1>3, <2>1, StepsAre
<1>13. CASE FactWritten(w)
  <2>1. /\ pc[w] = "factWrite"
        /\ \/ pc'[w] = "fact" /\ k'[w] = j + 1
           \/ pc'[w] = "pick" /\ k'[w] = 1
    BY <1>13 DEF FactWritten, Goto, Inv, TypeOK, j
  <2>2. 1 \in Nat \ {0} /\ j + 1 \in Nat \ {0}
    BY <1>1
  <2>3. CASE pc'[w] = "fact" /\ k'[w] = j + 1
    BY <1>1, <1>3, <2>1, <2>2, <2>3, StepsAre
  <2>4. CASE pc'[w] = "pick" /\ k'[w] = 1
    BY <1>1, <1>3, <2>1, <2>2, <2>4, StepsAre
  <2>. QED BY <2>1, <2>3, <2>4
<1>14. CASE PickError(w)
  <2>1. /\ pc[w] = "pick" /\ pc'[w] \in {"error", "openErrors"}
        /\ k'[w] \in j..n
    BY <1>14 DEF PickError, Goto, Inv, TypeOK, j, n
  <2>2. PICK m \in j..n : k'[w] = m
    BY <2>1
  <2>3. m \in Nat \ {0} /\ j <= m /\ m <= n
    BY <1>1, <2>2
  <2>4. Effort(w)' \in {4 * (n + 1 - m), 4 * (n + 1 - m) - 1}
    BY <1>1, <1>3, <2>1, <2>2, <2>3, StepsAre
  <2>5. Effort(w) = 4 * (n + 1 - j) + 1
    BY <1>1, <2>1, StepsAre
  <2>. QED BY <1>1, <2>3, <2>4, <2>5
<1>15. CASE OpenErrors(w)
  <2>1. pc[w] = "openErrors" /\ pc'[w] = "error" /\ k'[w] = j
    BY <1>15 DEF OpenErrors, Goto, Inv, TypeOK, j
  <2>. QED BY <1>1, <1>3, <2>1, StepsAre
<1>16. CASE WriteError(w)
  <2>1. pc[w] = "error" /\ pc'[w] = "errorWrite" /\ k'[w] = j
    BY <1>16 DEF WriteError, Goto, Inv, TypeOK, j
  <2>. QED BY <1>1, <1>3, <2>1, StepsAre
<1>17. CASE ErrorWritten(w)
  <2>1. pc[w] = "errorWrite" /\ pc'[w] = "pick" /\ k'[w] = j + 1
    BY <1>17 DEF ErrorWritten, Goto, Inv, TypeOK, j
  <2>2. j + 1 \in Nat \ {0}
    BY <1>1
  <2>. QED BY <1>1, <1>3, <2>1, <2>2, StepsAre
<1>18. \/ pc'[w] = "idle" \/ pc'[w] = "abandon"
       \/ MkdirAll(w) \/ CreateTemp(w) \/ Encode(w) \/ Rename(w)
       \/ OpenFacts(w) \/ WriteFact(w) \/ FactWritten(w)
       \/ PickError(w) \/ OpenErrors(w) \/ WriteError(w) \/ ErrorWritten(w)
  BY DEF Inv, TypeOK, WriterStep, Begin, Return, Fail, RemoveTemp, RemoveTempFails, Crash, Goto
<1>. QED BY <1>5, <1>6, <1>7, <1>8, <1>9, <1>10, <1>11, <1>12, <1>13, <1>14, <1>15, <1>16, <1>17, <1>18

\* Whoever else is at work, and whatever fails: each call of SaveSnapshot that
\* takes its steps comes to its end, after a number of them known beforehand.
THEOREM EverySaveRunsDown == Spec => SavesRunDown
<1>. DEFINE RunsDown(w) == pc[w] # "idle" =>
              /\ Effort(w) \in Nat \ {0} /\ Effort(w)' <= Effort(w)
              /\ WriterStep(w) => Effort(w)' < Effort(w)
            Positive == \A w \in Writers : pc[w] # "idle" => Effort(w) \in Nat \ {0}
<1>1. Init => PickInv
  BY DEF Init, PickInv
<1>2. Inv /\ Inv' /\ PickInv /\ [Next]_vars => PickInv'
  <2>1. PickInv /\ UNCHANGED vars => PickInv'
    BY DEF vars, PickInv, MyFacts
  <2>. QED BY <2>1, PickStep DEF Next
<1>3. Inv /\ PickInv => Positive
  BY BoundIsPositive DEF Inv
<1>4. Inv' /\ PickInv' => Positive'
  BY <1>3, PTL
<1>5. Inv /\ Inv' /\ PickInv /\ [Next]_vars => [\A w \in Writers : RunsDown(w)]_vars
  <2>. SUFFICES ASSUME Inv, Inv', PickInv, Next, NEW w \in Writers, pc[w] # "idle"
                PROVE  /\ Effort(w) \in Nat \ {0} /\ Effort(w)' <= Effort(w)
                       /\ WriterStep(w) => Effort(w)' < Effort(w)
    OBVIOUS
  <2>1. Effort(w) \in Nat \ {0}
    BY <1>3
  <2>2. WriterStep(w) => Effort(w)' < Effort(w)
    BY SaveRunsDown
  <2>3. WriterStep(w) => Effort(w)' \in Nat
    <3>1. ASSUME WriterStep(w), pc'[w] = "idle" PROVE Effort(w)' \in Nat
      BY <3>1, BoundAfter DEF Inv
    <3>2. pc'[w] # "idle" => Effort(w)' \in Nat
      BY <1>2, <1>4
    <3>. QED BY <3>1, <3>2
  <2>4. CASE ~WriterStep(w)
    <3>1. PICK v \in Writers : WriterStep(v) /\ v # w
      BY <2>4 DEF Next
    <3>2. pc'[w] = pc[w] /\ snap'[w] = snap[w] /\ k'[w] = k[w]
      BY <3>1, OthersStay DEF Inv
    <3>3. Effort(w)' = Effort(w)
      BY <3>2 DEF Effort, MyFacts
    <3>. QED BY <2>1, <2>4, <3>3
  <2>. QED BY <2>1, <2>2, <2>3, <2>4
<1>. QED BY <1>1, <1>2, <1>5, StoreInvariant, PTL DEF Spec, SavesRunDown
-----------------------------------------------------------------------------
(* The store is a ledger.                                                  *)

\* A step that neither publishes, acknowledges nor ends a write is nothing to
\* the ledger.
LEMMA Stutters ==
  ASSUME TypeOK, PendingInv, NEW w \in Writers, WriterStep(w),
         ~Rename(w), ~FactWritten(w), ~ErrorWritten(w), ~Return(w)
  PROVE  UNCHANGED Ledger!ledgerVars
<1>1. latest' = latest /\ published' = published /\ acked' = acked
  BY DEF WriterStep, Begin, MkdirAll, CreateTemp, Encode, OpenFacts, WriteFact, PickError,
         OpenErrors, WriteError, Fail, RemoveTemp, RemoveTempFails, Crash
<1>2. \A s : Logged(facts', s) = Logged(facts, s)
  BY FactsOnRecord, Zenon
<1>3. \A s : Logged(errors', s) = Logged(errors, s)
  BY ErrorsOnRecord, Zenon
<1>4. [s \in Snapshots |-> Logged(facts, s)]' = [s \in Snapshots |-> Logged(facts, s)]
  BY <1>2, Zenon
<1>5. [s \in Snapshots |-> Logged(errors, s)]' = [s \in Snapshots |-> Logged(errors, s)]
  BY <1>3, Zenon
<1>. QED BY <1>1, <1>4, <1>5 DEF Ledger!ledgerVars

\* Adding to the books of one snapshot leaves the others'.
LEMMA OneBook ==
  ASSUME NEW new, NEW log, NEW log1, NEW s \in Snapshots,
         Logged(log1, s) = new,
         \A t : t # s => Logged(log1, t) = Logged(log, t)
  PROVE  [t \in Snapshots |-> Logged(log1, t)] =
         [[t \in Snapshots |-> Logged(log, t)] EXCEPT ![s] = new]
<1>1. ASSUME NEW t \in Snapshots
      PROVE  Logged(log1, t) = [[u \in Snapshots |-> Logged(log, u)] EXCEPT ![s] = new][t]
  BY Zenon
<1>. QED BY <1>1

\* Every step is one of the ledger, or nothing to it.
LEMMA StepIsLedgers ==
  ASSUME Inv, NEW w \in Writers, WriterStep(w)
  PROVE  Ledger!LedgerNext \/ UNCHANGED Ledger!ledgerVars
<1>. USE DEF Inv
<1>. DEFINE s == snap[w]
            logged == [t \in Snapshots |-> Logged(facts, t)]
            errored == [t \in Snapshots |-> Logged(errors, t)]
<1>0. pc[w] # "idle" => /\ s \in Snapshots /\ s \notin acked /\ Saved(w) /\ k[w] \in Nat \ {0}
                        /\ logged[s] = Logged(facts, s) /\ errored[s] = Logged(errors, s)
                        /\ MyFacts(w) = FactsOf[s] /\ DOMAIN FactsOf[s] = 1..Len(FactsOf[s])
  BY AtWork DEF WriterInv, Alone
<1>1. CASE Rename(w)
  <2>1. /\ s \in Snapshots /\ s \notin published /\ latest'.snap = s
        /\ published' = published \cup {s} /\ acked' = acked
        /\ facts' = facts /\ errors' = errors
    BY <1>0, <1>1 DEF Rename, Goto, Saved, Early
  <2>2. Ledger!Publish(s)
    BY <2>1 DEF Ledger!Publish
  <2>. QED BY <2>1, <2>2 DEF Ledger!LedgerNext
<1>2. CASE FactWritten(w)
  <2>1. pc[w] = "factWrite" /\ latest' = latest /\ published' = published /\ acked' = acked
        /\ errors' = errors
    BY <1>2 DEF FactWritten, Goto
  <2>2. /\ s \in Snapshots /\ s \in published \ acked /\ k[w] \in DOMAIN FactsOf[s]
        /\ logged[s] = 1..(k[w] - 1) /\ k[w] \in Nat \ {0}
    BY <1>0, <2>1 DEF Saved, Logging
  <2>3. Logged(facts', s) = 1..k[w]
    <3>1. Logged(facts', s) = (1..(k[w] - 1)) \cup {k[w]}
      BY <1>0, <1>2, <2>1, <2>2, FactsOnRecord
    <3>. QED BY <2>2, <3>1
  <2>4. logged' = [logged EXCEPT ![s] = 1..k[w]]
    <3>1. \A t : t # s => Logged(facts', t) = Logged(facts, t)
      BY <1>2, FactsOnRecord, Zenon
    <3>. QED BY <2>2, <2>3, <3>1, OneBook, Zenon
  <2>5. Ledger!Log(s, k[w])
    BY <2>1, <2>2, <2>4 DEF Ledger!Log
  <2>. QED BY <2>2, <2>5 DEF Ledger!LedgerNext
<1>3. CASE ErrorWritten(w)
  <2>1. pc[w] = "errorWrite" /\ latest' = latest /\ published' = published /\ acked' = acked
        /\ facts' = facts
    BY <1>3 DEF ErrorWritten, Goto
  <2>2. /\ s \in Snapshots /\ s \in published \ acked /\ k[w] \in Severe(s)
        /\ logged[s] = DOMAIN FactsOf[s] /\ k[w] \in Nat \ {0}
        /\ errored[s] = {j \in Severe(s) : j < k[w]}
    BY <1>0, <2>1 DEF Saved, Erring
  <2>3. Severe(s) = Ledger!SevereOf(s)
    BY DEF Severe, Ledger!SevereOf
  <2>4. errored[s] = Ledger!SevereOf(s) \cap (1..(k[w] - 1))
    <3>1. \A j \in Severe(s) : j \in Nat \ {0}
      BY <1>0, <2>1 DEF Severe
    <3>2. \A j \in Severe(s) : j < k[w] <=> j \in 1..(k[w] - 1)
      BY <2>2, <3>1
    <3>. QED BY <2>2, <2>3, <3>2
  <2>5. Logged(errors', s) = errored[s] \cup {k[w]}
    BY <1>0, <1>3, <2>1, ErrorsOnRecord
  <2>6. errored' = [errored EXCEPT ![s] = errored[s] \cup {k[w]}]
    <3>1. \A t : t # s => Logged(errors', t) = Logged(errors, t)
      BY <1>3, ErrorsOnRecord, Zenon
    <3>. QED BY <2>2, <2>5, <3>1, OneBook, Zenon
  <2>7. Ledger!LogError(s, k[w])
    BY <2>1, <2>2, <2>3, <2>4, <2>6 DEF Ledger!LogError
  <2>8. k[w] \in DOMAIN FactsOf[s]
    BY <2>2 DEF Severe
  <2>. QED BY <2>2, <2>7, <2>8 DEF Ledger!LedgerNext
<1>4. CASE Return(w)
  <2>1. /\ pc[w] = "pick" /\ acked' = acked \cup {s} /\ latest' = latest
        /\ published' = published /\ facts' = facts /\ errors' = errors
        /\ \A j \in k[w]..Len(MyFacts(w)) : ~MyFacts(w)[j].severe
    BY <1>4 DEF Return, Goto
  <2>2. /\ s \in Snapshots /\ s \in published \ acked /\ logged[s] = DOMAIN FactsOf[s]
        /\ errored[s] = {j \in Severe(s) : j < k[w]}
    BY <1>0, <2>1 DEF Saved, Erring
  <2>3. \A j \in Severe(s) : j < k[w]
    BY <1>0, <2>1 DEF Severe
  <2>4. errored[s] = Ledger!SevereOf(s)
    BY <2>2, <2>3 DEF Severe, Ledger!SevereOf
  <2>5. Ledger!Acknowledge(s)
    BY <2>1, <2>2, <2>4 DEF Ledger!Acknowledge
  <2>. QED BY <2>2, <2>5 DEF Ledger!LedgerNext
<1>. QED BY <1>1, <1>2, <1>3, <1>4, Stutters

\* However writers interleave, fail and crash: a snapshot becomes the latest one
\* in a single step, its facts are logged in order, its errors only after all of
\* them, and the call returns nil only after all of those.
THEOREM StoreImplementsLedger == Spec => ImplementsLedger
<1>1. Init => Ledger!LedgerInit
  BY DEF Init, NoFile, Logged, Ledger!LedgerInit
<1>2. Inv /\ [Next]_vars => [Ledger!LedgerNext]_(Ledger!ledgerVars)
  <2>1. UNCHANGED vars => UNCHANGED Ledger!ledgerVars
    BY DEF vars, Ledger!ledgerVars, Logged
  <2>. QED BY <2>1, StepIsLedgers DEF Next
<1>. QED BY <1>1, <1>2, StoreInvariant, PTL DEF Spec, ImplementsLedger, Ledger!LedgerSpec

=============================================================================
