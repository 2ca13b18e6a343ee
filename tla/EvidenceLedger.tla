--------------------------- MODULE EvidenceLedger ---------------------------
(***************************************************************************)
(* What saving evidence promises, without files, crashes or errors.        *)
(*                                                                         *)
(* A snapshot is published as the latest one in a single step.  After that *)
(* its facts are logged in their order; only when all of them are logged   *)
(* are the severe ones entered as errors, in their order too, and only     *)
(* then may the save be acknowledged.  A save may stop anywhere.           *)
(***************************************************************************)
EXTENDS Naturals, Sequences

CONSTANTS
  Snapshots,   \* the snapshots there are to save
  FactsOf,     \* snapshot -> its facts, each with a flag "severe"
  NoSnapshot   \* nothing was saved yet

VARIABLES
  latest,     \* the snapshot a reader gets
  published,  \* the snapshots that were the latest one at some time
  logged,     \* snapshot -> the positions of its facts that are logged
  errored,    \* snapshot -> the positions of its facts entered as errors
  acked       \* the snapshots whose save was acknowledged

ledgerVars == <<latest, published, logged, errored, acked>>

SevereOf(s) == {k \in DOMAIN FactsOf[s] : FactsOf[s][k].severe}

LedgerInit ==
  /\ latest = NoSnapshot
  /\ published = {}
  /\ logged = [s \in Snapshots |-> {}]
  /\ errored = [s \in Snapshots |-> {}]
  /\ acked = {}

Publish(s) ==
  /\ s \notin published
  /\ latest' = s
  /\ published' = published \cup {s}
  /\ UNCHANGED <<logged, errored, acked>>

Log(s, k) ==
  /\ s \in published \ acked
  /\ logged[s] = 1..(k - 1)
  /\ logged' = [logged EXCEPT ![s] = 1..k]
  /\ UNCHANGED <<latest, published, errored, acked>>

LogError(s, k) ==
  /\ s \in published \ acked
  /\ logged[s] = DOMAIN FactsOf[s]
  /\ k \in SevereOf(s)
  /\ errored[s] = SevereOf(s) \cap (1..(k - 1))
  /\ errored' = [errored EXCEPT ![s] = @ \cup {k}]
  /\ UNCHANGED <<latest, published, logged, acked>>

Acknowledge(s) ==
  /\ s \in published \ acked
  /\ logged[s] = DOMAIN FactsOf[s]
  /\ errored[s] = SevereOf(s)
  /\ acked' = acked \cup {s}
  /\ UNCHANGED <<latest, published, logged, errored>>

LedgerNext ==
  \E s \in Snapshots :
    \/ Publish(s) \/ Acknowledge(s)
    \/ \E k \in DOMAIN FactsOf[s] : Log(s, k) \/ LogError(s, k)

LedgerSpec == LedgerInit /\ [][LedgerNext]_ledgerVars
=============================================================================
