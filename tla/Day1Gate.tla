------------------------------ MODULE Day1Gate ------------------------------
(***************************************************************************)
(* What a Day-1 verdict promises, without saying how evidence is gathered, *)
(* what evidence is or how it is judged.                                   *)
(*                                                                         *)
(* A collection opens at some moment, the node goes on changing, and later *)
(* a verdict is published together with the evidence it was judged from.   *)
(* That evidence was offered by the node SINCE THE COLLECTION OPENED.      *)
(***************************************************************************)
CONSTANTS
  NodeStates,       \* the states of a node
  WindowAt(_),      \* what a node offers at the moment a collection opens
  Widen(_, _),      \* what has been offered once the node has changed again
  Witnessed(_, _),  \* every part of a piece of evidence was offered
  Judge(_),         \* the verdict a piece of evidence deserves
  NoEvidence, NoVerdict

VARIABLES
  node,      \* the state of the node now
  window,    \* what the node has offered since the collection opened
  open,      \* a collection is under way
  evidence,  \* the evidence behind the published verdict
  verdict    \* the published verdict

gateVars == <<node, window, open, evidence, verdict>>

GateInit ==
  /\ node \in NodeStates
  /\ window = WindowAt(node)
  /\ open = FALSE
  /\ evidence = NoEvidence
  /\ verdict = NoVerdict

GateNodeChanges ==
  /\ node' \in NodeStates
  /\ window' = Widen(window, node')
  /\ UNCHANGED <<open, evidence, verdict>>

GateOpen ==
  /\ ~open
  /\ open' = TRUE
  /\ window' = WindowAt(node)
  /\ evidence' = NoEvidence
  /\ verdict' = NoVerdict
  /\ UNCHANGED node

GatePublish ==
  /\ open
  /\ open' = FALSE
  /\ Witnessed(evidence', window)
  /\ verdict' = Judge(evidence')
  /\ UNCHANGED <<node, window>>

GateNext == GateNodeChanges \/ GateOpen \/ GatePublish

GateSpec == GateInit /\ [][GateNext]_gateVars
=============================================================================
