--------------------------- MODULE MCTrustEnvelope --------------------------
(***************************************************************************)
(* TrustEnvelope over two match kinds, one that uses the coverage tuple    *)
(* and one that does not, and reports of up to two of five alarms: every   *)
(* identifier the loop knows and one it does not, and an age alarm of      *)
(* each severity.                                                          *)
(***************************************************************************)
EXTENDS TrustEnvelope

MCKinds == {"failure_mode", "invariant"}

MCAlarms ==
  {[id |-> "bundle_age_exceeded",          critical |-> TRUE],
   [id |-> "bundle_age_exceeded",          critical |-> FALSE],
   [id |-> "yaml_newer_than_graph",        critical |-> FALSE],
   [id |-> "unknown_role_knowledge_files", critical |-> FALSE],
   [id |-> "other",                        critical |-> TRUE]}

=============================================================================
