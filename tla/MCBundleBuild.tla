---------------------------- MODULE MCBundleBuild ----------------------------
(***************************************************************************)
(* Two invariants files of a monorepo with the same base name, a failure   *)
(* modes file and an optional decisions file; two edits or deletions among *)
(* them and two builds into the same directory, so that a rebuild meets    *)
(* what a complete, a failed or a killed build left.                       *)
(***************************************************************************)
EXTENDS BundleBuild

MCCore     == <<"backend/invariants", "web/invariants", "failure_modes">>
MCOptional == <<"decisions">>

MCBaseOf ==
  [s \in {"backend/invariants", "web/invariants", "failure_modes", "decisions"} |->
     CASE s \in {"backend/invariants", "web/invariants"} -> "invariants.yaml"
       [] s = "failure_modes"                            -> "failure_modes.yaml"
       [] s = "decisions"                                -> "decisions.yaml"]

=============================================================================
