---------------------------- MODULE MCPreflight ----------------------------
(* Instance of Preflight: five knowledge files of one entry each, a source   *)
(* file that may stand in a new directory and one that may be the old name   *)
(* of a rename, a task all entries may match and a search that keeps two     *)
(* results.                                                                  *)
EXTENDS Preflight, TLC

MCWords    == {"etcd", "lock_lease", "workflow", "fix", "ui/status.tsx", "ui/", "old.go"}
MCDropped  == {"fix"}
MCSpecific == {"lock_lease", "ui/status.tsx", "ui/", "old.go"}
MCPaths    == {"ui/status.tsx", "old.go"}
MCDiffName == [p \in MCPaths |-> p]
MCStatusNames == [p \in MCPaths |-> IF p = "old.go" THEN {p} ELSE {p, "ui/"}]
MCTasks    == {{"etcd", "lock_lease", "workflow", "fix"}}

\* The profile lists fm only by its directory, which the frontend tool cannot
\* read; fa and rt are extended.
MCFiles    == <<"inv", "fm", "ff", "fa", "rt">>
MCKindOf   == "inv" :> "invariant" @@ "fm" :> "failure_mode"
              @@ "ff" :> "forbidden_fix" @@ "fa" :> "forbidden_assumption"
              @@ "rt" :> "required_test"
MCRoot     == {"inv", "fm", "ff", "fa", "rt"}
MCProfiled == {"inv", "fm", "ff"}
MCDirect   == {"inv", "ff"}

\* The failure mode scores best, then the fix, the invariant (which overtakes
\* it when the status page changed) and the assumption.
MCHomeOf   == <<"fm", "inv", "ff", "fa", "rt">>
MCBlob     == <<{"lock_lease", "etcd"}, {"etcd", "ui/status.tsx"}, {"etcd", "workflow"},
                {"etcd"}, {"workflow"}>>
MCTrigger  == <<{}, {}, {}, {"etcd"}, {"ui/status.tsx", "ui/"}>>
MCBlockers == {3}
MCConcernsOf == [p \in MCPaths |-> IF p = "old.go" THEN {} ELSE {"source", "status"}]
MCSettles  == [c \in Concerns |-> IF c \in {"source", "status"} THEN {2} ELSE {}]
=============================================================================
