------------------------- MODULE MCKnowledgeReports -------------------------
(* Instance of KnowledgeReports: six files with seven entries.  The profile   *)
(* has two files of invariants with one ID in common, so that a reference may *)
(* be satisfied by either, and lists the first both directly and by its       *)
(* directory.                                                                 *)
EXTENDS KnowledgeReports, TLC

RWords     == {"etcd", "fix"}
RFiles     == <<"inv", "inv", "inv2", "fm", "ip", "dec", "ar">>
RKindOf    == "inv" :> "invariant" @@ "inv2" :> "invariant" @@ "fm" :> "failure_mode"
              @@ "ip" :> "incident_pattern" @@ "dec" :> "decision" @@ "ar" :> "authority_rule"
RRoot      == {"inv", "fm", "dec", "ar"}
RProfiled  == {"inv", "inv2", "fm", "ip"}
RDirect    == {"inv"}
RHomeOf    == <<"inv", "inv2", "fm", "ip", "dec", "ar", "fm">>
RBlob      == [e \in 1..7 |-> {"etcd"}]
RTrigger   == [e \in 1..7 |-> IF e \in {5, 6} THEN {"etcd"} ELSE {}]
RSettles   == [c \in Concerns |-> {}]
RConcerns  == [p \in {} |-> {}]
RNames     == [p \in {} |-> {}]

\* The decision protects the common invariant and guards against a failure mode
\* with an empty ID; the incident pattern refers to a failure mode nobody wrote,
\* the authority rule to an assumption nobody wrote.
RIds       == {"lease", "loss", "crash", "why", "who", "wish"}
RIdOf      == <<"lease", "lease", "loss", "crash", "why", "who", "">>
RRefsOf    == <<{}, {}, {},
                {[kind |-> "failure_mode", id |-> "wish"], [kind |-> "invariant", id |-> "lease"]},
                {[kind |-> "invariant", id |-> "lease"], [kind |-> "failure_mode", id |-> ""]},
                {[kind |-> "forbidden_assumption", id |-> "wish"],
                 [kind |-> "invariant", id |-> "lease"]},
                {}>>
=============================================================================
