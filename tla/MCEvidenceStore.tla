--------------------------- MODULE MCEvidenceStore ---------------------------
(***************************************************************************)
(* Instances of EvidenceStore for TLC.                                     *)
(***************************************************************************)
EXTENDS EvidenceStore, TLC

CONSTANTS s1, s2, s3

MCSnapshots == {s1, s2, s3}

F(severe, time) == [severe |-> severe, time |-> time]

\* A snapshot with a severe fact before and after a mild one, one with a single
\* severe fact, and one of a node with nothing to report.
MCFactsOf == s1 :> <<F(TRUE, 1), F(FALSE, 1), F(TRUE, 1)>> @@ s2 :> <<F(TRUE, 2)>> @@ s3 :> <<>>
=============================================================================
