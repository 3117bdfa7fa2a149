------------------------------- MODULE MCJobs -------------------------------
(* Small instances of Jobs.                                                 *)
EXTENDS Jobs, TLC
CONSTANTS j1, j2

\* Two lists for one panel, the bulk panel or the find panel.
OnePanel == {[j \in {j1, j2} |-> k] : k \in Kinds}
=============================================================================
