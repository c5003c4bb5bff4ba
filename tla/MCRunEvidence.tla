--------------------------- MODULE MCRunEvidence ---------------------------
(* TLC instances of RunEvidence. *)
EXTENDS RunEvidence

CONSTANTS c1, c2, c3

\* One column for each table and version: runs and case_results before
\* versioning, runs in version 2.
OneColumnEach == <<{c1}, {c2}, {c3}>>

=============================================================================
