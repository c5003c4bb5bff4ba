--------------------------- MODULE MCBenchmarkRun ---------------------------
(* TLC instance of BenchmarkRun. *)
EXTENDS BenchmarkRun

Outcome(backend, unavailable, parse, c) ==
    [errored |-> FALSE, execution_backend |-> backend,
     execution_unavailable |-> unavailable, parse_status |-> parse,
     estimated_cost |-> c]

\* Each way a case can affect the status and the eligibility of its run.
StatusOutcomes ==
    {FailedCase, Outcome("docker", FALSE, "exact", 1), Outcome("docker", FALSE, "salvaged", 0),
     Outcome("trusted-local", FALSE, "exact", 1), Outcome("none", TRUE, "exact", 1),
     Outcome("none", FALSE, "invalid", 0)}

=============================================================================
