---------------------------- MODULE BenchmarkRun ----------------------------
(***************************************************************************)
(* One benchmark run: run_benchmark and _run_on_snapshot in                *)
(* arena/benchmark/benchmark_runner.py, from the sealed snapshot to the    *)
(* published evidence, with the leaderboard policy that judges it           *)
(* (arena/reports/leaderboard.py).                                         *)
(*                                                                         *)
(* The clock is monotonic() in ticks, Second of them to a second, and only *)
(* the stages that run commands, ask a reviewer or call git move it.  A    *)
(* case is a sequence of stages; what it evaluates to (see CaseEvaluation) *)
(* is one of Outcomes, the projection of CaseResult the run reads.         *)
(***************************************************************************)
EXTENDS Integers, Sequences

CONSTANTS
    NumCases,    \* cases of the pack
    DockerCases, \* the cases that name a docker_image
    WallBudgets, \* the values of max_wall_seconds to try, NoLimit for None
    CostBudgets, \* the values of max_cost to try, NoLimit for None
    NoLimit,
    Second,      \* ticks of the clock in a second
    Timeout,     \* execution.timeout_seconds of the cases
    Commands,    \* argv commands of a case's test_command
    Grace,       \* _GROUP_GRACE_SECONDS, after each signal of the supervisor
    RmTimeout,   \* timeout of `docker rm -f`
    MaxProbe,    \* bound on a docker query; the code sets none
    MaxSkew,     \* how far datetime.now() may be set away from monotonic()
    MaxReview,   \* bound on reviewer.review; no run budget is passed to it
    MaxPatch,    \* bound on patch_applier.apply (git has timeouts of its own)
    Outcomes     \* the case outcomes a reviewer and a backend may produce

ASSUME RunAssumption ==
    /\ NumCases \in Nat \ {0}
    /\ WallBudgets \subseteq Nat \cup {NoLimit}
    /\ CostBudgets \subseteq Nat \cup {NoLimit}
    /\ NoLimit \notin Nat
    /\ DockerCases \subseteq 1..NumCases
    /\ Second \in Nat \ {0} /\ Commands \in Nat \ {0}
    /\ Timeout \in Nat /\ Timeout >= Second
    /\ Grace \in Nat /\ RmTimeout \in Nat /\ RmTimeout >= Grace
    /\ MaxProbe \in Nat /\ MaxSkew \in Nat
    /\ MaxReview \in Nat /\ MaxPatch \in Nat

VARIABLES
    settings,  \* the arguments of run_benchmark and the pack's own digest
    pc,        \* the next step of _run_on_snapshot
    now,       \* ticks of monotonic() since `started`
    next,      \* index of the case the loop is at
    results,   \* case_results
    skipped,   \* skipped_case_ids
    stopped,   \* budget_stopped_reason
    cost,      \* running_cost
    intact,    \* the sealed snapshot still has the sealed content
    run,       \* the RunResult, once aggregated
    published  \* what exists outside the process, in the order it appeared

vars == <<settings, pc, now, next, results, skipped, stopped, cost, intact,
          run, published>>

\* mode "patch" is "full" here.  pinned: pack.sha256 is absent, matches the
\* content or not; expected: the digest given out of band, likewise.
Settings ==
    [mode : {"review", "full"}, allow_local : BOOLEAN, trusted : BOOLEAN,
     persist : BOOLEAN, valid : BOOLEAN,
     max_wall_seconds : WallBudgets, max_cost : CostBudgets,
     pinned : {"absent", "match", "mismatch"},
     expected : {"absent", "match", "mismatch"}]

MaxWall == settings.max_wall_seconds
MaxCost == settings.max_cost

\* allow_local_execution is dropped when an allowlist does not name the pack.
EffectiveAllowLocal == settings.allow_local /\ settings.trusted

\* What a CaseResult contributes to the run.
CaseOutcomes ==
    [errored : BOOLEAN, execution_backend : {"none", "docker", "trusted-local"},
     execution_unavailable : BOOLEAN, parse_status : {"exact", "salvaged", "invalid"},
     estimated_cost : Nat]

FailedCase == [errored |-> TRUE, execution_backend |-> "none",
               execution_unavailable |-> FALSE, parse_status |-> "invalid",
               estimated_cost |-> 0]

ASSUME OutcomesAssumption == Outcomes \subseteq CaseOutcomes

\* The outcomes CaseEvaluation can reach under these settings: review mode
\* executes nothing, a backend that was missing did not run, and the host runs
\* only with the opt-in.
Possible(o) ==
    /\ o.errored => o = FailedCase
    /\ settings.mode = "review" =>
         o.execution_backend = "none" /\ ~o.execution_unavailable
    /\ o.execution_unavailable => o.execution_backend = "none"
    /\ o.execution_backend = "trusted-local" => EffectiveAllowLocal

NoRun == [run_status |-> "none"]

Init ==
    /\ settings \in Settings
    /\ pc = "validate"
    /\ now = 0
    /\ next = 1
    /\ results = <<>>
    /\ skipped = <<>>
    /\ stopped = "none"
    /\ cost = 0
    /\ intact = TRUE
    /\ run = NoRun
    /\ published = <<>>

-----------------------------------------------------------------------------
(* Before the loop. *)

\* snapshot.load_and_validate, then the expected digest: either aborts the run.
Validate ==
    /\ pc = "validate"
    /\ pc' = IF settings.valid /\ settings.expected # "mismatch" THEN "reserve" ELSE "aborted"
    /\ UNCHANGED <<settings, now, next, results, skipped, stopped, cost, intact, run, published>>

\* _reserve_run_dir
Reserve ==
    /\ pc = "reserve"
    /\ published' = Append(published, "run_dir")
    /\ pc' = "loop"
    /\ UNCHANGED <<settings, now, next, results, skipped, stopped, cost, intact, run>>

-----------------------------------------------------------------------------
(* The loop over the cases. *)

\* What datetime.now() - started may come to: the system's clock can be set
\* while the run is on its way.
Elapsed == (now - MaxSkew)..(now + MaxSkew)

CostExceeded == MaxCost # NoLimit /\ cost >= MaxCost

\* The budgets are looked at between cases only, and once one trips the rest
\* of the cases are skipped.
StopReason(elapsed) ==
    IF stopped # "none" THEN stopped
    ELSE IF MaxWall # NoLimit /\ elapsed >= MaxWall THEN "max_wall_seconds"
    ELSE IF CostExceeded THEN "max_cost"
    ELSE "none"

\* Mutant of SkipCase: a tripped budget breaks out of the loop.
BreakAtBudget ==
    /\ pc = "loop"
    /\ next <= NumCases
    /\ \E elapsed \in Elapsed :
          StopReason(elapsed) # "none" /\ stopped' = StopReason(elapsed)
    /\ next' = NumCases + 1
    /\ UNCHANGED <<settings, pc, now, results, skipped, cost, intact, run, published>>

\* Mutant of SkipCase: the loop does not move on from a skipped case.
SkipInPlace ==
    /\ pc = "loop"
    /\ next <= NumCases
    /\ \E elapsed \in Elapsed :
          StopReason(elapsed) # "none" /\ stopped' = StopReason(elapsed)
    /\ UNCHANGED <<settings, pc, now, next, results, skipped, cost, intact, run, published>>

SkipCase ==
    /\ pc = "loop"
    /\ next <= NumCases
    /\ \E elapsed \in Elapsed :
          StopReason(elapsed) # "none" /\ stopped' = StopReason(elapsed)
    /\ skipped' = Append(skipped, next)
    /\ next' = next + 1
    /\ UNCHANGED <<settings, pc, now, results, cost, intact, run, published>>

\* Mutant of StartCase: the budgets are not consulted.
StartAnyCase ==
    /\ pc = "loop"
    /\ next <= NumCases
    /\ pc' = IF EffectiveAllowLocal THEN "pretest" ELSE "review"
    /\ UNCHANGED <<settings, now, next, results, skipped, stopped, cost, intact, run, published>>

StartCase ==
    /\ pc = "loop"
    /\ next <= NumCases
    /\ \E elapsed \in Elapsed : StopReason(elapsed) = "none"
    /\ pc' = IF EffectiveAllowLocal THEN "pretest" ELSE "review"
    /\ UNCHANGED <<settings, now, next, results, skipped, stopped, cost, intact, run, published>>

\* _effective_timeout: the whole seconds left, but at least one.
EffectiveTimeout ==
    LET left == MaxWall - now
    IN  IF MaxWall = NoLimit THEN Timeout
        ELSE IF left < Second THEN Second
        ELSE IF left < Timeout THEN left - (left % Second) ELSE Timeout

\* What the commands of a case may take beyond their timeouts.  A command that
\* passes has cost the supervisor up to two waits (for its exit after it closed
\* its pipes, and after SIGTERM); one that does not is the last, and costs
\* three, or, timed out in Docker, two and `docker rm`.  Docker is also asked
\* for its version, for the image and for the image's digest.
CleanUp(docker) ==
    (Commands - 1) * (2 * Grace) + 2 * Grace
        + (IF docker THEN RmTimeout + 3 * MaxProbe ELSE Grace)

\* The longest a stage can take.  execute() gives each of its commands the
\* timeout computed for the request.
Longest ==
    CASE pc \in {"pretest", "tests"} ->
            Commands * EffectiveTimeout + CleanUp(next \in DockerCases)
      [] pc = "static" -> EffectiveTimeout + 3 * Grace
      [] pc = "review" -> MaxReview
      [] pc = "patch" -> MaxPatch
      [] OTHER -> 0

\* The time a stage takes.  Without a wall budget nothing depends on the clock
\* and it stands still.
Elapse == \E d \in 0..(IF MaxWall = NoLimit THEN 0 ELSE Longest) : now' = now + d

Stage(from, to) ==
    /\ pc = from
    /\ Elapse
    /\ pc' = to
    /\ UNCHANGED <<settings, next, results, skipped, stopped, cost, intact, run, published>>

PreTest == Stage("pretest", "static")
StaticAnalysis == Stage("static", "review")
Review == Stage("review", IF settings.mode = "review" THEN "record" ELSE "patch")
ApplyPatch == Stage("patch", "tests")
Tests == Stage("tests", "record")

\* The result of the case, from _evaluate_case or from _failed_case_result.
RecordResult ==
    /\ pc = "record"
    /\ \E o \in Outcomes :
        /\ Possible(o)
        /\ results' = Append(results, [case |-> next, outcome |-> o])
        /\ cost' = cost + o.estimated_cost
    /\ next' = next + 1
    /\ pc' = "loop"
    /\ UNCHANGED <<settings, now, skipped, stopped, intact, run, published>>

\* An exception in any stage, at any moment of it, ends the case with the
\* failed result.
CaseRaises ==
    /\ pc \in {"pretest", "static", "review", "patch", "tests", "record"}
    /\ Elapse
    /\ results' = Append(results, [case |-> next, outcome |-> FailedCase])
    /\ next' = next + 1
    /\ pc' = "loop"
    /\ UNCHANGED <<settings, skipped, stopped, cost, intact, run, published>>

-----------------------------------------------------------------------------
(* Aggregation and the leaderboard's policy. *)

Some(Test(_)) == \E i \in 1..Len(results) : Test(results[i].outcome)

IsLocal(o) == o.execution_backend = "trusted-local"
IsDocker(o) == o.execution_backend = "docker"
IsUnavailable(o) == o.execution_unavailable
IsSalvaged(o) == o.parse_status = "salvaged"

\* Mutant of RunBackend: the strongest backend names the run.
StrongestBackend ==
    IF Some(IsDocker) THEN "docker"
    ELSE IF Some(IsLocal) THEN "trusted-local" ELSE "none"

\* The run's backend is its weakest link.
RunBackend ==
    IF Some(IsLocal) THEN "trusted-local"
    ELSE IF Some(IsDocker) THEN "docker" ELSE "none"

\* _run_status
RunStatus ==
    IF settings.pinned = "mismatch" THEN "invalid"
    ELSE IF skipped # <<>> /\ results = <<>> THEN "partial"
    ELSE IF results = <<>> THEN "failed"
    ELSE IF settings.mode # "review" /\ Some(IsUnavailable)
              /\ ~(Some(IsDocker) \/ Some(IsLocal)) THEN "invalid"
    ELSE IF skipped # <<>> \/ (settings.mode # "review" /\ Some(IsUnavailable)) THEN "partial"
    ELSE "complete"

\* The RunResult, built when the loop is through.  coverage_rate is produced
\* over eligible; a run with errored cases keeps its full coverage.
Aggregate ==
    /\ pc = "loop"
    /\ next > NumCases
    /\ run' = [run_status |-> RunStatus,
               execution_backend |-> RunBackend,
               full_coverage |-> results # <<>> /\ skipped = <<>>,
               pack_digest_externally_verified |-> settings.expected # "absent",
               non_exact_output_used |-> Some(IsSalvaged)]
    /\ pc' = "verify"
    /\ UNCHANGED <<settings, now, next, results, skipped, stopped, cost, intact, published>>

\* eligibility_from_fields without include_unverified, for a current-schema run.
Eligible(r) ==
    /\ r.run_status = "complete"
    /\ r.execution_backend = "docker"
    /\ r.full_coverage
    /\ r.pack_digest_externally_verified
    /\ ~r.non_exact_output_used

-----------------------------------------------------------------------------
(* Publication. *)

\* Mutant of Verify: publication goes ahead whatever the snapshot holds.
SkipVerify ==
    /\ pc = "verify"
    /\ pc' = "publish"
    /\ UNCHANGED <<settings, now, next, results, skipped, stopped, cost, intact, run, published>>

\* snapshot.verify() before any report is written.
Verify ==
    /\ pc = "verify"
    /\ pc' = IF intact THEN "publish" ELSE "aborted"
    /\ UNCHANGED <<settings, now, next, results, skipped, stopped, cost, intact, run, published>>

\* What a run leaves behind, in the order of the code: reports, run manifest,
\* the bundle's checksums over them, latest.json, and the database row.
Artifacts ==
    <<"run_dir", "run.json", "report.md", "report.html", "run_manifest",
      "bundle", "latest.json">>
        \o (IF settings.persist THEN <<"database">> ELSE <<>>)

Publish ==
    /\ pc = "publish"
    /\ Len(published) < Len(Artifacts)
    /\ published' = Append(published, Artifacts[Len(published) + 1])
    /\ UNCHANGED <<settings, pc, now, next, results, skipped, stopped, cost, intact, run>>

\* Leaving the snapshot's context verifies it once more.
Return ==
    /\ pc = "publish"
    /\ Len(published) = Len(Artifacts)
    /\ pc' = IF intact THEN "done" ELSE "aborted"
    /\ UNCHANGED <<settings, now, next, results, skipped, stopped, cost, intact, run, published>>

-----------------------------------------------------------------------------

Ended == pc \in {"done", "aborted"}

\* The process dies, or a publication step raises: what is published stays.
Crash ==
    /\ ~Ended
    /\ pc' = "aborted"
    /\ UNCHANGED <<settings, now, next, results, skipped, stopped, cost, intact, run, published>>

\* Something outside the run writes to the snapshot's temporary directory.
SnapshotDrifts ==
    /\ ~Ended
    /\ intact
    /\ intact' = FALSE
    /\ UNCHANGED <<settings, pc, now, next, results, skipped, stopped, cost, run, published>>

Step ==
    \/ Validate \/ Reserve \/ SkipCase \/ StartCase
    \/ PreTest \/ StaticAnalysis \/ Review \/ ApplyPatch \/ Tests
    \/ RecordResult \/ CaseRaises \/ Aggregate \/ Verify \/ Publish \/ Return

Stopped == Ended /\ UNCHANGED vars

Next == Step \/ Crash \/ SnapshotDrifts \/ Stopped

\* The run waits for an answer no timeout bounds: `docker version`, `image ls`
\* and `image inspect` around the commands of a case with an image, and the git
\* queries of the summary.
Awaits ==
    \/ pc \in {"pretest", "tests"} /\ next \in DockerCases
    \/ pc = "loop" /\ next > NumCases

\* Every other stage returns: commands and git have timeouts, a reviewer's
\* command has one too, and an HTTP reviewer reads a bounded body with a
\* timeout for each read.
Spec == Init /\ [][Next]_vars /\ WF_vars(~Awaits /\ Step)

-----------------------------------------------------------------------------

Evidence == {"run_dir", "run.json", "report.md", "report.html", "run_manifest",
             "bundle", "latest.json", "database"}

Summarised == run.run_status # "none"

TypeOK ==
    /\ settings \in Settings
    /\ pc \in {"validate", "reserve", "loop", "pretest", "static", "review", "patch",
               "tests", "record", "verify", "publish", "done", "aborted"}
    /\ now \in Nat
    /\ next \in 1..(NumCases + 1)
    /\ results \in Seq([case : 1..NumCases, outcome : CaseOutcomes])
    /\ skipped \in Seq(1..NumCases)
    /\ stopped \in {"none", "max_wall_seconds", "max_cost"}
    /\ cost \in Nat
    /\ intact \in BOOLEAN
    /\ published \in Seq(Evidence)

\* Every case of the pack is accounted for exactly once and in pack order:
\* first the evaluated ones, then, after a budget tripped, the skipped ones.
CasesAccountedFor ==
    Summarised =>
        [i \in 1..(Len(results) + Len(skipped)) |->
            IF i <= Len(results) THEN results[i].case ELSE skipped[i - Len(results)]]
          = [i \in 1..NumCases |-> i]

\* What a case under way may still take once the deadline has passed.  The
\* command stage that straddles it gave each command the time left when the
\* stage began, in whole seconds; later stages have the floor of one second per
\* command.  Every stage may overstay by its clean-up.
LastCase ==
    LET cleanUp == CleanUp(DockerCases # {})
    IN  ((Commands - 1) * Timeout + Second + cleanUp) + (Second + 3 * Grace)
            + MaxReview + MaxPatch + (Commands * Second + cleanUp)

\* A tripped wall budget stops the run at the next case boundary, and the stages
\* of the case under way shrink to the floor of _effective_timeout.  The budget
\* between cases is read off a clock that may have been set back.
WallOverrunIsOneCase == MaxWall # NoLimit => now <= MaxWall + MaxSkew + LastCase

\* A run that appears on the default leaderboard evaluated every case, against
\* content pinned out of band, with no repair judged on the host, no repair
\* left without a verdict for want of a backend, and no reinterpreted answer.
RankedRunsAreTrustworthy ==
    Summarised /\ Eligible(run) =>
        /\ Len(results) = NumCases
        /\ settings.expected = "match" /\ settings.pinned # "mismatch"
        /\ \A i \in 1..Len(results) :
              LET o == results[i].outcome
              IN  ~IsLocal(o) /\ ~IsUnavailable(o) /\ ~IsSalvaged(o)

\* A run whose snapshot lost its content before the evidence was written
\* never publishes anything but the empty directory it reserved.
DriftedRunsPublishNothing ==
    [](~intact /\ pc # "publish" /\ Len(published) <= 1 => [](Len(published) <= 1))

\* A run ends, whatever its cases do, unless it waits forever for the Docker
\* daemon or for git: test_executor.py and _git_commit ask without a timeout.
RunEnds == <>Ended \/ <>[]Awaits

=============================================================================
