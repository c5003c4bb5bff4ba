# TLA+ models of Code Review Arena

Code Review Arena (`arena/`) runs code reviewers against packs of benchmark cases,
validates the repairs they propose by executing tests, and publishes scored,
content-addressed evidence. This directory holds TLA+ models of the parts whose
correctness depends on ordering, concurrency, failure or exhaustive case analysis,
the TLC configurations that check them on small instances, and TLAPS proofs for
every instance. `PROJECT.json` lists every run, mutant, source mapping, finding,
hazard and theorem.

## The system

| Component | State | Operations | Hard behaviour |
|---|---|---|---|
| Job queue (`server/jobs.py`, `server/routes/runs.py`) | `_jobs`, the lock, the executor's queue | `submit`, `execute`, `get`, `_evict_finished_locked`, the handlers | hand-over and a read outside the lock; eviction at the limit |
| Benchmark run (`benchmark/benchmark_runner.py`) | results, skipped cases, running cost, deadline, run directory | validate, reserve, the case loop, aggregate, publish | budgets checked between cases, crash while publishing, snapshot drift |
| Case evaluation (`benchmark_runner._evaluate_case`, `scoring/deterministic_scorer.py`) | patch, tests, manifests, verdict | pre-test, static analysis, review, patch, tests, validators, score | candidate code runs between two manifests; skipped and missing outcomes |
| Test executor (`execution/test_executor.py`) | backend, command loop | `execute`, `_run` | missing backends, no fallback to the host |
| Process supervisor (`execution/process.py`) | process group, pipes, buffers, deadline | pump, wait, terminate | descendants, signals, floods, interrupts |
| Pack snapshot (`benchmark/snapshot.py`) | source, identities, copy, seal | three walks, copy, seal, verify | the source changes during every walk |
| Leaderboard policy (`reports/leaderboard.py`) | – | `eligibility_from_fields` | which runs may be ranked |
| Patch pipeline (`patching/git_pipeline.py`) | scratch repository, destination | apply a patch through git | failure of one command of many |
| Git commands (`git_pipeline._run_git`) | two buffers, the event, git's process group | read, overflow, kill, wait, join | threads that act after they gave up the lock; a reaped git |
| Pack checksum (`benchmark/pack_hash.py`) | `pack.sha256` | `write_checksum` | two writers, a change during the write |
| Historical-fix importer (`importer/historical_fix.py`) | staging and output directory | stage, claim, rename | two importers of one output; publication by several renames |
| Run store (`storage/`) | SQLite database | migrate, save, query | migration race, death between two ALTERs, replace semantics |
| Bundle and publication (`reports/bundle.py`) | reports, checksums, `latest.json` | reserve, write, seal, verify | two runs under one root, death between two files |
| Response parser and reviewers (`reviewers/`) | attempts, parse status | call, parse, repair | answers cut short, salvage that drops findings |
| Review scoring (`scoring/scorer.py`) | potentials, path, matching | `score_case`, `_max_weight_matching`, `_hungarian_min_cost` | ties, forbidden pairs, potentials across rows |
| Certification (`benchmark/certify.py`, `mutation.py`) | log of executions, rungs | `certify_pack`, `certify_case`, `run_mutation_test` | flaky suites, a backend that comes and goes |
| Request body limit, reports, command line, validators | – | | see "Not modelled" |

How they meet: a handler submits `run_benchmark` to the job queue. A run takes a
`PackSnapshot` and reads only from it, evaluates its cases one after another, and
publishes reports, manifest, bundle, `latest.json` and the database row. A case asks
the reviewer for findings and a patch, applies the patch with the git pipeline, and
runs the hidden tests with the test executor, which runs every command under the
process supervisor. The leaderboard reads the published runs.

What makes each part correct, in one line: the queue loses no job and stays bounded;
a run accounts for every case and publishes only what it may; a case gets credit only
for executed gates and for an answer that was taken whole; findings are credited by a
maximum-weight assignment; the supervisor and `_run_git` always return, with true output;
a snapshot is the source at one instant; a patch that is reported as applied gives the
requested tree and nothing else; evidence of a run is whole before anything points to it;
a pack directory holds one import under a checksum nobody found stale; a rung of the
certification ladder is backed by executions.

## Modules and runs

States are distinct states; times are with two workers.

| Module | Models | Run | Instance | States | Time |
|---|---|---|---|---|---|
| `JobQueue`, `JobLedger` | the queue with its threads; what it promises | `JobQueue` | 4 jobs, 2 handlers, `max_pending` 2, `max_finished` 1 | 214,471 | 22 s |
| `CaseEvaluation`, `ResponseParser` | one case, from the reviewer's answer to the verdict | `CaseEvaluation` | the cases and answers of `MCCaseEvaluation` | 9.8 M | 105 s |
| `BenchmarkRun` | one run and its eligibility | `BenchmarkRun` | 2 cases, wall budget none or 5 ticks (2 to a second), cost budget none, 0 or 1 | 2.7 M | 150 s |
| `PackSnapshot` | the snapshot protocol | `Snapshot` | 2 files in nested directories, any number of changes | 2.5 M | 140 s |
| `GitPipeline` | one patch transaction | `GitPipeline` | 4 paths, patches of up to 2 of them | 414,178 | 7 s |
| `GitCommand` | one `_run_git` with its threads | `GitCommand` | cap 2, chunk 2, 4 bytes a stream, one descendant | 1.7 M | 40 s |
| `ProcessSupervisor` | one supervised command | `Supervisor` | 2 processes, limit 2, chunk 1, 5 bytes | 83,874 | 10 s |
| | | `SupervisorTree` | violated: see findings | | |
| `FindingAssignment` | the Hungarian method | `FindingAssignment` | 3 bugs, 2 findings, weights 0 to 2 or none | 54,878 | 14 s |
| `RunEvidence` | what runs leave behind | `RunEvidence` | 2 runs, 2 seconds, 3 columns in 3 passes, databases of every version | 64,128 | 8 s |
| `PackAuthoring` | imports and `pack.sha256` | `PackAuthoring` | 2 importers, 2 writers, 1 edit | 8.4 M | 145 s |
| `Certification` | the ladder | `Certification` | 2 cases, up to 2 mutants, 1 to 3 determinism runs | 2.8 M | 22 s |

What each run shows is said under "about" in `PROJECT.json` and in the sections below.
`MC*` modules hold the values of the constants and `*Proofs` modules the proofs.
Definitions named "Mutant of ..." are plausible bugs: substituting one for its original makes the property listed with it in
`PROJECT.json` fail. `TypeOK` documents the state of a module; it was checked while the
modules were written and is proved for most of them, and the runs spend their time on
the other properties.

How the modules fit together: `CaseEvaluation` extends `ResponseParser`; `BenchmarkRun`
takes as the outcome of a case what `CaseEvaluation` can produce (`OutcomesArePossible`
proves it), and `RunEvidence` takes
the publication of `BenchmarkRun` apart into file writes of several runs; `GitPipeline`
uses a Git whose commands return or fail as `GitCommand` says; `PackAuthoring` takes a
snapshot as one step because of `SnapshotIsOneInstant`; `JobQueue` implements `JobLedger`.

### JobQueue and JobLedger

Each `with self._lock` block is one action; what is outside the lock is an action of
its own: `_executor.submit` (`Schedule`) and the handler's read of the live job object
(`Respond`). So executor order and table order may differ. `completed_at` is the rank
of the completion; the wall clock is taken as strictly increasing. `Jobs` stands for
the uuids, of which none is used twice; `submit` takes a fresh one, and which one it is
makes no difference. `JobLedger` is the client's view: accepted, begun, ended, forgotten,
with the rule for what may be forgotten. Four jobs with `max_pending` 2 and `max_finished`
1 are one more than the table may hold, so the bound is exceeded unless `submit` evicts;
full queues and two concurrent submissions happen too. `ImplementsLedger` is checked with
its fairness, so there is no symmetry. `executor.submit` raising, and exceptions of a run
that are not `Exception`s, are left out, and so is the validation of a request.

Fairness: weak fairness of `Schedule` (a handler past the lock runs on) and of the
worker (the executor's only thread). Weak fairness of `Finish` says that `run_benchmark`
returns or raises; `BenchmarkRun`'s `RunEnds` supports that except while Docker or git
does not answer a query that has no timeout. Then the job stays `running`, holds its slot,
and nothing behind it begins. Nobody need submit or poll.

### CaseEvaluation

One action per stage of `_evaluate_case`. The reviewer sends an answer of
`MCCaseEvaluation`; `ResponseParser` says what the transport, the three parse attempts,
`score_case` and `_select_case_patch` take of it. An answer is a document and the class of
text it comes in: plain, fenced, in prose (what the tolerant transforms undo for an object)
or garbage. The brace extraction of `_tolerant_transform` cuts a list with findings in a fence or in prose
to its inner objects, so only a plain or an empty fenced list reaches the repair (`ListSurvives`).
A finding that serves no bug is neutral when the case accepts it and a false positive
otherwise; which of several findings serves a bug is left open here. In this module
git, the tests and the validators take any outcome. A test command that runs
on the host may change the hidden tests; in Docker they are mounted read-only.
`FailureReasons` is `score_deterministic_case`, `CaseStatusOf`, `EvidenceOf` and
`RepairConfidence` are the labels. The configurations of `MCCaseEvaluation` vary the
gates, requirements and images with one and two bugs and zero to two commands: the
conditions are over sets of such size. Any stage may raise, and then
`_failed_case_result` is the result.

The manifests are taken before the first and after the last command, so
`ChangedTestsVoidTheRepair` is about tests that differ when the run is over. A command that
rewrites the tests and a later one that puts them back go unnoticed, in the model as in the
code. `HostExecutionIsOnRecord` is about cases with a verdict: one that raised after a
command ran on the host leaves no record of it.

### BenchmarkRun

From validation to the return of `run_benchmark`. `settings` are the arguments and
how the pack relates to its own and to the pinned digest. A case is its stages, which
take time, and then an outcome from `Outcomes`, restricted by `Possible` to what
`CaseEvaluation` can produce. Only runs with a wall budget move the clock: without one
no guard reads it. `Crash` may end the process anywhere; `SnapshotDrifts` changes the
temporary tree. Publication appends one artifact per step, so a crash can fall between
any two. Two cases with one outcome of each kind that a status or an eligibility rule
tells apart, with and without budgets.

Time. The clock is `monotonic()`, in ticks. `EffectiveTimeout` is `_effective_timeout`:
whole seconds, at least one. A stage gives it to each of its commands (`Longest`), and on
top come the supervisor's waits of `_GROUP_GRACE_SECONDS` (after the pipes are closed, after
SIGTERM, after SIGKILL), `docker rm` after a timeout, and the docker queries (`CleanUp`). The
code puts no bound on those queries; `WallOverrunIsOneCase` assumes that each takes at most
`MaxProbe`. The budget between cases is read off `datetime.now()`, which may be `MaxSkew`
away from the monotonic clock (`Elapsed`). `MaxReview` and `MaxPatch` bound a reviewer and
the git pipeline, which get no part of the budget. What the harness does between stages
(copying, hashing, loading) takes no time. Two commands, a budget of two and a half seconds
and a timeout of two: the timeout is whole, truncated and at its floor, the case that
straddles the deadline and the skipped one both occur, and a case with an image and one
without.

Fairness. Weak fairness of the run's own steps, except where the run `Awaits` an answer no
timeout bounds: `docker version`, `image ls` and `image inspect` around the commands of a
case with an image (`test_executor.py:133,146,223`), and the `git` queries of
`_git_commit` and `_git_dirty` before the summary. Everything else returns: commands and
the git pipeline have timeouts (see `ProcessSupervisor` and `GitCommand`), a reviewer's command has one too,
and an HTTP reviewer reads a body of bounded size with a timeout for each read. So
`RunEnds` says that a run ends or is stuck in one of those waits for good.

A run with failed cases is `complete` here as in `_run_status`;
`docs/trusted-evaluation-architecture.md` names the stricter rule as a target of a
later phase, so no property is stated about it.

### PackSnapshot

Three walks over a source that changes at any step: `identify` (`_source_identity`),
`copy` (`_copy_tree`), `recheck` (`_assert_source_unchanged`). Opening a directory,
listing each of its entries, opening a file, reading each of its chunks and closing it
are separate steps, in any order the directories allow (the code's sorted order is one
of them). The identity of an entry is a stamp that every change renews, of the file
and, if files come or go, of its directory. The walks have at most two identities of an
entry on record, so three stamps are enough for any number of changes: files may change
forever. What `os.read` gives of a file that has changed since it was listed is left open,
and it may go on and on up to `PACK_FILE_BYTES` (`MaxChunks`), as a growing file does.
`instant` is a history variable: the source when `identity_before` was complete.
`CoarseClock` lets a write keep its stamp; the run and two of the proofs are without it
(see the remarks under "Findings"). Two files in nested directories are
enough for a mixture of two versions. With one chunk per file torn reads within a file are
left to the proof, which has any number.

`ChecksumIsOfTheSource` looks at the end of the whole protocol: the checksum is computed
of the snapshot's tree, which others may write to (`Drift`, once in the run: `OneDrift`)
before and after the seal, and still the one a caller leaves with is that of the source at
one instant. It does not say that the tree had this content all the time: a drift that is
undone before `verify` is not seen, by the model or by the code. `SnapshotEnds` is a
ranking: every step of `snapshot_pack` lowers the number of steps it has left, changes of
the source leave that number alone, and until the end some step is possible; with weak
fairness of the process the walks end, however often the source changes.

Left out: the names are fixed, so a directory that grows without end (stopped by
`SNAPSHOT_MAX_ENTRIES`) does not occur; the limits on entries, depth and total bytes, path
collisions, hardlinks, modes, changes of the directories themselves, and the path-based
walk for Windows.

### GitPipeline

One action per step of `apply_patch`, over trees of entries (mode and blob). Git is
external and adversarial within its interface: `git add` may ignore files and convert
bytes, `git apply` writes the patched index and may convert the files, and every command
may fail with the reasons of its place. The patch is what it asks of each path. The
destination may hold an earlier workspace; if that cannot be removed, or the copy fails,
`apply_patch` raises. Four paths (two that differ in case, a protected one, one the path
policy refuses) and patches of up to two of them reach every check: each check looks at
one entry or at a pair. A change of the workspace by a third party during the transaction
is not modelled; the last comparison is of names only, so a change of bytes after
`_verify_index_bytes` would not be seen.

### GitCommand

`_run_git` behind every Git command: the main thread (`wait`, the joins, the last look at
the buffers), a reader per stream, the stdin thread, and the process group. The lock is
held for one step (`Read`); `overflow.set()` and the kill come after it. `_terminate`
finds the group through git's pid, so once git was reaped it does nothing. Bytes are
counted, and pipes have no capacity: a process that blocks is one that does not go on.
Only the main thread has fairness: its wait and its joins time out, so `CommandReturns`
asks nothing of git, of a descendant or of the other threads. `ReturnedOutputIsWhole` is
stated for the streams whose reader was not given up on: a descendant that holds a pipe
for five seconds after git's end makes the code return what it has.

### ProcessSupervisor

The processes of the group write, close pipes, fork and exit freely; some ignore
SIGTERM. `PumpTurn` is one turn of `_pump`'s loop from its deadline test to its limit
test. The deadline and the end of a grace are events that may come at any time; weak
fairness makes the deadline come and the supervisor go on (`select` wakes it at least
every half second, waits have a grace). Nothing is assumed of the group. Signals act at
once. Two processes suffice for everything that depends on a descendant; five bytes
against a limit of two and a chunk of one overflow from either pipe or from both.
Processes that leave the group (`setsid`) are outside the model, and so is
`output_limit=None`, which no caller of pack commands uses.

A command that closes its pipes and goes on is terminated after the grace and returned
with `timed_out=False` and the signal as return code.

### FindingAssignment

`_hungarian_min_cost`, one round of its loops per step, on the matrix
`_max_weight_matching` builds: a column per finding that is eligible for some bug, and as
many "unmatched" columns as bugs. Weights are integers; the code's are floats, so rounding
is outside the model. The reference is the maximum over all one-to-one pairings
(`MaximumWeight`); `PotentialsCertifyTheMatching` is the invariant that makes the method
right, checked after every step. Three bugs and two findings have more bugs than findings
and alternating paths through two matched columns; three by three with two weights passes
as well (252,098 states). How the weights come from text, lines and severity is not
modelled.

### RunEvidence

Several runs with one output root and one database. `_reserve_run_dir` is a loop of
`mkdir`; every report, `checksums.json` and `latest.json` is truncated and written in two
steps; SQLite statements are atomic, DDL commits by itself, and the last UPDATE with
`user_version` and the rows of `save` are one transaction each. A process may die between
any two steps. `MigrationRecovers` is about a process that finds nobody else at work on
the database and does not die: it gets through, wherever an earlier one stopped. Fairness:
a process that does not die goes on. Two runs suffice for every conflict over a name or a
column; the migrations are three calls of `_add_columns` with a column each, two of which
exist in a table that `schema.sql` creates.

The database may be missing, from before versioning, at version 1 (which gets `_migrate_v2`
only, the passes from `V2Pass` on) or newer than the program, which is a `StorageError` after the evidence was
published. The key of a row is the bare run id, and ids are unique under one output root
only: `EvidencePrecedesPointers` is for one root.

### PackAuthoring

Importers race for one output, writers of `pack.sha256` race with each other, with the
importers and with an author. `Claim` is the `mkdir`; each rename is a step and may fail,
and then the removal may fail too, as `rmtree` ignores errors. `write_checksum` has its
two snapshots, the read of the prior artifact, the temporary file (which other snapshots
see) and the restore. `disturbed` records what others changed since a writer began, which
is what `QuietWriteSticks` is conditional on. What becomes of a disturbed writer's
checksum is a remark under "Findings", not a property. A staging directory is private and appears in
one step.

### Certification

Each execution of a suite ends as it likes, so a suite may be flaky and the backend may
vanish between two executions; the log keeps what was executed, by kind, beside the
counters of `run_mutation_test`. `RungsAreEarned` compares
the rung with the log, and the level of the pack with its cases. Two mutants and up to
three determinism runs have every majority and a first, a middle and a last repetition.

## Findings

A run whose property is what a comment and a docstring say:

- `TimeoutKillsTheTree`: after SIGTERM only the command is waited for; a descendant that
  ignores SIGTERM survives.

More places where the code does less than the text promises, without a run of their own:

- `docs/metrics.md:20` says a validated true positive requires localization;
  `score_deterministic_case` has no such reason, on purpose (its comment at line 25).
- `apply_patch` says that on any failure the destination is removed; an `OSError` of
  `copytree` leaves it (`PrepareRaises`).
- `_identity` sees no content, so a same-size write that leaves the modification time as
  it was (two writes within its granularity) is sealed undetected; this is why
  `SealedIsOneInstant` assumes `~CoarseClock`. `snapshot.py:31` says changes are detected.
- An interrupt during `process.wait` or the wait of `_terminate_group`
  (`WaitInterrupted`) propagates without a signal to the group; only one inside `_pump` is
  handled. `process.py:6` names cancellation without that condition.
- `MemoryIsBounded` has two chunks over the limit, one per pipe; the comment at
  `process.py:134` says one.
- `deterministic_scorer.py:62-63` says that a repair can only be a validated pass if an
  executable gate checks it; the guard covers patch-required cases only. A case without
  gates that does not require a patch gets `repair_validated` findings from an applied
  patch (its status is inconclusive and it is not eligible for credit).
- `benchmark_runner.py:168-169` calls the wall budget hard; each command of a test command
  gets the whole time that was left when the stage began (`test_executor.py:91`), so a case
  can run past the budget by more than a whole timeout; `WallOverrunIsOneCase` has a term
  for the other commands.
- `_run_git` says its readers retain at most one byte over the cap
  (`git_pipeline.py:189-190`); they keep up to a chunk of 65,536 bytes over it
  (`RetainedIsBounded` has one chunk per reader).
- `docs/historical-fix-ingestion.md:119-121` says a failed import publishes no partial
  pack; an interrupt between two renames, or a removal that fails, leaves one
  (`Interrupted`, `MoveFails`).
- `pack_hash.py:97-98` says a known-stale checksum is never left behind. Two overlapping
  writers can leave one: the second takes the first one's checksum for the prior artifact
  and restores it after the first has withdrawn it. So can a single one whose restore
  raises or which dies before it (`WriteRaises`, `WriterDies`).
- `benchmark_runner.py:330-331` says that candidate code that rewrites the hidden tests
  mid-run is caught, and `integrity.py:4-7` that any change while the suite runs is; only
  the state after the run is compared, so an edit that is undone is not.
- `test_executor.py` asks Docker, and `_git_commit` and `_git_dirty` ask git, without a
  timeout; a query that is never answered keeps the run, and the job queue behind it.
- Two runs that copy `latest.json` at the same time can leave the tail of the longer one
  after the shorter one; `EvidencePrecedesPointers` says only that all of it is of sealed
  runs.
- A process that loses the migration race fails with a duplicate column after its evidence
  was published: it has no row.
- `mutation_adequate` takes mutants that were generated but could not be run for mutants
  that do not exist, so a backend that vanishes after the reference run costs a case
  nothing.

## Proofs

Eight modules hold the proofs, for every value of the constants. Each theorem rests on an
inductive invariant, and each action, or group of like actions, has a lemma that keeps it.
The assumptions are those of the models: sizes and limits are naturals, markers (`Absent`, `NoLimit`, `Nil`, ...) differ from the values they stand
beside, a pack has finitely many files (`FinitePack`), a deployment finitely many runs,
the columns `schema.sql` creates are columns of the schema (`SchemaAssumption`), and cases,
answers and outcomes have the fields the code gives them (`CasesAssumption`,
`OutcomesAssumption`). TLC evaluates all of them.

`JobQueueProofs` (any jobs, handlers, `max_pending`, `max_finished`):
`TypeCorrect`, `TableStaysBounded`, `EvictionKeepsRecent`, `RefinesLedger`,
`HandedOverOnce` and `AnswersForward`. The
bound on the table is not inductive as it stands: right after an eviction at most
`max_finished` finished jobs are left, and what finishes later was pending then. The
invariant adds that finished jobs have distinct completion ranks, that the table is
finite and that an evicted job has `max_finished` newer ones in the table; the lemma
`FewRecent` (at most n elements have fewer than n above them) turns ranks into a
cardinality. `RefinesLedger` is the safety part of `ImplementsLedger`. `HandedOverOnce`
follows an unfinished job from its handler to the executor's queue to the worker: it is in
exactly one of them (`OnePlace`, `SomePlace`). `AnswersForward` is an action property; it
needs that a job in a handler's hands has not been spoken of and that no answer is ahead
of the job (`AnswerInv`).

`BenchmarkProofs` extends both `BenchmarkRun` and `CaseEvaluation`, whose names are
disjoint for this purpose.
Of a run (any number of cases, budgets, timeouts, outcomes): `RunTypeCorrect`,
`EveryCaseCounts`, `OverrunIsBounded`, `LeaderboardIsTrustworthy` and the action property
`DriftIsWithheld`. `LoopInv` says which cases are evaluated and which skipped, `ClockInv`
the latest moment each stage can begin at (clean-up, docker queries of at most `MaxProbe`
and clock skew included), `SummaryInv` that the summary is of the results
as they are and that these are possible, `EvidenceInv` that nothing but the directory is
published before the snapshot is verified.
Of a case (any cases and answers, answers with any number of findings):
`CreditNeedsExecution`, `HostIsOnRecord`, `ChangedTestsAreVoid` and `AnswersCountWhole`.
`TestsInv` ties what each stage may rely on (the repair is in place before anything runs,
a passing run went through all its commands, the comparison sees what the commands left),
`HostInv` the backend to where commands ran, `AnswerInv` the parse to what was sent,
`VerdictInv` the result to the state it was made in.
`OutcomesArePossible` joins the two: every case that ends under the run's mode and its
effective opt-in has an outcome of `CaseOutcomes` that is `Possible`. So the assumption
`BenchmarkRun` makes of its cases is a theorem about `CaseEvaluation`.

`GitPipelineProofs` extends `GitPipeline` and `GitCommand`. Of the transaction (any paths,
blobs, modes, policies, patches and any Git):
`PipelineTypeCorrect`, `SuccessIsExact`, `SuccessObeysPolicy`, `ReportIsTrue` and
`PatchIsBlamedFairly`. The
properties speak of the end; the invariant carries what each passed check established:
`CopyInv` and `SourceInv` up to the baseline, `BaselineInv` (a path is in the verified
baseline as in the source, or Git ignored it), `PatchInv` (the index is the patched
baseline, and no patched path is an ignored one, because `git apply --index` refuses to
create a file that exists) and `CheckedInv`. Only with the last comparison of names is the
index the whole destination; without it an ignored file escapes the collision policy.

Of one command (any cap, chunk and amount of output): `RetentionBounded` and
`OutputWhole`. A reader that has stopped reading may have added one chunk over the cap
(`RetentionInv`), and output over the cap is always on its way to the event
(`OverflowInv`). A reader ends at the end of its stream or because of an overflow
(`DoneInv`), so after the joins an unset event means that every joined stream is complete
(`TakenInv`); nothing can be added to it later, because nobody writes to a stream whose
reader is gone.

`PackSnapshotProofs` (any files, directories, chunks, contents and changes):
`SnapshotTypeCorrect`, `QuietAccepted`, and, under the assumption `~CoarseClock`,
`SealedIsOneInstant` and `ChecksumOfTheSource`.
The argument is a double collect. A change gives an entry an identity that no walk has on
record (`FreshFact`), so an entry whose stamp is the recorded one has not changed since it
was recorded. `BeforeInv` ties such
an entry to `instant`, `CopyInv` what was copied of it, and `NoneMissed` says the copy
did not miss it; for a file that was absent, the stamp of its directory plays that
part (`WalkInv`). `RecheckInv` then fixes the conclusion per entry at the moment the
last walk reads it, because the source may change again before the seal. The
checksum is taken of the snapshot's tree, and `verify` compares that tree with both it and
the manifest, so it inherits the instant from the manifest whatever was written to the tree
in between. `QuietAccepted` holds with any clock: a pack without
links and within the limits that nobody touches is never rejected, because every walk finds
the first identity of what is there (`QuietWalk`, `QuietCopy`).

`ProcessSupervisorProofs` (any group, `output_limit` and chunk size):
`SupervisorTypeCorrect`, `PumpMemoryBounded`, `OutputReported`, `GroupSignalled`. Only the
turn that stops the pump leaves more than the limit (`LimitInv`); until something is
trimmed every byte written is in a buffer or a pipe (`Conserved`), and a stream off the
selector has no writer (`ClosedInv`), so the end of the pipes means the whole output. Who
is left after a signal is `SignalInv`.

`RunEvidenceProofs` (any number of runs, any clock, any list of migrations):
`EvidenceTypeCorrect`, `BundlesAreWhole`, `PointersFollowEvidence`, `MigrationIsComplete`.
A directory belongs to the run that made it (`OwnInv`), holds reports of that run only,
dead or alive (`FileInv`), and a whole `checksums.json` is the last write to it
(`SealInv`). `MigrationInv` is what a migration has behind it while others add columns
under it: the columns of its earlier passes exist, those of the pass it is in exist or are
still on its list.

`PackAuthoringProofs` (any importers, writers and edits): `AuthoringTypeCorrect`,
`PublicationNeverMixes`, `QuietWriterSucceeds`. `mkdir` admits one
owner, and only its removal of the output lets in another, into an empty directory
(`OwnerInv`, `MovedInv`); a writer nobody disturbed finds what it began with and its own
artifact after the replace (`QuietInv`). The property of the writers is kept by
every step given these, so it is part of the invariant.

The module also extends `Certification`, whose names are disjoint for this purpose (any
number of cases and mutants, any `determinism_runs`): `CertifyTypeCorrect` and
`EveryRungIsEarned`, which is `RungsAreEarned`. `ProgressInv` says how often the suite has
been run at each step of `certify_case`, `CounterInv` that the two counters are the numbers
of killed and of executed mutants in the log, `VerdictsInv` what the first verdicts and
each repetition rest on: a case that is still being repeated has only good runs so far, and
`deterministic` is set with the last of them. That the pack has the level of its weakest
case is `WeakestCase`: the levels of its cases are finitely many, so the `CHOOSE` of
`PackLevel` has a witness.

`FindingAssignmentProofs` (any number of bugs and findings, any weights below the
sentinels): `AssignmentTypeCorrect`, `PotentialsCertify`, `MatchingIsOptimal` (which is
`MaximumWeight`) and `FirstFindingWinsTies` (`TiesTakeTheFirstFinding`). The
certificate alone is not inductive: that a scan moves the potentials by no more than every
pair of the path allows needs the slacks to be the smallest reduced costs from the path
(`SlackInv`), and that handing back a match gives a pair without slack needs `way` to lead
along such pairs, to ever earlier columns (`WayInv`, with a ranking of the path). That
the smallest slack is never the infinity the loop began with is `FreeDummy`: there are as
many unmatched slots as bugs, so by the pigeonhole principle one of them is free while a
row sits elsewhere. `SlotInv` gives the rows columns of their own, all through the
hand-over, and `FindingFact` the columns findings of their own; together they make the
result one to one. Reduced costs may be negative only before the first scan of a row, when
`Covered` leaves it out.

Optimality is the duality argument. When the loops are done no bug sits in a forbidden
column (`RealColumnsMatch`: a free slot would be cheaper), and the potentials turn into
prices of bugs and findings that no eligible pair exceeds, that matched pairs attain and
that nobody unmatched has (`PricesExist`). Another matching takes at most the prices of its
bugs and findings, each once, and all the prices there are lie in this one (`PricesBound`).
The sums need induction over finite sets. The library's theorems for it take a predicate as
a parameter; `RemovalInduction` and `SubsetInduction` state it for a set of subsets instead,
from a least cardinality, and `TotalIsSum` shows that the fold `Total` uses computes the
sum whatever order it takes the pairs in.

Ties: a column without a price has, for the row it is matched to or about to be matched to,
no unmatched column before it at the same cost (`TieFree`, in `TieInv` and along the path in
`Ranked`). The scan establishes it because the lowest of the cheapest columns is chosen,
and later steps only take columns away from the unmatched ones. A column with a price is no
exception to the property: an unmatched column before it has no price, so it would be
strictly dearer.

Only model-checked: liveness and fairness (`RunEnds`, `SupervisorReturns`,
`CommandReturns`, `MigrationRecovers`, the fairness of `ImplementsLedger`), which is out of
the prover's reach, and `SnapshotEnds`, which speaks of `ENABLED`. Every other property that
a passing run checks is also a theorem.

## Plan

1. Proofs: that a step of `RunEvidence` maps to a publication step of `BenchmarkRun`.
2. The container's life around the supervisor (`_docker_run`): a container that goes on
   after its client was killed for its output.
3. The HTTP reviewer's bounded streaming read, and the request body limit.
4. An atomic snapshot that `PackSnapshot` implements as an abstract specification.

## Not modelled

Reports (formatting), the command line, configuration and data models (declarations),
structural validators and the making of mutants (pure functions over syntax trees, whose
verdict or number the models take), the matchers of text, lines and severity that give the
weights of `FindingAssignment`, control reviewers (fixed answers), read-only routes,
the local sandbox (operating-system limits without state of their own), bounded file reads,
the path walk for Windows, and the generation of diffs by the importer.

Most lines of the repository are the benchmark packs under `benchmark_sets/`: sources of
other projects that the program reads as data and that have no part in its behaviour. The
program itself is `arena/`, about 14,000 lines, of which the map covers the parts with
state, order and failure.
