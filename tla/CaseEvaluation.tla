--------------------------- MODULE CaseEvaluation ---------------------------
(***************************************************************************)
(* The evaluation of one benchmark case: _evaluate_case in                 *)
(* arena/benchmark/benchmark_runner.py with the scorer it calls            *)
(* (arena/scoring/deterministic_scorer.py) and the test backend it drives  *)
(* (arena/execution/test_executor.py).                                     *)
(*                                                                         *)
(* The reviewer, git and the executed code are the environment: each step  *)
(* takes one of the outcomes the code distinguishes.  While a command runs *)
(* on the host it may also write to the hidden tests; in Docker they are   *)
(* mounted read-only.                                                      *)
(*                                                                         *)
(* Its names differ from those of BenchmarkRun: BenchmarkProofs extends    *)
(* the two and shows that they fit together.                               *)
(***************************************************************************)
EXTENDS ResponseParser

CONSTANTS
    Cases,   \* the case configurations to evaluate
    Answers  \* the answers a reviewer may give

\* What the evaluation reads of a BenchmarkCase.  commands is the number of
\* argv commands test_command parses to (0: a blank command, accepted by
\* validate_case but skipped by the executor).
CaseConfigs ==
    [run_tests : BOOLEAN, commands : Nat, docker_image : BOOLEAN,
     static_analysis : BOOLEAN, tests_dir : BOOLEAN, bugs : Nat \ {0},
     patch_required : BOOLEAN, tests_required : BOOLEAN,
     structural_validators : BOOLEAN, max_false_positives : Nat,
     detection_requirement : {"all_bugs", "at_least_one"}]

\* The cases and answers there can be.
Admissible ==
    /\ Cases \subseteq CaseConfigs
    /\ \A a \in Answers :
         a.text \in {"plain", "fenced", "prose", "garbage"} /\ a.doc \in Documents

ASSUME CasesAssumption == Admissible

VARIABLES
    case,        \* the case under evaluation
    mode,        \* "review" or "full" ("patch" takes the same path)
    allow_local, \* effective_allow_local of the run
    stage,       \* where _evaluate_case is
    review,      \* what score_case found in the reviewer's answer
    given,       \* history: what the reviewer sent
    patch,       \* outcome of PatchApplier.apply
    tests,       \* the TestExecutionResult, or NotRun
    command,     \* commands of the current execute() already run
    hidden,      \* content of the hidden tests in the workspace
    manifest,    \* file_manifest(tests_root) taken before the tests
    integrity_changes, \* the manifests before and after the tests differ
    validators,  \* "none", "passed" or "failed"
    host,        \* history: pack commands that ran on the host
    result       \* the CaseResult, or Pending

evalVars == <<case, mode, allow_local, stage, review, given, patch, tests, command,
              hidden, manifest, integrity_changes, validators, host, result>>

request == <<case, mode, allow_local>>

NotRun == [ran |-> FALSE, passed |-> FALSE, execution_mode |-> "none", error |-> "none"]
Pending == [kind |-> "pending"]
NoReview == [status |-> "none", matched |-> {}, true_positives |-> {}, neutral |-> {},
             false_positives |-> {}, source |-> "none"]

NothingGiven == [delivered |-> FALSE, enable_repair |-> FALSE, findings |-> 0,
                 patches |-> 0, proposed_patch |-> FALSE]

Stages == {"pretest", "static", "review", "patch", "backend", "command",
           "manifest", "validators", "score", "done"}

\* What the evaluation goes on with, when the findings at tp serve the bugs.
Scored(parsed, tp) ==
    [status |-> parsed.status, matched |-> Matched(parsed), true_positives |-> tp,
     neutral |-> Neutral(parsed, tp), false_positives |-> FalsePositives(parsed, tp),
     source |-> PatchSource(parsed)]

Unavailable == {"docker_required_but_unavailable", "docker_image_not_present",
                "local_execution_disabled"}

Skipped(error) ==
    [ran |-> FALSE, passed |-> FALSE, execution_mode |-> "skipped", error |-> error]

EvalInit ==
    /\ case \in Cases
    /\ mode \in {"review", "full"}
    /\ allow_local \in BOOLEAN
    /\ stage = "pretest"
    /\ review = NoReview
    /\ given = NothingGiven
    /\ patch = "none"
    /\ tests = NotRun
    /\ command = 0
    /\ hidden = "original"
    /\ manifest = "none"
    /\ integrity_changes = FALSE
    /\ validators = "none"
    /\ host = {}
    /\ result = Pending

-----------------------------------------------------------------------------
(* The test executor. *)

\* Mutant of BackendChoices: without Docker, an image case runs on the host.
FallbackChoices ==
    IF case.commands = 0 THEN {Skipped("empty_test_command")}
    ELSE IF case.docker_image
         THEN {[NotRun EXCEPT !.execution_mode = "local"],
               [NotRun EXCEPT !.execution_mode = "docker"]}
    ELSE IF allow_local THEN {[NotRun EXCEPT !.execution_mode = "local"]}
    ELSE {Skipped("local_execution_disabled")}

\* TestExecutor.execute up to its command loop: the backends it may choose,
\* or the reason it skips.  An image never falls back to the host.
BackendChoices ==
    IF case.commands = 0 THEN {Skipped("empty_test_command")}
    ELSE IF case.docker_image
         THEN {Skipped("docker_required_but_unavailable"),
               Skipped("docker_image_not_present"),
               [NotRun EXCEPT !.execution_mode = "docker"]}
    ELSE IF allow_local THEN {[NotRun EXCEPT !.execution_mode = "local"]}
    ELSE {Skipped("local_execution_disabled")}


-----------------------------------------------------------------------------
(* Before the repair. *)

\* The pre-review test run, only with the local-execution opt-in.  Its output
\* goes to the reviewer's context and to nothing else.
RunPreTest ==
    /\ stage = "pretest"
    /\ IF allow_local /\ case.run_tests
       THEN \E choice \in BackendChoices :
              host' = IF choice.execution_mode = "local"
                      THEN host \cup {"pretest"} ELSE host
       ELSE host' = host
    /\ stage' = "static"
    /\ UNCHANGED <<request, review, given, patch, tests, command,
                   hidden, manifest, validators, result, integrity_changes>>

\* run_static_analysis always runs on the host.
RunStaticAnalysis ==
    /\ stage = "static"
    /\ host' = IF allow_local /\ case.static_analysis
               THEN host \cup {"static"} ELSE host
    /\ stage' = "review"
    /\ UNCHANGED <<request, review, given, patch, tests, command,
                   hidden, manifest, validators, result, integrity_changes>>

\* reviewer.review and score_case; review mode stops here.
ReviewAndScore ==
    /\ stage = "review"
    /\ \E a \in Answers, delivered, enable_repair \in BOOLEAN :
        /\ \A i \in DOMAIN a.doc.findings : a.doc.findings[i].bug <= case.bugs
        /\ LET parsed == Response(a, delivered, enable_repair)
           IN  \E tp \in Servings(parsed) : review' = Scored(parsed, tp)
        /\ given' = [delivered |-> delivered, enable_repair |-> enable_repair,
                     findings |-> Len(a.doc.findings),
                     patches |-> Cardinality(WithPatch(a.doc.findings)),
                     proposed_patch |-> a.doc.proposed_patch]
    /\ IF mode = "review"
       THEN stage' = "done" /\ result' = [kind |-> "review"]
       ELSE stage' = "patch" /\ result' = result
    /\ UNCHANGED <<request, patch, tests, command, hidden,
                   manifest, validators, host, integrity_changes>>

PatchProvided(r) == r.source \in {"proposed_patch", "single_finding"}

\* patch_applier.apply: a patch is applied, or refused as unsafe, protected or
\* inapplicable; without a patch text it is never applied.
ApplyRepair ==
    /\ stage = "patch"
    /\ IF PatchProvided(review)
       THEN \E outcome \in {"applied", "unsafe", "protected", "failed"} : patch' = outcome
       ELSE patch' = "failed"
    /\ stage' = IF patch' = "applied" /\ case.run_tests THEN "backend" ELSE "validators"
    /\ UNCHANGED <<request, review, given, tests, command, hidden,
                   manifest, validators, host, result, integrity_changes>>

-----------------------------------------------------------------------------
(* Executing the hidden tests against the repair. *)

\* The hidden tests are copied in and their manifest is taken, then execute()
\* chooses a backend.
ChooseBackend ==
    /\ stage = "backend"
    /\ hidden' = "original"
    /\ manifest' = "original"
    /\ \E choice \in BackendChoices :
        /\ tests' = choice
        /\ stage' = IF choice.execution_mode = "skipped" THEN "manifest" ELSE "command"
    /\ command' = 0
    /\ UNCHANGED <<request, review, given, patch, validators, host, result, integrity_changes>>

\* One argv command, run to an exit code or to its timeout.  The loop stops at
\* the first command that does not pass.  On the host the command may leave the
\* hidden tests different from what they were.
RunCommand(passed) ==
    /\ stage = "command"
    /\ command' = command + 1
    /\ tests' = [tests EXCEPT !.ran = TRUE, !.passed = passed]
    /\ IF tests.execution_mode = "local"
       THEN /\ host' = host \cup {"tests"}
            /\ \E content \in {"original", "edited"} : hidden' = content
       ELSE UNCHANGED <<host, hidden>>
    /\ stage' = IF passed /\ command' < case.commands THEN "command" ELSE "manifest"
    /\ UNCHANGED <<request, review, given, patch, manifest, validators, result, integrity_changes>>

\* The second file_manifest and manifest_changes; without a tests_dir there is
\* nothing to compare.
CompareManifests ==
    /\ stage = "manifest"
    /\ integrity_changes' = (case.tests_dir /\ hidden # manifest)
    /\ stage' = "validators"
    /\ UNCHANGED <<request, review, given, patch, tests, command,
                   hidden, manifest, validators, host, result>>

\* run_validators on the patched workspace.
RunValidators ==
    /\ stage = "validators"
    /\ IF patch = "applied" /\ case.structural_validators
       THEN \E outcome \in {"passed", "failed"} : validators' = outcome
       ELSE validators' = validators
    /\ stage' = "score"
    /\ UNCHANGED <<request, review, given, patch, tests, command,
                   hidden, manifest, host, result, integrity_changes>>

-----------------------------------------------------------------------------
(* The verdict. *)

When(condition, reason) == IF condition THEN {reason} ELSE {}

TestsRequired == case.run_tests \/ case.tests_required
ValidationEligible == TestsRequired \/ case.structural_validators
TestsPassed == tests.ran /\ tests.passed
AllBugsDetected == Cardinality(review.matched) >= case.bugs

\* Mutant of FailureReasons: a skipped test run is not a failed one.
ReasonsUnlessSkipped ==
    When(1 \notin review.matched, "detection_failed")
    \cup When(tests.ran /\ ~tests.passed, "tests_failed")
    \cup When(case.structural_validators /\ validators # "passed",
              "structural_validation_failed")
    \cup When(case.patch_required /\ patch # "applied", "patch_apply_failed")
    \cup When(Cardinality(review.false_positives) > case.max_false_positives, "false_positive")

\* score_deterministic_case's failure_reasons.
FailureReasons ==
    When(1 \notin review.matched, "detection_failed")
    \cup When(/\ 1 \in review.matched
              /\ case.detection_requirement = "all_bugs" /\ ~AllBugsDetected,
              "incomplete_bug_detection")
    \cup When(patch = "unsafe", "patch_unsafe_paths")
    \cup When(patch = "protected", "patch_touched_protected_files")
    \cup When(case.patch_required /\ ~PatchProvided(review), "patch_required_but_missing")
    \cup When(case.patch_required /\ patch # "applied", "patch_apply_failed")
    \cup When(TestsRequired /\ ~TestsPassed, "tests_failed")
    \cup When(case.structural_validators /\ validators # "passed",
              "structural_validation_failed")
    \cup When(Cardinality(review.false_positives) > case.max_false_positives, "false_positive")
    \cup When(case.patch_required /\ ~ValidationEligible, "no_execution_evidence")

\* Mutant of DeterministicReasons: tampering is only flagged, not folded in.
ReasonsWithoutTampering == FailureReasons

\* The stored score: tampering is folded into its reasons.
DeterministicReasons ==
    FailureReasons \cup When(integrity_changes, "test_integrity_violation")

Blocking == {"patch_required_but_missing", "patch_apply_failed", "tests_failed",
             "structural_validation_failed", "test_integrity_violation",
             "no_execution_evidence"}

\* execution_validated
ExecutionValidated == patch = "applied" /\ DeterministicReasons \cap Blocking = {}

\* _attribute_evidence's case_status.
CaseStatusOf ==
    IF integrity_changes THEN "tampering"
    ELSE IF ~(tests.ran \/ validators # "none") THEN "inconclusive"
    ELSE IF ExecutionValidated /\ AllBugsDetected THEN "complete_repair"
    ELSE IF ExecutionValidated THEN "partial_repair"
    ELSE IF review.matched # {} THEN "detected_but_unrepaired"
    ELSE "no_detection"

\* _attribute_evidence's status of the true-positive findings.
EvidenceOf == IF ExecutionValidated THEN "repair_validated" ELSE "detected_but_unrepaired"

\* _repair_confidence
RepairConfidence ==
    IF ~ExecutionValidated THEN "unvalidated"
    ELSE IF validators = "passed" THEN "strong"
    ELSE "basic"

\* case_backend
CaseBackend ==
    CASE tests.execution_mode = "docker" -> "docker"
      [] tests.execution_mode = "local" -> "trusted-local"
      [] OTHER -> "none"

\* The final CaseResult of patch/full mode.
Score ==
    /\ stage = "score"
    /\ result' = [kind |-> "scored",
                  deterministic_pass |-> DeterministicReasons = {},
                  validation_eligible |-> ValidationEligible,
                  case_status |-> CaseStatusOf,
                  evidence_status |-> EvidenceOf,
                  repair_confidence |-> RepairConfidence,
                  execution_backend |-> CaseBackend,
                  execution_unavailable |-> tests.error \in Unavailable]
    /\ stage' = "done"
    /\ UNCHANGED <<request, review, given, patch, tests, command, hidden, manifest,
                   integrity_changes, validators, host>>

\* Any step may raise; run_benchmark turns it into _failed_case_result.
Raise ==
    /\ stage # "done"
    /\ result' = IF mode = "review" THEN [kind |-> "errored"]
                 ELSE [kind |-> "errored", deterministic_pass |-> FALSE,
                       validation_eligible |-> ValidationEligible]
    /\ stage' = "done"
    /\ UNCHANGED <<request, review, given, patch, tests, command, hidden, manifest,
                   integrity_changes, validators, host>>

EvalStep ==
    \/ RunPreTest \/ RunStaticAnalysis \/ ReviewAndScore \/ ApplyRepair \/ ChooseBackend
    \/ \E passed \in BOOLEAN : RunCommand(passed)
    \/ CompareManifests \/ RunValidators \/ Score

\* The case is over: the runner goes on to the next one.
Finished == stage = "done" /\ UNCHANGED evalVars

EvalNext == EvalStep \/ Raise \/ Finished

EvalSpec == EvalInit /\ [][EvalNext]_evalVars

-----------------------------------------------------------------------------
TestResults ==
    [ran : BOOLEAN, passed : BOOLEAN,
     execution_mode : {"none", "skipped", "docker", "local"},
     error : {"none", "empty_test_command"} \cup Unavailable]

EvalTypeOK ==
    /\ case \in Cases
    /\ mode \in {"review", "full"}
    /\ allow_local \in BOOLEAN
    /\ stage \in Stages
    /\ review.status \in {"none", "exact", "tolerant", "repaired", "invalid"}
    /\ review.matched \subseteq 1..case.bugs
    /\ patch \in {"none", "applied", "unsafe", "protected", "failed"}
    /\ tests \in TestResults
    /\ command \in 0..case.commands
    /\ hidden \in {"original", "edited"}
    /\ manifest \in {"none", "original"}
    /\ integrity_changes \in BOOLEAN
    /\ validators \in {"none", "passed", "failed"}
    /\ host \subseteq {"pretest", "static", "tests"}

HasVerdict == result.kind = "scored"

\* Credit on the leaderboard metric is earned by execution: a case counted in
\* validated_case_rate (a validation-eligible deterministic_pass) detected what
\* it had to, and every gate the case configures ran on the applied repair and
\* passed, with the hidden tests as the pack ships them when the commands had
\* ended.  A case reported as
\* repaired, completely or in part, has a gate that ran and none that failed.
CreditIsEarned ==
    /\ (result.kind \in {"scored", "errored"} /\ mode = "full" /\ result.deterministic_pass
           /\ result.validation_eligible) =>
           /\ patch = "applied"
           /\ case.run_tests \/ validators = "passed"
           /\ case.run_tests => command = case.commands /\ tests.ran /\ tests.passed
           /\ case.structural_validators => validators = "passed"
           /\ case.tests_dir => hidden = "original"
           /\ 1 \in review.matched
           /\ case.detection_requirement = "all_bugs" => review.matched = 1..case.bugs
           /\ Cardinality(review.false_positives) <= case.max_false_positives
    /\ HasVerdict /\ result.case_status \in {"complete_repair", "partial_repair"} =>
           /\ patch = "applied"
           /\ tests.ran \/ validators # "none"
           /\ tests.ran => tests.passed
           /\ validators # "failed"

\* Pack commands (tests, static analysis) run on the host only with the
\* caller's opt-in, tests never for a case that names a Docker image, and a
\* repair that was tested on the host is on record as such, which is what keeps
\* its run off the leaderboard.
HostExecutionIsOnRecord ==
    /\ host # {} => allow_local
    /\ case.docker_image => host \subseteq {"static"}
    /\ HasVerdict => ("tests" \in host <=> result.execution_backend = "trusted-local")

\* Hidden tests that are not what the pack ships when the last command has ended
\* void everything the run could have shown: no pass, no validated finding, no
\* confidence.  (The manifests are of the state before and after the commands:
\* tests that a command changes and puts back are not noticed.)
ChangedTestsVoidTheRepair ==
    HasVerdict /\ case.tests_dir /\ hidden # "original" =>
        /\ result.case_status = "tampering"
        /\ ~result.deterministic_pass
        /\ result.evidence_status # "repair_validated"
        /\ result.repair_confidence = "unvalidated"

\* An answer counts as the reviewer gave it or not at all, unless salvage was
\* asked for and is on record: one that did not arrive whole finds nothing and
\* repairs nothing; of one recorded as exact or tolerant every finding was scored,
\* as a true positive, as neutral or as a false positive, and of competing patches
\* none is applied.  (A repaired answer may lose a finding
\* whose patch competed with another; such a run is never ranked.)
AnswersAreTakenWhole ==
    /\ ~given.delivered \/ review.status = "invalid" =>
         review.matched = {} /\ patch # "applied"
    /\ review.status \in {"tolerant", "repaired"} => given.enable_repair
    /\ review.status \in {"exact", "tolerant"} =>
         /\ review.true_positives \cup review.neutral \cup review.false_positives
              = 1..given.findings
         /\ given.patches > 1 /\ ~given.proposed_patch => patch # "applied"

=============================================================================
