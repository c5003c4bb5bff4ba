--------------------------- MODULE Certification ---------------------------
(***************************************************************************)
(* certify_pack and certify_case in arena/benchmark/certify.py, with       *)
(* run_mutation_test in arena/benchmark/mutation.py and fixed_solution in  *)
(* arena/benchmark/solution.py: what a pack is called after many separate  *)
(* executions of its tests.                                                *)
(*                                                                         *)
(* The suite is the environment.  Every execution may end differently from *)
(* the one before, the backend may be gone at any of them, and the         *)
(* reference patch may fail to apply each time the solution is built.      *)
(*                                                                         *)
(* The names are disjoint from those of PackAuthoring: PackAuthoringProofs *)
(* extends both.                                                           *)
(***************************************************************************)
EXTENDS Naturals, Sequences, FiniteSets

CONSTANTS
    NumCases,        \* cases of the pack
    MaxMutants,      \* bound on the mutants of a solution (mutation_limit)
    DeterminismRuns  \* the values of determinism_runs to try

ASSUME CertificationAssumption ==
    NumCases \in Nat \ {0} /\ MaxMutants \in Nat /\ DeterminismRuns \subseteq Nat

\* A TestExecutionResult by what is asked of it: not ran, passed, exit code 1,
\* another exit code, timed out.
Results == {"skipped", "passed", "failed", "error", "timeout"}

\* LEVELS, weakest first.
Levels == <<"draft", "development", "certified", "verified">>
Rank(level) == CHOOSE n \in 1..Len(Levels) : Levels[n] = level

VARIABLES
    runs,      \* determinism_runs
    pc,        \* the step of certify_case
    case,      \* the case: has tests, through pytest, mutants of its solution
    log,       \* history: the case's executions of each kind, in order
    cert,      \* its CaseCertification, as far as it is known
    finished,  \* the certifications of the cases before it
    intact     \* the snapshot still has its content

certifyVars == <<runs, pc, case, log, cert, finished, intact>>

NoCase == [executable |-> FALSE, pytest |-> FALSE, mutants |-> 0]
NoLog == [kind \in {"baseline", "reference", "mutant"} |-> <<>>]
Draft == [executable |-> FALSE, baseline_fails |-> FALSE, reference_passes |-> FALSE,
          mutant_total |-> 0, killed |-> 0, deterministic |-> FALSE]

CertifyInit ==
    /\ runs \in DeterminismRuns
    /\ pc = "next"
    /\ case = NoCase
    /\ log = NoLog
    /\ cert = Draft
    /\ finished = <<>>
    /\ intact = TRUE

-----------------------------------------------------------------------------
(* The gates. *)

\* Mutant of BaselineFails: any nonzero exit code of pytest is a failing test.
BaselineFailsAnyExit(result) == result \in {"failed", "error"}

\* _baseline_fails
BaselineFails(result) == result \in IF case.pytest THEN {"failed"} ELSE {"failed", "error"}

\* _reference_passes; "none" is a solution that could not be built.
ReferencePasses(result) == result = "passed"

\* mutation_adequate, with CERTIFIED_KILL_RATE of a half.
MutationAdequate(c) == c.mutant_total = 0 \/ 2 * c.killed >= c.mutant_total

Certified(c) ==
    c.executable /\ c.baseline_fails /\ c.reference_passes /\ MutationAdequate(c)

Level(c) ==
    IF ~c.executable THEN "draft"
    ELSE IF ~Certified(c) THEN "development"
    ELSE IF c.deterministic THEN "verified"
    ELSE "certified"

-----------------------------------------------------------------------------
(* certify_case *)

\* One execution of the given kind is over.
Ran(kind, result) == log' = [log EXCEPT ![kind] = Append(@, result)]

\* _run_tests_in on the solution of fixed_solution.
OnSolution == Results \cup {"none"}

StartCase ==
    /\ pc = "next"
    /\ Len(finished) < NumCases
    /\ \E c \in [executable : BOOLEAN, pytest : BOOLEAN, mutants : 0..MaxMutants] :
        /\ c.executable \/ c = NoCase
        /\ case' = c
        /\ pc' = IF c.executable THEN "baseline" ELSE "judged"
        /\ cert' = [Draft EXCEPT !.executable = c.executable]
    /\ log' = NoLog
    /\ UNCHANGED <<runs, finished, intact>>

\* Without a backend the case is reported as not executed.
Baseline(result) ==
    /\ pc = "baseline"
    /\ Ran("baseline", result)
    /\ pc' = IF result = "skipped" THEN "judged" ELSE "reference"
    /\ UNCHANGED <<runs, case, cert, finished, intact>>

Reference(result) ==
    /\ pc = "reference"
    /\ Ran("reference", result)
    /\ pc' = "solution"
    /\ UNCHANGED <<runs, case, cert, finished, intact>>

\* run_mutation_test builds the solution once more; it may have no mutants.
Solution(built) ==
    /\ pc = "solution"
    /\ case' = IF built THEN case ELSE [case EXCEPT !.mutants = 0]
    /\ pc' = "mutants"
    /\ UNCHANGED <<runs, log, cert, finished, intact>>

\* Only mutants that were executed count, and those the tests did not pass on
\* are killed.
Mutant(result) ==
    /\ pc = "mutants"
    /\ Len(log["mutant"]) < case.mutants
    /\ Ran("mutant", result)
    /\ cert' = IF result = "skipped" THEN cert
               ELSE [cert EXCEPT !.mutant_total = @ + 1,
                                 !.killed = IF result = "passed" THEN @ ELSE @ + 1]
    /\ UNCHANGED <<runs, pc, case, finished, intact>>

\* The certification of a single run; the determinism gate is opt-in and only
\* for a case that certified.
Certify ==
    /\ pc = "mutants"
    /\ Len(log["mutant"]) = case.mutants
    /\ cert' = [cert EXCEPT !.baseline_fails = BaselineFails(log["baseline"][1]),
                            !.reference_passes = ReferencePasses(log["reference"][1])]
    /\ pc' = IF Certified(cert') /\ runs >= 2 THEN "repeat_baseline" ELSE "judged"
    /\ UNCHANGED <<runs, case, log, finished, intact>>

\* _check_determinism: first the baseline, then the reference, and the first
\* verdict that does not hold ends it.
RepeatBaseline(result) ==
    /\ pc = "repeat_baseline"
    /\ Ran("baseline", result)
    /\ pc' = IF ~BaselineFails(result) THEN "judged"
             ELSE IF Len(log["baseline"]) = runs THEN "repeat_reference" ELSE pc
    /\ UNCHANGED <<runs, case, cert, finished, intact>>

\* The last of the repeated executions of the reference.
Settled == Len(log["reference"]) = runs

RepeatReference(result) ==
    /\ pc = "repeat_reference"
    /\ Ran("reference", result)
    /\ pc' = IF ~ReferencePasses(result) \/ Settled THEN "judged" ELSE pc
    /\ cert' = [cert EXCEPT !.deterministic = ReferencePasses(result) /\ Settled]
    /\ UNCHANGED <<runs, case, finished, intact>>

NextCase ==
    /\ pc = "judged"
    /\ finished' = Append(finished, cert)
    /\ pc' = "next"
    /\ case' = NoCase
    /\ log' = NoLog
    /\ cert' = Draft
    /\ UNCHANGED <<runs, intact>>

-----------------------------------------------------------------------------
(* certify_pack *)

Executable == {n \in 1..Len(finished) : finished[n].executable}

\* PackCertification.level
PackLevel ==
    IF Executable = {} THEN "draft"
    ELSE CHOOSE level \in {Level(finished[n]) : n \in Executable} :
            \A n \in Executable : Rank(level) <= Rank(Level(finished[n]))

\* snapshot.verify() after the last case.
Verify ==
    /\ pc = "next"
    /\ Len(finished) = NumCases
    /\ pc' = IF intact THEN "done" ELSE "raised"
    /\ UNCHANGED <<runs, case, log, cert, finished, intact>>

Ended == pc \in {"done", "raised"}

\* An exception in a case is not caught: the pack gets no certification.
Raise ==
    /\ ~Ended
    /\ pc' = "raised"
    /\ UNCHANGED <<runs, case, log, cert, finished, intact>>

\* Tests run with the snapshot's directory within reach.
Drift ==
    /\ ~Ended
    /\ intact
    /\ intact' = FALSE
    /\ UNCHANGED <<runs, pc, case, log, cert, finished>>

CertifyOver == Ended /\ UNCHANGED certifyVars

CertifyNext ==
    \/ StartCase
    \/ \E result \in Results : Baseline(result) \/ Mutant(result) \/ RepeatBaseline(result)
    \/ \E result \in OnSolution : Reference(result) \/ RepeatReference(result)
    \/ \E built \in BOOLEAN : Solution(built)
    \/ Certify \/ NextCase \/ Verify \/ Raise \/ Drift \/ CertifyOver

CertifySpec == CertifyInit /\ [][CertifyNext]_certifyVars

-----------------------------------------------------------------------------

Count(kind, set) == Cardinality({n \in DOMAIN log[kind] : log[kind][n] \in set})
All(kind, set) == Count(kind, set) = Len(log[kind])

\* A rung is earned by the executions that were made, however flaky the suite
\* and the backend are: a certified case has a first baseline in which tests
\* failed (exit code 1 under pytest, never an error or a timeout), a first
\* reference run that passed, and no majority of executed mutants that passed.
\* A verified one has only such runs, the asked repetitions of both on top.  A
\* pack is called no more than its weakest case with tests, and only when all
\* its cases were graded on one unchanged snapshot.
RungsAreEarned ==
    LET genuine == IF case.pytest THEN {"failed"} ELSE {"failed", "error"}
    IN  /\ pc = "judged" /\ Rank(Level(cert)) >= 3 =>
             /\ log["baseline"][1] \in genuine
             /\ log["reference"][1] = "passed"
             /\ Count("mutant", {"passed"}) <= Count("mutant", Results \ {"passed", "skipped"})
        /\ pc = "judged" /\ Level(cert) = "verified" =>
             /\ runs >= 2
             /\ Len(log["baseline"]) = runs + 1 /\ All("baseline", genuine)
             /\ Len(log["reference"]) = runs + 1 /\ All("reference", {"passed"})
        /\ pc = "done" =>
             /\ intact /\ Len(finished) = NumCases
             /\ \A n \in Executable : Rank(PackLevel) <= Rank(Level(finished[n]))

=============================================================================
