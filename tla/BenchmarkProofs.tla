--------------------------- MODULE BenchmarkProofs ---------------------------
(***************************************************************************)
(* CasesAccountedFor, WallOverrunIsOneCase, RankedRunsAreTrustworthy and   *)
(* DriftedRunsPublishNothing of BenchmarkRun for packs, budgets, timeouts  *)
(* and outcomes of any size; CreditIsEarned, HostExecutionIsOnRecord,      *)
(* ChangedTestsVoidTheRepair and AnswersAreTakenWhole of CaseEvaluation for  *)
(* any cases and answers; and that the cases the second evaluates end as   *)
(* the first lets them (Possible).                                         *)
(***************************************************************************)
EXTENDS BenchmarkRun, CaseEvaluation, FiniteSetTheorems, TLAPS

\* A case is under way.
Working == {"pretest", "static", "review", "patch", "tests", "record"}

\* The loop is over, or the run is.
After == {"verify", "publish", "done", "aborted"}

\* How far the loop is: the cases before `next` are evaluated or skipped, in
\* this order, and skipping begins with a tripped budget and never ends.
LoopInv ==
    /\ Len(results) + Len(skipped) = next - 1
    /\ \A i \in 1..Len(results) : results[i].case = i
    /\ \A i \in 1..Len(skipped) : skipped[i] = Len(results) + i
    /\ stopped = "none" => skipped = <<>>
    /\ pc \in Working => stopped = "none" /\ next <= NumCases
    /\ pc \in {"verify", "publish", "done"} => next = NumCases + 1

\* The clean-up of the slowest backend the pack uses.
MaxCleanUp == CleanUp(DockerCases # {})

\* The latest moment a stage can begin at, counted from the deadline as the
\* system's clock may show it.
Late(label) ==
    CASE label = "static" -> (Commands - 1) * Timeout + Second + MaxCleanUp
      [] label = "review" ->
           (Commands - 1) * Timeout + Second + MaxCleanUp + (Second + 3 * Grace)
      [] label = "patch" ->
           (Commands - 1) * Timeout + Second + MaxCleanUp + (Second + 3 * Grace) + MaxReview
      [] label = "tests" ->
           (Commands - 1) * Timeout + Second + MaxCleanUp + (Second + 3 * Grace) + MaxReview
             + MaxPatch
      [] OTHER -> LastCase

ClockInv ==
    MaxWall # NoLimit => /\ now <= MaxWall + MaxSkew + Late(pc)
                         /\ pc = "pretest" => now < MaxWall + MaxSkew

\* The summary is of the results as they are, and these are outcomes the
\* settings allow.
SummaryInv ==
    /\ \A i \in 1..Len(results) : Possible(results[i].outcome)
    /\ pc \notin {"validate", "aborted"} => settings.expected # "mismatch"
    /\ Summarised =>
         /\ pc \in After /\ next = NumCases + 1 /\ settings.expected # "mismatch"
         /\ run = [run_status |-> RunStatus,
                   execution_backend |-> RunBackend,
                   full_coverage |-> results # <<>> /\ skipped = <<>>,
                   pack_digest_externally_verified |-> settings.expected # "absent",
                   non_exact_output_used |-> Some(IsSalvaged)]

\* Nothing is published before the directory, and nothing else before the
\* snapshot was verified.
EvidenceInv ==
    /\ pc \in {"validate", "reserve"} => published = <<>>
    /\ pc \in Working \cup {"loop", "verify"} => Len(published) <= 1

IInv == TypeOK /\ LoopInv /\ ClockInv /\ SummaryInv /\ EvidenceInv

-----------------------------------------------------------------------------
(* Arithmetic of the wall budget. *)

LEMMA Monotone ==
    ASSUME NEW n \in Nat, NEW d \in Nat, NEW e \in Nat, d <= e PROVE n * d <= n * e
<1>1. n * e = n * d + n * (e - d) /\ n * (e - d) >= 0
  OBVIOUS
<1> QED
  BY <1>1

\* The commands of a stage that begins before the deadline: the last one of
\* them ends with its timeout, the ones before take at most Timeout each.
LEMMA CommandsFit ==
    ASSUME NEW t \in Nat, t <= Timeout
    PROVE  /\ Commands * t \in Nat /\ (Commands - 1) * Timeout \in Nat
           /\ Commands * t <= t + (Commands - 1) * Timeout
<1> USE RunAssumption
<1>1. (Commands - 1) * t <= (Commands - 1) * Timeout
  BY Monotone
<1>2. Commands * t = t + (Commands - 1) * t
  OBVIOUS
<1>3. Commands * t \in Nat /\ (Commands - 1) * Timeout \in Nat /\ (Commands - 1) * t \in Nat
  OBVIOUS
<1> QED
  BY <1>1, <1>2, <1>3

\* Commands on the host are cleaned up after as fast as in Docker, or faster.
LEMMA CleanUpFact ==
    /\ MaxCleanUp \in Nat
    /\ \A c : CleanUp(c \in DockerCases) \in Nat /\ CleanUp(c \in DockerCases) <= MaxCleanUp
<1> USE RunAssumption
<1> DEFINE W == (Commands - 1) * (2 * Grace) + 2 * Grace
<1>1. W \in Nat
  <2>1. Commands - 1 \in Nat /\ 2 * Grace \in Nat
    OBVIOUS
  <2>2. (Commands - 1) * (2 * Grace) \in Nat
    BY <2>1
  <2> QED
    BY <2>1, <2>2
<1>2. /\ MaxCleanUp = W + (IF DockerCases # {} THEN RmTimeout + 3 * MaxProbe ELSE Grace)
      /\ \A c : CleanUp(c \in DockerCases)
                  = W + (IF c \in DockerCases THEN RmTimeout + 3 * MaxProbe ELSE Grace)
  BY DEF CleanUp, MaxCleanUp
<1> HIDE DEF W
<1>3. MaxCleanUp \in Nat
  BY <1>1, <1>2
<1>4. ASSUME NEW c
      PROVE  CleanUp(c \in DockerCases) \in Nat /\ CleanUp(c \in DockerCases) <= MaxCleanUp
  <2>1. CASE c \in DockerCases
    <3>1. /\ MaxCleanUp = W + (RmTimeout + 3 * MaxProbe)
          /\ CleanUp(c \in DockerCases) = W + (RmTimeout + 3 * MaxProbe)
      BY <1>2, <2>1
    <3> QED
      BY <1>1, <3>1
  <2>2. CASE c \notin DockerCases
    <3>1. /\ CleanUp(c \in DockerCases) = W + Grace
          /\ MaxCleanUp \in {W + (RmTimeout + 3 * MaxProbe), W + Grace}
      BY <1>2, <2>2
    <3> QED
      BY <1>1, <3>1
  <2> QED
    BY <2>1, <2>2
<1> QED
  BY <1>3, <1>4

\* int() cuts off what is more than a whole number of seconds.
LEMMA TimeoutFact ==
    ASSUME TypeOK, MaxWall # NoLimit
    PROVE  /\ MaxWall \in Nat /\ EffectiveTimeout \in 0..Timeout
           /\ now < MaxWall => now + EffectiveTimeout <= MaxWall + Second
           /\ now >= MaxWall => EffectiveTimeout = Second
<1> USE RunAssumption
<1>1. MaxWall \in Nat /\ now \in Nat
  BY DEF TypeOK, Settings, MaxWall
<1> DEFINE left == MaxWall - now
           rest == left % Second
<1>2. left \in Int /\ rest \in 0..(Second - 1)
  <2>1. left \in Int
    BY <1>1
  <2> QED
    BY <2>1
<1>3. EffectiveTimeout = IF left < Second THEN Second
                         ELSE IF left < Timeout THEN left - rest ELSE Timeout
  BY DEF EffectiveTimeout
<1>4. now + left = MaxWall
  BY <1>1
<1> HIDE DEF left, rest
<1> QED
  BY <1>1, <1>2, <1>3, <1>4

LEMMA LateFact ==
    /\ LastCase = (Commands - 1) * Timeout + Second + MaxCleanUp + (Second + 3 * Grace) + MaxReview
                    + MaxPatch + (Commands * Second + MaxCleanUp)
    /\ (Commands - 1) * Timeout \in Nat /\ Commands * Second \in Nat /\ LastCase \in Nat
    /\ \A label : Late(label) \in Nat /\ Late(label) <= LastCase
<1> USE RunAssumption
<1> DEFINE K == (Commands - 1) * Timeout
           C == Commands * Second
<1>1. K \in Nat /\ C \in Nat /\ MaxCleanUp \in Nat
  <2>1. Commands - 1 \in Nat
    OBVIOUS
  <2>2. K \in Nat /\ C \in Nat
    BY <2>1
  <2> QED
    BY <2>2, CleanUpFact
<1>2. LastCase = (K + Second + MaxCleanUp) + (Second + 3 * Grace) + MaxReview + MaxPatch
                   + (C + MaxCleanUp)
  BY DEF LastCase, MaxCleanUp
<1>3. \A label : Late(label) \in
        {K + Second + MaxCleanUp, K + Second + MaxCleanUp + (Second + 3 * Grace),
         K + Second + MaxCleanUp + (Second + 3 * Grace) + MaxReview,
         K + Second + MaxCleanUp + (Second + 3 * Grace) + MaxReview + MaxPatch, LastCase}
  BY DEF Late, K
<1> HIDE DEF K, C
<1>4. LastCase \in Nat
  BY <1>1, <1>2
<1>5. LastCase = K + Second + MaxCleanUp + (Second + 3 * Grace) + MaxReview + MaxPatch
                   + (C + MaxCleanUp)
  BY <1>1, <1>2
<1>6. \A label : Late(label) \in Nat /\ Late(label) <= LastCase
  BY <1>1, <1>3, <1>4, <1>5
<1> QED
  BY <1>1, <1>4, <1>5, <1>6 DEF K, C

\* Each stage, begun as late as it may, is over when the next may begin.
LEMMA StageEnds ==
    ASSUME IInv, Elapse, MaxWall # NoLimit
    PROVE  /\ MaxWall \in Nat /\ now' \in Nat
           /\ pc = "pretest" => now' <= MaxWall + MaxSkew + Late("static")
           /\ pc = "static" => now' <= MaxWall + MaxSkew + Late("review")
           /\ pc = "review" => now' <= MaxWall + MaxSkew + Late("patch")
           /\ pc = "patch" => now' <= MaxWall + MaxSkew + Late("tests")
           /\ pc \in {"tests", "record"} => now' <= MaxWall + MaxSkew + LastCase
<1> USE RunAssumption
<1> DEFINE K == (Commands - 1) * Timeout
           C == Commands * Second
           W == CleanUp(next \in DockerCases)
           F == K + Second + MaxCleanUp
           T == EffectiveTimeout
<1>1. /\ TypeOK /\ now \in Nat /\ MaxWall \in Nat
      /\ T \in Nat /\ T <= Timeout
      /\ now < MaxWall => now + T <= MaxWall + Second
      /\ now >= MaxWall => T = Second
  BY TimeoutFact DEF IInv, TypeOK
<1>2. /\ K \in Nat /\ C \in Nat /\ LastCase \in Nat
      /\ LastCase = F + (Second + 3 * Grace) + MaxReview + MaxPatch + (C + MaxCleanUp)
  BY LateFact
<1>3. /\ Late("static") = F
      /\ Late("review") = F + (Second + 3 * Grace)
      /\ Late("patch") = F + (Second + 3 * Grace) + MaxReview
      /\ Late("tests") = F + (Second + 3 * Grace) + MaxReview + MaxPatch
      /\ Late("record") = LastCase
  BY DEF Late
<1>4. /\ Commands * T \in Nat /\ Commands * T <= T + K
      /\ Second <= Timeout /\ C <= Second + K
      /\ now >= MaxWall => Commands * T = C
  BY <1>1, CommandsFit
<1>5. W \in Nat /\ MaxCleanUp \in Nat /\ W <= MaxCleanUp
  BY CleanUpFact
<1>6. /\ now <= MaxWall + MaxSkew + Late(pc)
      /\ pc = "pretest" => now < MaxWall + MaxSkew
  BY DEF IInv, ClockInv
<1>7. PICK d \in 0..Longest : now' = now + d
  BY DEF Elapse
<1>8. /\ pc \in {"pretest", "tests"} => Longest = Commands * T + W
      /\ pc = "static" => Longest = T + 3 * Grace
      /\ pc = "review" => Longest = MaxReview
      /\ pc = "patch" => Longest = MaxPatch
      /\ pc = "record" => Longest = 0
  BY DEF Longest
<1>9. now' \in Nat
  BY <1>1, <1>7
<1> HIDE DEF K, C, W, T
<1>10. F \in Nat
  BY <1>2, <1>5
<1>11. ASSUME pc = "pretest" PROVE now' <= MaxWall + MaxSkew + F
  <2>1. now' <= now + (Commands * T + W)
    BY <1>1, <1>4, <1>5, <1>7, <1>8, <1>11
  <2>2. CASE now < MaxWall
    BY <1>1, <1>2, <1>4, <1>5, <1>9, <2>1, <2>2
  <2>3. CASE now >= MaxWall
    BY <1>1, <1>2, <1>4, <1>5, <1>6, <1>9, <1>11, <2>1, <2>3
  <2> QED
    BY <1>1, <2>2, <2>3
<1>12. ASSUME pc = "static" PROVE now' <= MaxWall + MaxSkew + (F + (Second + 3 * Grace))
  <2>1. now' <= now + (T + 3 * Grace) /\ now <= MaxWall + MaxSkew + F
    BY <1>1, <1>3, <1>6, <1>7, <1>8, <1>12
  <2> QED
    BY <1>1, <1>9, <1>10, <2>1
<1>13. ASSUME pc = "tests" PROVE now' <= MaxWall + MaxSkew + LastCase
  <2>1. /\ now' <= now + (Commands * T + W)
        /\ now <= MaxWall + MaxSkew + (F + (Second + 3 * Grace) + MaxReview + MaxPatch)
    BY <1>1, <1>3, <1>4, <1>5, <1>6, <1>7, <1>8, <1>13
  <2>2. CASE now < MaxWall
    <3>1. now' <= MaxWall + F
      BY <1>1, <1>2, <1>4, <1>5, <1>9, <2>1, <2>2
    <3> QED
      BY <1>1, <1>2, <1>5, <1>9, <1>10, <3>1
  <2>3. CASE now >= MaxWall
    <3> HIDE DEF F
    <3> QED
      BY <1>1, <1>2, <1>4, <1>5, <1>9, <1>10, <2>1, <2>3
  <2> QED
    BY <1>1, <2>2, <2>3
<1> HIDE DEF F
<1>14. /\ pc = "review" => now' <= MaxWall + MaxSkew + Late("patch")
       /\ pc = "patch" => now' <= MaxWall + MaxSkew + Late("tests")
       /\ pc = "record" => now' <= MaxWall + MaxSkew + LastCase
  BY <1>1, <1>2, <1>3, <1>6, <1>7, <1>8, <1>9, <1>10
<1> QED
  BY <1>1, <1>3, <1>9, <1>11, <1>12, <1>13, <1>14

-----------------------------------------------------------------------------

LEMMA InitIInv == Init => IInv
<1> SUFFICES ASSUME Init PROVE IInv
  OBVIOUS
<1> USE RunAssumption DEF Init
<1>1. TypeOK
  <2>1. intact \in BOOLEAN
    OBVIOUS
  <2> QED
    BY <2>1 DEF TypeOK
<1>2. LoopInv
  BY DEF LoopInv, Working
<1>3. ClockInv
  <2> SUFFICES ASSUME MaxWall # NoLimit PROVE now <= MaxWall + MaxSkew + Late(pc)
    BY DEF ClockInv
  <2>1. Late(pc) \in Nat /\ MaxWall \in Nat
    BY <1>1, LateFact, TimeoutFact
  <2> QED
    BY <2>1
<1>4. SummaryInv
  BY DEF SummaryInv, Summarised, NoRun
<1>5. EvidenceInv
  BY DEF EvidenceInv, Working
<1> QED
  BY <1>1, <1>2, <1>3, <1>4, <1>5 DEF IInv

\* The summary and the possible outcomes depend on the settings and the results.
LEMMA SameSummary ==
    ASSUME UNCHANGED <<settings, results, skipped>>
    PROVE  /\ RunStatus' = RunStatus /\ RunBackend' = RunBackend
           /\ Some(IsSalvaged)' = Some(IsSalvaged)
           /\ \A o : Possible(o)' <=> Possible(o)
<1>1. /\ Some(IsLocal)' <=> Some(IsLocal)
      /\ Some(IsDocker)' <=> Some(IsDocker)
      /\ Some(IsUnavailable)' <=> Some(IsUnavailable)
      /\ Some(IsSalvaged)' <=> Some(IsSalvaged)
  BY DEF Some, IsLocal, IsDocker, IsUnavailable, IsSalvaged
<1>2. \A o : Possible(o)' <=> Possible(o)
  BY DEF Possible, EffectiveAllowLocal
<1>3. RunStatus' = RunStatus
  BY <1>1 DEF RunStatus
<1>4. RunBackend' = RunBackend
  BY <1>1 DEF RunBackend
<1>5. Some(IsSalvaged)' = Some(IsSalvaged)
  BY DEF Some, IsSalvaged
<1> QED
  BY <1>2, <1>3, <1>4, <1>5

\* A step that evaluates and skips nothing.
LEMMA QuietStep ==
    ASSUME IInv, UNCHANGED <<settings, next, results, skipped, stopped, run>>,
           pc' \in Working => stopped = "none" /\ next <= NumCases,
           pc' \in {"verify", "publish", "done"} => next = NumCases + 1,
           pc' \notin {"validate", "aborted"} => settings.expected # "mismatch",
           Summarised => pc' \in After
    PROVE  LoopInv' /\ SummaryInv'
<1> USE DEF IInv
<1>1. LoopInv'
  BY DEF LoopInv
<1>2. SummaryInv'
  <2>1. \A i \in 1..Len(results') : Possible(results[i].outcome)'
    BY SameSummary DEF SummaryInv
  <2>2. Summarised' <=> Summarised
    BY DEF Summarised
  <2>3. Summarised =>
         /\ pc' \in After /\ next' = NumCases + 1 /\ settings'.expected # "mismatch"
         /\ run' = [run_status |-> RunStatus',
                    execution_backend |-> RunBackend',
                    full_coverage |-> results' # <<>> /\ skipped' = <<>>,
                    pack_digest_externally_verified |-> settings'.expected # "absent",
                    non_exact_output_used |-> Some(IsSalvaged)']
    <3>1. Some(IsSalvaged)' = Some(IsSalvaged) /\ RunStatus' = RunStatus /\ RunBackend' = RunBackend
      BY SameSummary
    <3>2. Summarised =>
            /\ next = NumCases + 1 /\ settings.expected # "mismatch"
            /\ run = [run_status |-> RunStatus,
                      execution_backend |-> RunBackend,
                      full_coverage |-> results # <<>> /\ skipped = <<>>,
                      pack_digest_externally_verified |-> settings.expected # "absent",
                      non_exact_output_used |-> Some(IsSalvaged)]
      BY DEF SummaryInv
    <3> QED
      BY <3>1, <3>2, Zenon
  <2> QED
    BY <2>1, <2>2, <2>3 DEF SummaryInv
<1> QED
  BY <1>1, <1>2

\* A step that takes no time may lead out of a case at any moment.
LEMMA NoTime ==
    ASSUME IInv, UNCHANGED <<settings, now>>, pc' \notin Working
    PROVE  ClockInv'
<1> SUFFICES ASSUME MaxWall # NoLimit PROVE now <= MaxWall + MaxSkew + Late(pc')
  <2>1. MaxWall' = MaxWall /\ Late(pc)' = Late(pc')
    BY DEF MaxWall, Late
  <2> QED
    BY <2>1 DEF ClockInv, Working
<1>1. now \in Nat /\ MaxWall \in Nat /\ now <= MaxWall + MaxSkew + Late(pc)
  BY TimeoutFact DEF IInv, TypeOK, ClockInv
<1>2. Late(pc') = LastCase
  BY DEF Late, Working
<1> QED
  BY <1>1, <1>2, LateFact, RunAssumption

-----------------------------------------------------------------------------
(* Before and after the loop. *)

LEMMA EdgeStep ==
    ASSUME IInv, Validate \/ Reserve \/ Verify \/ Publish \/ Return \/ Crash \/ SnapshotDrifts
    PROVE  IInv'
<1> USE RunAssumption
<1>1. UNCHANGED <<settings, now, next, results, skipped, stopped, cost, run>>
  BY DEF Validate, Reserve, Verify, Publish, Return, Crash, SnapshotDrifts
<1>2. \/ pc = "validate" /\ pc' = "reserve" /\ settings.expected # "mismatch"
      \/ pc = "reserve" /\ pc' = "loop"
      \/ pc \in {"verify", "publish"} /\ pc' \in {"publish", "done"}
      \/ pc' = "aborted"
      \/ pc' = pc
  BY DEF Validate, Reserve, Verify, Publish, Return, Crash, SnapshotDrifts
<1>3. TypeOK'
  <2>1. intact' \in BOOLEAN
    BY DEF IInv, TypeOK, Validate, Reserve, Verify, Publish, Return, Crash, SnapshotDrifts
  <2>2. published' \in Seq(Evidence)
    <3>1. CASE Publish
      <4>1. Len(published) + 1 \in 1..Len(Artifacts)
        BY <3>1 DEF Publish, IInv, TypeOK
      <4>2. Artifacts \in Seq(Evidence)
        <5>1. <<"run_dir", "run.json", "report.md", "report.html", "run_manifest",
                "bundle", "latest.json">> \in Seq(Evidence)
          <6>1. /\ "run_dir" \in Evidence /\ "run.json" \in Evidence /\ "report.md" \in Evidence
                /\ "report.html" \in Evidence /\ "run_manifest" \in Evidence
                /\ "bundle" \in Evidence /\ "latest.json" \in Evidence
            BY DEF Evidence
          <6> QED
            BY <6>1
        <5>2. (IF settings.persist THEN <<"database">> ELSE <<>>) \in Seq(Evidence)
          <6>1. "database" \in Evidence
            BY DEF Evidence
          <6> QED
            BY <6>1
        <5> QED
          BY <5>1, <5>2 DEF Artifacts
      <4>3. Artifacts[Len(published) + 1] \in Evidence
        BY <4>1, <4>2
      <4> QED
        BY <3>1, <4>3 DEF Publish, IInv, TypeOK
    <3>2. CASE Reserve
      BY <3>2 DEF Reserve, IInv, TypeOK, Evidence
    <3>3. CASE Validate \/ Verify \/ Return \/ Crash \/ SnapshotDrifts
      BY <3>3 DEF IInv, TypeOK, Validate, Verify, Return, Crash, SnapshotDrifts
    <3> QED
      BY <3>1, <3>2, <3>3
  <2>3. pc' \in {"validate", "reserve", "loop", "pretest", "static", "review", "patch",
                 "tests", "record", "verify", "publish", "done", "aborted"}
    BY <1>2 DEF IInv, TypeOK
  <2> QED
    BY <1>1, <2>1, <2>2, <2>3 DEF IInv, TypeOK
<1>4. LoopInv' /\ SummaryInv'
  <2>1. pc' \in Working => stopped = "none" /\ next <= NumCases
    BY <1>2 DEF IInv, LoopInv, Working
  <2>2. pc' \in {"verify", "publish", "done"} => next = NumCases + 1
    BY <1>2 DEF IInv, LoopInv
  <2>3. pc' \notin {"validate", "aborted"} => settings.expected # "mismatch"
    BY <1>2 DEF IInv, SummaryInv
  <2>4. Summarised => pc' \in After
    BY <1>2 DEF IInv, SummaryInv, After
  <2> QED
    BY <1>1, <2>1, <2>2, <2>3, <2>4, QuietStep
<1>5. ClockInv'
  <2>1. CASE pc' = pc
    BY <1>1, <2>1 DEF IInv, ClockInv, Late, MaxWall
  <2>2. CASE pc' # pc
    BY <1>1, <1>2, <2>2, NoTime DEF Working
  <2> QED
    BY <2>1, <2>2
<1>6. EvidenceInv'
  <2>1. CASE Publish
    BY <2>1 DEF Publish, EvidenceInv, Working
  <2>2. CASE Reserve
    BY <2>2 DEF Reserve, IInv, EvidenceInv, Working
  <2>3. CASE Validate \/ Verify \/ Return \/ Crash \/ SnapshotDrifts
    <3>1. published' = published
      BY <2>3 DEF Validate, Verify, Return, Crash, SnapshotDrifts
    <3>2. pc' = pc \/ pc' \in {"publish", "done", "aborted"} \/ (pc' = "reserve" /\ pc = "validate")
      BY <2>3 DEF Validate, Verify, Return, Crash, SnapshotDrifts
    <3> QED
      BY <3>1, <3>2 DEF IInv, EvidenceInv, Working
  <2> QED
    BY <2>1, <2>2, <2>3
<1> QED
  BY <1>3, <1>4, <1>5, <1>6 DEF IInv

-----------------------------------------------------------------------------
(* The loop. *)

LEMMA StartCaseStep ==
    ASSUME IInv, StartCase PROVE IInv'
<1> USE RunAssumption DEF StartCase
<1>1. PICK elapsed \in Elapsed : StopReason(elapsed) = "none"
  OBVIOUS
<1>7. stopped = "none" /\ ~(MaxWall # NoLimit /\ elapsed >= MaxWall)
  BY <1>1 DEF StopReason
<1>2. pc' \in {"pretest", "review"}
  OBVIOUS
<1>3. TypeOK'
  BY <1>2 DEF IInv, TypeOK
<1>4. LoopInv' /\ SummaryInv'
  <2>1. ~Summarised
    BY DEF IInv, SummaryInv, After
  <2>2. settings.expected # "mismatch"
    BY DEF IInv, SummaryInv
  <2> QED
    BY <1>2, <1>7, <2>1, <2>2, QuietStep
<1>5. ClockInv'
  <2> SUFFICES ASSUME MaxWall # NoLimit
               PROVE  now < MaxWall + MaxSkew /\ now <= MaxWall + MaxSkew + Late(pc')
    <3>1. MaxWall' = MaxWall /\ Late(pc)' = Late(pc')
      BY DEF MaxWall, Late
    <3> QED
      BY <3>1 DEF ClockInv
  <2>1. MaxWall \in Nat /\ Late(pc') \in Nat /\ now \in Nat
    BY LateFact, TimeoutFact DEF IInv, TypeOK
  <2>2. now < MaxWall + MaxSkew
    BY <1>1, <1>7, <2>1 DEF Elapsed
  <2> QED
    BY <2>1, <2>2
<1>6. EvidenceInv'
  BY <1>2 DEF IInv, EvidenceInv, Working
<1> QED
  BY <1>3, <1>4, <1>5, <1>6 DEF IInv

LEMMA WorkStep ==
    ASSUME IInv, PreTest \/ StaticAnalysis \/ Review \/ ApplyPatch \/ Tests PROVE IInv'
<1> USE RunAssumption
<1>1. /\ Elapse
      /\ UNCHANGED <<settings, next, results, skipped, stopped, cost, intact, run, published>>
      /\ \/ pc = "pretest" /\ pc' = "static"
         \/ pc = "static" /\ pc' = "review"
         \/ pc = "review" /\ pc' \in {"patch", "record"}
         \/ pc = "patch" /\ pc' = "tests"
         \/ pc = "tests" /\ pc' = "record"
  BY DEF PreTest, StaticAnalysis, Review, ApplyPatch, Tests, Stage
<1>2. pc \in Working /\ pc' \in Working \ {"pretest"}
  BY <1>1 DEF Working
<1>3. TypeOK'
  <2>1. now' \in Nat
    BY <1>1 DEF Elapse, IInv, TypeOK
  <2>2. pc' \in {"validate", "reserve", "loop", "pretest", "static", "review", "patch",
                 "tests", "record", "verify", "publish", "done", "aborted"}
    BY <1>1
  <2> QED
    BY <1>1, <2>1, <2>2 DEF IInv, TypeOK
<1>4. LoopInv' /\ SummaryInv'
  <2>1. stopped = "none" /\ next <= NumCases
    BY <1>2 DEF IInv, LoopInv
  <2>2. ~Summarised
    BY <1>2 DEF IInv, SummaryInv, After, Working
  <2>3. settings.expected # "mismatch"
    BY <1>2 DEF IInv, SummaryInv, Working
  <2>4. pc' \notin {"verify", "publish", "done"}
    BY <1>1
  <2> QED
    BY <1>1, <2>1, <2>2, <2>3, <2>4, QuietStep
<1>5. ClockInv'
  <2> SUFFICES ASSUME MaxWall # NoLimit PROVE now' <= MaxWall + MaxSkew + Late(pc')
    <3>1. MaxWall' = MaxWall /\ Late(pc)' = Late(pc')
      BY <1>1 DEF MaxWall, Late
    <3> QED
      BY <1>2, <3>1 DEF ClockInv
  <2>1. Late("record") = LastCase /\ Late("patch") \in Nat /\ LastCase \in Nat
        /\ Late("patch") <= LastCase
    BY LateFact DEF Late
  <2>2. /\ MaxWall \in Nat /\ now' \in Nat
        /\ pc = "pretest" => now' <= MaxWall + MaxSkew + Late("static")
        /\ pc = "static" => now' <= MaxWall + MaxSkew + Late("review")
        /\ pc = "review" => now' <= MaxWall + MaxSkew + Late("patch")
        /\ pc = "patch" => now' <= MaxWall + MaxSkew + Late("tests")
        /\ pc = "tests" => now' <= MaxWall + MaxSkew + LastCase
    BY <1>1, StageEnds
  <2>3. CASE pc = "review" /\ pc' = "record"
    BY <2>1, <2>2, <2>3
  <2> QED
    BY <1>1, <2>1, <2>2, <2>3
<1>6. EvidenceInv'
  BY <1>1, <1>2 DEF IInv, EvidenceInv, Working
<1> QED
  BY <1>3, <1>4, <1>5, <1>6 DEF IInv

LEMMA SkipCaseStep ==
    ASSUME IInv, SkipCase PROVE IInv'
<1> USE RunAssumption DEF SkipCase
<1>1. stopped' \in {"max_wall_seconds", "max_cost"}
  BY DEF StopReason, IInv, TypeOK
<1>2. next \in 1..NumCases
  BY DEF IInv, TypeOK
<1>3. TypeOK'
  <2>1. skipped' \in Seq(1..NumCases)
    BY <1>2 DEF IInv, TypeOK
  <2>2. next' \in 1..(NumCases + 1)
    BY <1>2
  <2> QED
    BY <1>1, <2>1, <2>2 DEF IInv, TypeOK
<1>4. LoopInv'
  <2>1. /\ Len(skipped') = Len(skipped) + 1
        /\ skipped'[Len(skipped) + 1] = next
        /\ \A i \in 1..Len(skipped) : skipped'[i] = skipped[i]
    BY DEF IInv, TypeOK
  <2>2. Len(results) \in Nat /\ Len(skipped) \in Nat
    BY DEF IInv, TypeOK
  <2>3. Len(results') + Len(skipped') = next' - 1
    BY <1>2, <2>1, <2>2 DEF IInv, LoopInv
  <2>4. \A i \in 1..Len(skipped') : skipped'[i] = Len(results') + i
    <3> SUFFICES ASSUME NEW i \in 1..Len(skipped') PROVE skipped'[i] = Len(results) + i
      OBVIOUS
    <3>1. CASE i = Len(skipped) + 1
      BY <1>2, <2>1, <2>2, <3>1 DEF IInv, LoopInv
    <3>2. CASE i \in 1..Len(skipped)
      BY <2>1, <3>2 DEF IInv, LoopInv
    <3> QED
      BY <2>1, <2>2, <3>1, <3>2
  <2> QED
    BY <1>1, <2>3, <2>4 DEF IInv, LoopInv, Working
<1>5. SummaryInv'
  <2>1. ~Summarised /\ Summarised' = Summarised
    BY DEF IInv, SummaryInv, After, Summarised
  <2>2. \A o : Possible(o)' <=> Possible(o)
    BY DEF Possible, EffectiveAllowLocal
  <2> QED
    BY <2>1, <2>2 DEF IInv, SummaryInv
<1>6. ClockInv'
  BY NoTime DEF Working
<1>7. EvidenceInv'
  BY DEF IInv, EvidenceInv, Working
<1> QED
  BY <1>3, <1>4, <1>5, <1>6, <1>7 DEF IInv

\* A case ends with a result, its own or the one of a failed case.
LEMMA ResultStep ==
    ASSUME IInv, NEW o \in CaseOutcomes, Possible(o), pc \in Working, pc' = "loop",
           results' = Append(results, [case |-> next, outcome |-> o]), next' = next + 1,
           cost' \in Nat, now' \in Nat,
           MaxWall # NoLimit => now' <= MaxWall + MaxSkew + LastCase,
           UNCHANGED <<settings, skipped, stopped, intact, run, published>>
    PROVE  IInv'
<1> USE RunAssumption
<1>1. next \in 1..NumCases /\ stopped = "none" /\ skipped = <<>>
  BY DEF IInv, TypeOK, LoopInv
<1>2. [case |-> next, outcome |-> o] \in [case : 1..NumCases, outcome : CaseOutcomes]
  BY <1>1
<1>3. TypeOK'
  <2>1. results' \in Seq([case : 1..NumCases, outcome : CaseOutcomes])
    BY <1>2 DEF IInv, TypeOK
  <2> QED
    BY <1>1, <2>1 DEF IInv, TypeOK
<1>4. /\ Len(results) \in Nat /\ Len(results') = Len(results) + 1
      /\ results'[Len(results) + 1] = [case |-> next, outcome |-> o]
      /\ \A i \in 1..Len(results) : results'[i] = results[i]
  BY <1>2 DEF IInv, TypeOK
<1>5. \A i \in 1..Len(results') : i \in 1..Len(results) \/ i = Len(results) + 1
  BY <1>4
<1>6. LoopInv'
  <2>1. Len(results) = next - 1
    BY <1>1, <1>4 DEF IInv, LoopInv
  <2>2. \A i \in 1..Len(results') : results'[i].case = i
    BY <1>1, <1>4, <1>5, <2>1 DEF IInv, LoopInv
  <2>3. Len(results') + Len(skipped') = next' - 1
    BY <1>1, <1>4, <2>1
  <2> QED
    BY <1>1, <2>2, <2>3 DEF LoopInv, Working
<1>7. SummaryInv'
  <2>1. ~Summarised /\ Summarised' = Summarised
    BY DEF IInv, SummaryInv, After, Working, Summarised
  <2>2. \A x : Possible(x)' <=> Possible(x)
    BY DEF Possible, EffectiveAllowLocal
  <2>3. \A i \in 1..Len(results') : Possible(results'[i].outcome)
    BY <1>4, <1>5 DEF IInv, SummaryInv
  <2>4. settings'.expected # "mismatch"
    BY DEF IInv, SummaryInv, Working
  <2>5. \A i \in 1..Len(results') : Possible(results[i].outcome)'
    BY <2>2, <2>3 DEF Possible, EffectiveAllowLocal
  <2> QED
    BY <2>1, <2>4, <2>5 DEF SummaryInv
<1>8. ClockInv'
  BY DEF ClockInv, MaxWall, Late
<1>9. EvidenceInv'
  BY DEF IInv, EvidenceInv
<1> QED
  BY <1>3, <1>6, <1>7, <1>8, <1>9 DEF IInv

LEMMA CaseEndsStep ==
    ASSUME IInv, RecordResult \/ CaseRaises PROVE IInv'
<1>1. cost \in Nat /\ now \in Nat
  BY DEF IInv, TypeOK
<1>2. CASE RecordResult
  <2>1. PICK o \in Outcomes :
           /\ Possible(o)
           /\ results' = Append(results, [case |-> next, outcome |-> o])
           /\ cost' = cost + o.estimated_cost
    BY <1>2 DEF RecordResult
  <2>2. o \in CaseOutcomes
    BY OutcomesAssumption
  <2>3. cost' \in Nat
    BY <1>1, <2>1, <2>2 DEF CaseOutcomes
  <2>4. MaxWall # NoLimit => now' <= MaxWall + MaxSkew + LastCase
    BY <1>2 DEF RecordResult, IInv, ClockInv, Late
  <2> QED
    BY <1>1, <1>2, <2>1, <2>2, <2>3, <2>4, ResultStep DEF RecordResult, Working
<1>3. CASE CaseRaises
  <2>1. FailedCase \in CaseOutcomes /\ Possible(FailedCase)
    BY DEF FailedCase, CaseOutcomes, Possible
  <2>2. now' \in Nat
    BY <1>1, <1>3 DEF CaseRaises, Elapse
  <2>3. ASSUME MaxWall # NoLimit PROVE now' <= MaxWall + MaxSkew + LastCase
    <3>1. Elapse /\ pc \in {"pretest", "static", "review", "patch", "tests", "record"}
      BY <1>3 DEF CaseRaises
    <3>2. MaxWall \in Nat /\ \E label : now' <= MaxWall + MaxSkew + Late(label)
      <4>1. Late("record") = LastCase
        BY DEF Late
      <4> QED
        BY <2>3, <3>1, <4>1, StageEnds
    <3> QED
      BY <2>2, <3>2, LateFact, RunAssumption
  <2> QED
    BY <1>1, <1>3, <2>1, <2>2, <2>3, ResultStep DEF CaseRaises, Working
<1> QED
  BY <1>2, <1>3

LEMMA AggregateStep ==
    ASSUME IInv, Aggregate PROVE IInv'
<1> USE RunAssumption DEF Aggregate
<1>1. TypeOK'
  BY DEF IInv, TypeOK
<1>2. next = NumCases + 1
  BY DEF IInv, TypeOK
<1>3. LoopInv'
  BY <1>2 DEF IInv, LoopInv, Working
<1>4. SummaryInv'
  <2>1. \A i \in 1..Len(results') : Possible(results[i].outcome)'
    BY SameSummary DEF IInv, SummaryInv
  <2>2. settings'.expected # "mismatch"
    BY DEF IInv, SummaryInv
  <2>3. run' = [run_status |-> RunStatus',
                execution_backend |-> RunBackend',
                full_coverage |-> results' # <<>> /\ skipped' = <<>>,
                pack_digest_externally_verified |-> settings'.expected # "absent",
                non_exact_output_used |-> Some(IsSalvaged)']
    <3>1. Some(IsSalvaged)' = Some(IsSalvaged) /\ RunStatus' = RunStatus /\ RunBackend' = RunBackend
      BY SameSummary
    <3> QED
      BY <3>1, Zenon
  <2> QED
    BY <1>2, <2>1, <2>2, <2>3 DEF SummaryInv, After
<1>5. ClockInv'
  BY NoTime DEF Working
<1>6. EvidenceInv'
  BY DEF IInv, EvidenceInv
<1> QED
  BY <1>1, <1>3, <1>4, <1>5, <1>6 DEF IInv

LEMMA StutterStep ==
    ASSUME IInv, UNCHANGED vars PROVE IInv'
<1> USE DEF vars
<1>1. TypeOK' /\ EvidenceInv'
  BY DEF IInv, TypeOK, EvidenceInv
<1>2. LoopInv' /\ SummaryInv'
  BY QuietStep DEF IInv, LoopInv, SummaryInv
<1>3. ClockInv'
  BY DEF IInv, ClockInv, Late, MaxWall
<1> QED
  BY <1>1, <1>2, <1>3 DEF IInv

LEMMA NextIInv == IInv /\ [Next]_vars => IInv'
<1> SUFFICES ASSUME IInv, [Next]_vars PROVE IInv'
  OBVIOUS
<1>1. CASE Step
  BY <1>1, EdgeStep, StartCaseStep, WorkStep, SkipCaseStep, CaseEndsStep, AggregateStep DEF Step
<1>2. CASE Crash \/ SnapshotDrifts
  BY <1>2, EdgeStep
<1>3. CASE Stopped \/ UNCHANGED vars
  BY <1>3, StutterStep DEF Stopped
<1> QED
  BY <1>1, <1>2, <1>3 DEF Next

LEMMA SpecIInv == Spec => []IInv
BY InitIInv, NextIInv, PTL DEF Spec

-----------------------------------------------------------------------------

\* The values of what run_benchmark keeps while it works through a pack.
THEOREM RunTypeCorrect == Spec => []TypeOK
<1>1. IInv => TypeOK
  BY DEF IInv
<1> QED
  BY <1>1, SpecIInv, PTL

\* Whatever budget trips and whichever cases raise, the summary accounts for
\* every case of the pack once, in pack order: case_results first, then
\* skipped_case_ids.
THEOREM EveryCaseCounts == Spec => []CasesAccountedFor
<1>1. IInv => CasesAccountedFor
  <2> SUFFICES ASSUME IInv, Summarised
               PROVE  [i \in 1..(Len(results) + Len(skipped)) |->
                         IF i <= Len(results) THEN results[i].case ELSE skipped[i - Len(results)]]
                       = [i \in 1..NumCases |-> i]
    BY DEF CasesAccountedFor
  <2>1. Len(results) \in Nat /\ Len(skipped) \in Nat /\ Len(results) + Len(skipped) = NumCases
    <3>1. Len(results) \in Nat /\ Len(skipped) \in Nat
      BY DEF IInv, TypeOK
    <3>2. next = NumCases + 1
      BY DEF IInv, SummaryInv
    <3>3. Len(results) + Len(skipped) = next - 1
      BY DEF IInv, LoopInv
    <3> QED
      BY <3>1, <3>2, <3>3, RunAssumption
  <2>2. ASSUME NEW i \in 1..NumCases
        PROVE  (IF i <= Len(results) THEN results[i].case ELSE skipped[i - Len(results)]) = i
    <3>1. CASE i <= Len(results)
      BY <2>1, <3>1, RunAssumption DEF IInv, LoopInv
    <3>2. CASE ~(i <= Len(results))
      <4>1. i - Len(results) \in 1..Len(skipped)
        BY <2>1, <3>2, RunAssumption
      <4>2. skipped[i - Len(results)] = Len(results) + (i - Len(results))
        BY <4>1 DEF IInv, LoopInv
      <4> QED
        BY <2>1, <3>2, <4>2, RunAssumption
    <3> QED
      BY <3>1, <3>2
  <2> QED
    BY <2>1, <2>2
<1> QED
  BY <1>1, SpecIInv, PTL

\* The wall budget is looked at between cases only, and _effective_timeout
\* floors at one second: for every budget, timeout, number of commands and setting
\* of the clock a run overstays by less than the case under way may take, the
\* supervisor's grace and Docker's clean-up included.
THEOREM OverrunIsBounded == Spec => []WallOverrunIsOneCase
<1>1. IInv => WallOverrunIsOneCase
  <2> SUFFICES ASSUME IInv, MaxWall # NoLimit PROVE now <= MaxWall + MaxSkew + LastCase
    BY DEF WallOverrunIsOneCase
  <2>1. now \in Nat /\ MaxWall \in Nat /\ now <= MaxWall + MaxSkew + Late(pc)
    BY TimeoutFact DEF IInv, TypeOK, ClockInv
  <2> QED
    BY <2>1, LateFact, RunAssumption
<1> QED
  BY <1>1, SpecIInv, PTL

\* eligibility_from_fields sees only the run's summary; what it lets onto the
\* default leaderboard evaluated every case of a pinned pack, with no repair
\* judged on the host or left unjudged and no salvaged answer.
THEOREM LeaderboardIsTrustworthy == Spec => []RankedRunsAreTrustworthy
<1>1. IInv => RankedRunsAreTrustworthy
  <2> SUFFICES ASSUME IInv, Summarised, Eligible(run)
               PROVE  /\ Len(results) = NumCases
                      /\ settings.expected = "match" /\ settings.pinned # "mismatch"
                      /\ \A i \in 1..Len(results) :
                            LET o == results[i].outcome
                            IN  ~IsLocal(o) /\ ~IsUnavailable(o) /\ ~IsSalvaged(o)
    BY DEF RankedRunsAreTrustworthy
  <2>1. /\ next = NumCases + 1 /\ settings.expected # "mismatch"
        /\ run.run_status = RunStatus /\ run.execution_backend = RunBackend
        /\ run.full_coverage = (results # <<>> /\ skipped = <<>>)
        /\ run.pack_digest_externally_verified = (settings.expected # "absent")
        /\ run.non_exact_output_used = Some(IsSalvaged)
    BY DEF IInv, SummaryInv
  <2>2. /\ RunStatus = "complete" /\ RunBackend = "docker"
        /\ skipped = <<>> /\ settings.expected # "absent" /\ ~Some(IsSalvaged)
    BY <2>1 DEF Eligible
  <2>3. Len(results) = NumCases
    BY <2>1, <2>2, RunAssumption DEF IInv, LoopInv, TypeOK
  <2>4. settings.expected = "match"
    BY <2>1, <2>2 DEF IInv, TypeOK, Settings
  <2>5. settings.pinned # "mismatch" /\ ~(settings.mode # "review" /\ Some(IsUnavailable))
    BY <2>2 DEF RunStatus
  <2>6. ~Some(IsLocal) /\ Some(IsDocker)
    BY <2>2 DEF RunBackend
  <2>7. settings.mode # "review"
    BY <2>6 DEF Some, IsDocker, IInv, SummaryInv, Possible
  <2>8. \A i \in 1..Len(results) :
          LET o == results[i].outcome
          IN  ~IsLocal(o) /\ ~IsUnavailable(o) /\ ~IsSalvaged(o)
    BY <2>2, <2>5, <2>6, <2>7 DEF Some, IsLocal, IsUnavailable, IsSalvaged
  <2> QED
    BY <2>3, <2>4, <2>5, <2>8
<1> QED
  BY <1>1, SpecIInv, PTL

\* snapshot.verify stands before every report: once the snapshot has lost its
\* content, a run that is not publishing yet never publishes more than the
\* directory it reserved.
THEOREM DriftIsWithheld == Spec => DriftedRunsPublishNothing
<1> DEFINE Drifted == ~intact /\ pc # "publish" /\ Len(published) <= 1
<1>1. IInv /\ Drifted /\ [Next]_vars => Drifted'
  <2> SUFFICES ASSUME IInv, Drifted, [Next]_vars PROVE Drifted'
    OBVIOUS
  <2>1. CASE Reserve
    BY <2>1 DEF Reserve, IInv, EvidenceInv
  <2>2. CASE PreTest \/ StaticAnalysis \/ Review \/ ApplyPatch \/ Tests
    BY <2>2 DEF PreTest, StaticAnalysis, Review, ApplyPatch, Tests, Stage
  <2>3. CASE Validate \/ SkipCase \/ StartCase \/ RecordResult \/ CaseRaises \/ Aggregate
    BY <2>3 DEF Validate, SkipCase, StartCase, RecordResult, CaseRaises, Aggregate
  <2>4. CASE Verify \/ Publish \/ Return
    BY <2>4 DEF Verify, Publish, Return
  <2>5. CASE Crash \/ SnapshotDrifts \/ Stopped \/ UNCHANGED vars
    BY <2>5 DEF Crash, SnapshotDrifts, Stopped, vars
  <2> QED
    BY <2>1, <2>2, <2>3, <2>4, <2>5 DEF Next, Step
<1>2. Drifted => Len(published) <= 1
  OBVIOUS
<1> QED
  BY <1>1, <1>2, SpecIInv, PTL DEF Spec, DriftedRunsPublishNothing

-----------------------------------------------------------------------------
(* The evaluation of a case. *)

\* The backend: local runs have the opt-in and no image, and whoever got past
\* the command loop with the local backend ran on the host.
HostInv ==
    /\ host # {} => allow_local
    /\ case.docker_image => host \subseteq {"static"}
    /\ tests.execution_mode = "local" => allow_local /\ ~case.docker_image
    /\ "tests" \in host => tests.execution_mode = "local"
    /\ tests.execution_mode = "local" /\ (stage \in {"manifest", "validators", "score"} \/ HasVerdict)
         => "tests" \in host

\* The hidden tests: nothing runs before the repair is in place, a passing run
\* went through all its commands, and the comparison sees what the commands
\* left behind.
TestsInv ==
    /\ stage \in {"pretest", "static", "review", "patch", "backend"} => tests = NotRun
    /\ stage \in {"pretest", "static", "review", "patch"} => patch = "none" /\ validators = "none"
    /\ stage \in {"backend", "command", "manifest"} => patch = "applied" /\ case.run_tests
    /\ stage \notin {"validators", "score", "done"} => ~integrity_changes
    /\ stage = "command" => command < case.commands
    /\ stage \in {"command", "manifest"} => manifest = "original"
    /\ stage \in {"pretest", "static", "review", "patch", "backend"} => hidden = "original"
    /\ tests.ran => patch = "applied" /\ case.run_tests
    /\ validators # "none" => patch = "applied" /\ case.structural_validators
    /\ stage \in {"manifest", "validators", "score"} \/ HasVerdict =>
         (tests.ran /\ tests.passed => command = case.commands)
    /\ stage \in {"validators", "score"} \/ HasVerdict =>
         (integrity_changes <=> case.tests_dir /\ hidden # "original")

\* The reviewer's answer: what AnswersAreTakenWhole says, before the patch is
\* applied too.
AnswerInv ==
    /\ ~given.delivered \/ review.status = "invalid" =>
         review.matched = {} /\ ~PatchProvided(review)
    /\ review.status \in {"tolerant", "repaired"} => given.enable_repair
    /\ review.status \in {"exact", "tolerant"} =>
         /\ review.true_positives \cup review.neutral \cup review.false_positives
              = 1..given.findings
         /\ given.patches > 1 /\ ~given.proposed_patch => ~PatchProvided(review)
    /\ patch = "applied" => PatchProvided(review)
    /\ IsFiniteSet(review.false_positives)

\* The verdict is the one of the state it was made in.
VerdictInv ==
    /\ stage # "done" => result = Pending
    /\ stage \notin {"pretest", "static", "review", "done"} => mode = "full"
    /\ result.kind = "review" => mode = "review"
    /\ result.kind = "errored" /\ mode = "full" => ~result.deterministic_pass
    /\ HasVerdict =>
         /\ stage = "done" /\ mode = "full"
         /\ result = [kind |-> "scored",
                      deterministic_pass |-> DeterministicReasons = {},
                      validation_eligible |-> ValidationEligible,
                      case_status |-> CaseStatusOf,
                      evidence_status |-> EvidenceOf,
                      repair_confidence |-> RepairConfidence,
                      execution_backend |-> CaseBackend,
                      execution_unavailable |-> tests.error \in Unavailable]
    /\ tests.error \in Unavailable => tests.execution_mode = "skipped"

CaseInv == EvalTypeOK /\ HostInv /\ TestsInv /\ AnswerInv /\ VerdictInv

LEMMA CaseFact ==
    ASSUME NEW c \in Cases
    PROVE  /\ c \in CaseConfigs
           /\ c.commands \in Nat /\ c.bugs \in Nat \ {0}
           /\ c.max_false_positives \in Nat
<1>1. c \in CaseConfigs
  BY CasesAssumption DEF Admissible
<1> QED
  BY <1>1 DEF CaseConfigs

LEMMA CaseInit ==
    ASSUME EvalInit PROVE CaseInv
<1> USE DEF EvalInit, NotRun, NoReview, NothingGiven, Pending, HasVerdict
<1>1. EvalTypeOK
  <2>1. integrity_changes \in BOOLEAN /\ allow_local \in BOOLEAN
    OBVIOUS
  <2>2. tests \in TestResults
    BY DEF TestResults
  <2>3. case \in Cases /\ command \in 0..case.commands
    BY CaseFact
  <2> QED
    BY <2>1, <2>2, <2>3 DEF EvalTypeOK, Stages
<1>2. HostInv /\ TestsInv
  BY DEF HostInv, TestsInv
<1>3. AnswerInv
  BY FS_EmptySet DEF AnswerInv, PatchProvided
<1>4. VerdictInv
  BY DEF VerdictInv, Unavailable
<1> QED
  BY <1>1, <1>2, <1>3, <1>4 DEF CaseInv

LEMMA ElementFact ==
    ASSUME NEW S, NEW s \in Seq(S) PROVE \A i \in DOMAIN s : s[i] \in S
OBVIOUS

LEMMA ParsedFact ==
    ASSUME NEW status, NEW doc
    PROVE  /\ Parsed(status, doc).status = status
           /\ Parsed(status, doc).findings = [i \in Valid(doc.findings) |-> doc.findings[i]]
           /\ Parsed(status, doc).proposed_patch = doc.proposed_patch
BY DEF Parsed

LEMMA PatchSourceFact ==
    ASSUME NEW parsed, NEW n \in Nat, n = Cardinality(WithPatch(parsed.findings)),
           ~parsed.proposed_patch
    PROVE  /\ n = 0 => PatchSource(parsed) = "none"
           /\ n > 1 => PatchSource(parsed) = "ambiguous"
<1>1. Cardinality(WithPatch(parsed.findings)) = n
  OBVIOUS
<1> QED
  BY <1>1 DEF PatchSource

LEMMA FiniteInitial == \A n \in Nat : IsFiniteSet(1..n)
  BY FS_Interval

\* What parse_reviewer_output makes of an answer: nothing, or the findings of
\* its document at the places that pass, which are all of them unless the answer
\* was repaired.
LEMMA ResponseFact ==
    ASSUME NEW a \in Answers, NEW delivered \in BOOLEAN,
           NEW enable_repair \in BOOLEAN
    PROVE  LET parsed == Response(a, delivered, enable_repair)
               all == a.doc.findings
           IN  \/ parsed = Invalid
               \/ /\ delivered
                  /\ parsed.status \in {"exact", "tolerant", "repaired"}
                  /\ parsed.findings = [i \in Valid(all) |-> all[i]]
                  /\ parsed.status # "exact" => enable_repair
                  /\ parsed.status # "repaired" =>
                       AllValid(all) /\ parsed.proposed_patch = a.doc.proposed_patch
<1> DEFINE parsed == Response(a, delivered, enable_repair)
           all == a.doc.findings
<1>1. a.doc \in Documents
  BY CasesAssumption DEF Admissible
<1>2. CASE parsed = TryExact(a) /\ delivered
  <2>1. parsed = Invalid \/ (parsed = Parsed("exact", a.doc) /\ AllValid(all))
    BY <1>2 DEF TryExact
  <2> QED
    <3>1. CASE parsed = Parsed("exact", a.doc) /\ AllValid(all)
      <4>1. /\ parsed.status = "exact" /\ parsed.proposed_patch = a.doc.proposed_patch
            /\ parsed.findings = [i \in Valid(all) |-> all[i]]
        BY <3>1, ParsedFact
      <4> QED
        BY <1>2, <3>1, <4>1
    <3> QED
      BY <2>1, <3>1
<1>3. CASE parsed = TryTolerant(a) /\ delivered /\ enable_repair
  <2>1. CASE TryTolerant(a) = Parsed("tolerant", a.doc) /\ AllValid(all)
    <3> HIDE DEF parsed
    <3>1. parsed = Parsed("tolerant", a.doc)
      BY <1>3, <2>1
    <3>2. /\ parsed.status = "tolerant" /\ parsed.proposed_patch = a.doc.proposed_patch
          /\ parsed.findings = [i \in Valid(all) |-> all[i]]
      BY <3>1, ParsedFact
    <3> QED
      BY <1>3, <2>1, <3>2 DEF parsed
  <2>2. CASE TryTolerant(a) = TryRepair(a)
    <3> DEFINE doc == [a.doc EXCEPT !.proposed_patch = @ /\ a.doc.shape = "object"]
    <3>1. doc.findings = all
      BY <1>1 DEF Documents
    <3>2. parsed = Invalid \/ parsed = Parsed("repaired", doc)
      BY <1>3, <2>2 DEF TryRepair
    <3> HIDE DEF doc, parsed
    <3>3. CASE parsed = Parsed("repaired", doc)
      <4>1. parsed.status = "repaired" /\ parsed.findings = [i \in Valid(all) |-> all[i]]
        BY <3>1, <3>3, ParsedFact
      <4> QED
        BY <1>3, <4>1 DEF parsed
    <3> QED
      BY <3>2, <3>3 DEF parsed
  <2> QED
    BY <2>1, <2>2 DEF TryTolerant
<1>4. CASE parsed = Invalid
  BY <1>4
<1> QED
  BY <1>2, <1>3, <1>4 DEF Response, Parse

\* What score_case and _select_case_patch read of it.
LEMMA ScoredFact ==
    ASSUME NEW a \in Answers, NEW delivered \in BOOLEAN,
           NEW enable_repair \in BOOLEAN, NEW bugs \in Nat,
           \A i \in DOMAIN a.doc.findings : a.doc.findings[i].bug <= bugs,
           NEW tp \in Servings(Response(a, delivered, enable_repair))
    PROVE  LET scored == Scored(Response(a, delivered, enable_repair), tp)
           IN  /\ scored.status \in {"exact", "tolerant", "repaired", "invalid"}
               /\ scored.matched \subseteq 1..bugs
               /\ IsFiniteSet(scored.false_positives)
               /\ ~delivered \/ scored.status = "invalid" =>
                    scored.matched = {} /\ ~PatchProvided(scored)
               /\ scored.status \in {"tolerant", "repaired"} => enable_repair
               /\ scored.status \in {"exact", "tolerant"} =>
                    /\ scored.true_positives \cup scored.neutral \cup scored.false_positives
                         = 1..Len(a.doc.findings)
                    /\ Cardinality(WithPatch(a.doc.findings)) > 1 /\ ~a.doc.proposed_patch
                         => ~PatchProvided(scored)
<1> DEFINE parsed == Response(a, delivered, enable_repair)
           scored == Scored(parsed, tp)
           all == a.doc.findings
           Finding == [bug : Nat, acceptable : BOOLEAN, valid : BOOLEAN, patch : BOOLEAN]
<1>1. /\ scored.status = parsed.status /\ scored.matched = Matched(parsed)
      /\ scored.true_positives = tp /\ scored.neutral = Neutral(parsed, tp)
      /\ scored.false_positives = FalsePositives(parsed, tp)
      /\ scored.source = PatchSource(parsed)
  BY DEF Scored
<1>2. all \in Seq(Finding) /\ Len(all) \in Nat /\ DOMAIN all = 1..Len(all)
  <2>1. a.doc \in Documents
    BY CasesAssumption DEF Admissible
  <2>2. all \in Seq(Finding)
    BY <2>1 DEF Documents
  <2> QED
    BY <2>2
<1> HIDE DEF scored
\* Every finding that was kept is scored in one of three ways.
<1>3. /\ tp \cup Neutral(parsed, tp) \cup FalsePositives(parsed, tp) = DOMAIN parsed.findings
      /\ FalsePositives(parsed, tp) \subseteq DOMAIN parsed.findings
  <2>1. tp \subseteq DOMAIN parsed.findings
    BY DEF Servings
  <2> HIDE DEF parsed
  <2> QED
    BY <2>1 DEF Neutral, FalsePositives
<1>4. CASE parsed = Invalid
  <2>1. /\ parsed.status = "invalid" /\ parsed.findings = <<>> /\ ~parsed.proposed_patch
    BY <1>4 DEF Invalid
  <2> HIDE DEF parsed
  <2>2. Matched(parsed) = {}
    BY <2>1 DEF Matched
  <2>3. PatchSource(parsed) = "none"
    <3>1. WithPatch(parsed.findings) = {}
      BY <2>1 DEF WithPatch
    <3>2. Cardinality(WithPatch(parsed.findings)) = 0
      BY <3>1, FS_EmptySet
    <3> QED
      BY <2>1, <3>2, PatchSourceFact
  <2>4. ~PatchProvided(scored)
    BY <1>1, <2>3 DEF PatchProvided
  <2>5. IsFiniteSet(scored.false_positives)
    <3>1. scored.false_positives = {}
      BY <1>1, <1>3, <2>1
    <3> QED
      BY <3>1, FS_EmptySet
  <2> QED
    BY <1>1, <2>1, <2>2, <2>4, <2>5 DEF scored, parsed
<1>5. CASE parsed # Invalid
  <2>1. /\ delivered
        /\ parsed.status \in {"exact", "tolerant", "repaired"}
        /\ parsed.findings = [i \in Valid(all) |-> all[i]]
        /\ parsed.status # "exact" => enable_repair
        /\ parsed.status # "repaired" =>
             AllValid(all) /\ parsed.proposed_patch = a.doc.proposed_patch
    BY <1>5, ResponseFact
  <2> HIDE DEF parsed
  <2>2. Matched(parsed) \subseteq 1..bugs
    <3>1. DOMAIN parsed.findings \subseteq DOMAIN all
          /\ \A i \in DOMAIN parsed.findings : parsed.findings[i] = all[i]
      BY <2>1 DEF Valid
    <3>2. \A i \in DOMAIN all : all[i].bug \in Nat
      <4> HIDE DEF all
      <4>1. \A i \in DOMAIN all : all[i] \in Finding
        BY <1>2, ElementFact
      <4> QED
        BY <4>1
    <3>3. \A i \in DOMAIN all : all[i].bug <= bugs
      OBVIOUS
    <3> QED
      BY <3>1, <3>2, <3>3 DEF Matched
  <2>3. IsFiniteSet(scored.false_positives)
    <3>1. Len(all) \in Nat /\ DOMAIN parsed.findings \in SUBSET (1..Len(all))
      BY <1>2, <2>1 DEF Valid
    <3>2. scored.false_positives \in SUBSET (1..Len(all))
      BY <1>1, <1>3, <3>1
    <3>3. IsFiniteSet(1..Len(all))
      <4> HIDE DEF all
      <4> QED
        BY <3>1, FiniteInitial
    <3> QED
      BY <3>2, <3>3, FS_Subset
  <2>4. ASSUME parsed.status \in {"exact", "tolerant"}
        PROVE  /\ scored.true_positives \cup scored.neutral \cup scored.false_positives
                    = 1..Len(all)
               /\ Cardinality(WithPatch(all)) > 1 /\ ~a.doc.proposed_patch
                    => ~PatchProvided(scored)
    <3>1. DOMAIN parsed.findings = 1..Len(all) /\ \A i \in 1..Len(all) : parsed.findings[i] = all[i]
      BY <1>2, <2>1, <2>4 DEF AllValid
    <3>2. scored.true_positives \cup scored.neutral \cup scored.false_positives = 1..Len(all)
      BY <1>1, <1>3, <3>1
    <3>3. WithPatch(parsed.findings) = WithPatch(all)
      BY <1>2, <3>1 DEF WithPatch
    <3>4. Cardinality(WithPatch(all)) \in Nat
      <4>1. Len(all) \in Nat
        BY <1>2
      <4>2. IsFiniteSet(1..Len(all))
        <5> HIDE DEF all
        <5> QED
          BY <4>1, FiniteInitial
      <4>3. WithPatch(all) \in SUBSET (1..Len(all))
        BY <1>2 DEF WithPatch
      <4> QED
        BY <4>2, <4>3, FS_Subset, FS_CardinalityType
    <3>5. ASSUME Cardinality(WithPatch(all)) > 1, ~a.doc.proposed_patch
          PROVE  ~PatchProvided(scored)
      <4>1. ~parsed.proposed_patch
        BY <2>1, <2>4, <3>5
      <4>2. PatchSource(parsed) = "ambiguous"
        BY <3>3, <3>4, <3>5, <4>1, PatchSourceFact
      <4> QED
        BY <1>1, <4>2 DEF PatchProvided
    <3> QED
      BY <3>2, <3>5
  <2> QED
    BY <1>1, <2>1, <2>2, <2>3, <2>4 DEF scored, parsed
<1> QED
  BY <1>4, <1>5

\* A stage that hands over without a result.
LEMMA NoVerdict ==
    ASSUME CaseInv, stage # "done", stage' # "done", UNCHANGED <<result, mode>>,
           stage' \in {"pretest", "static", "review"} \/ mode = "full",
           tests'.error \in Unavailable => tests'.execution_mode = "skipped"
    PROVE  VerdictInv' /\ ~HasVerdict'
<1>1. result = Pending
  BY DEF CaseInv, VerdictInv
<1>2. result'.kind = "pending"
  BY <1>1 DEF Pending
<1> QED
  BY <1>1, <1>2 DEF VerdictInv, HasVerdict, Pending

LEMMA PreTestStep ==
    ASSUME CaseInv, RunPreTest \/ RunStaticAnalysis PROVE CaseInv'
<1> USE DEF RunPreTest, RunStaticAnalysis, request
<1>1. UNCHANGED <<case, mode, allow_local, review, given, patch, tests, command, hidden, manifest,
                  validators, result, integrity_changes>>
  OBVIOUS
<1>2. stage \in {"pretest", "static"} /\ stage' \in {"static", "review"}
  OBVIOUS
<1>3. /\ host' \subseteq host \cup {"pretest", "static"} /\ host \subseteq host'
      /\ host' # host => allow_local
      /\ "pretest" \in host' \ host => ~case.docker_image
  BY DEF BackendChoices, Skipped, NotRun
<1>4. EvalTypeOK'
  BY <1>1, <1>2, <1>3 DEF CaseInv, EvalTypeOK, Stages
<1>5. VerdictInv' /\ ~HasVerdict'
  BY <1>1, <1>2, NoVerdict DEF CaseInv, VerdictInv
<1>6. HostInv'
  BY <1>1, <1>2, <1>3, <1>5 DEF CaseInv, HostInv, EvalTypeOK
<1>7. TestsInv'
  BY <1>1, <1>2, <1>5 DEF CaseInv, TestsInv
<1>8. AnswerInv'
  BY <1>1 DEF CaseInv, AnswerInv, PatchProvided
<1> QED
  BY <1>4, <1>5, <1>6, <1>7, <1>8 DEF CaseInv

LEMMA ReviewStep ==
    ASSUME CaseInv, ReviewAndScore PROVE CaseInv'
<1> USE DEF request
<1>1. UNCHANGED <<case, mode, allow_local, patch, tests, command, hidden, manifest, validators,
                  host, integrity_changes>>
  BY DEF ReviewAndScore
<1>2. PICK a \in Answers, delivered \in BOOLEAN, enable_repair \in BOOLEAN :
        /\ \A i \in DOMAIN a.doc.findings : a.doc.findings[i].bug <= case.bugs
        /\ \E tp \in Servings(Response(a, delivered, enable_repair)) :
             review' = Scored(Response(a, delivered, enable_repair), tp)
        /\ given' = [delivered |-> delivered, enable_repair |-> enable_repair,
                     findings |-> Len(a.doc.findings),
                     patches |-> Cardinality(WithPatch(a.doc.findings)),
                     proposed_patch |-> a.doc.proposed_patch]
  BY DEF ReviewAndScore
<1>3. /\ given'.delivered = delivered /\ given'.enable_repair = enable_repair
      /\ given'.findings = Len(a.doc.findings)
      /\ given'.patches = Cardinality(WithPatch(a.doc.findings))
      /\ given'.proposed_patch = a.doc.proposed_patch
  BY <1>2
<1>4. case.bugs \in Nat
  BY CaseFact DEF CaseInv, EvalTypeOK
<1>5. /\ review'.status \in {"exact", "tolerant", "repaired", "invalid"}
      /\ review'.matched \subseteq 1..case.bugs
      /\ IsFiniteSet(review'.false_positives)
      /\ ~delivered \/ review'.status = "invalid" =>
           review'.matched = {} /\ ~PatchProvided(review')
      /\ review'.status \in {"tolerant", "repaired"} => enable_repair
      /\ review'.status \in {"exact", "tolerant"} =>
           /\ review'.true_positives \cup review'.neutral \cup review'.false_positives
                = 1..Len(a.doc.findings)
           /\ Cardinality(WithPatch(a.doc.findings)) > 1 /\ ~a.doc.proposed_patch
                => ~PatchProvided(review')
  BY <1>2, <1>4, ScoredFact
<1>6. stage = "review" /\ patch = "none"
  BY DEF ReviewAndScore, CaseInv, TestsInv
<1>7. \/ mode = "review" /\ stage' = "done" /\ result' = [kind |-> "review"]
      \/ mode = "full" /\ stage' = "patch" /\ result' = result
  BY DEF ReviewAndScore, CaseInv, EvalTypeOK
<1>8. EvalTypeOK'
  BY <1>1, <1>5, <1>7 DEF CaseInv, EvalTypeOK, Stages
<1>9. VerdictInv' /\ ~HasVerdict'
  <2>1. CASE mode = "full"
    BY <1>1, <1>6, <1>7, <2>1, NoVerdict DEF CaseInv, VerdictInv
  <2>2. CASE mode = "review"
    <3>1. result'.kind = "review" /\ stage' = "done"
      BY <1>7, <2>2
    <3> QED
      BY <1>1, <2>2, <3>1 DEF CaseInv, VerdictInv, HasVerdict
  <2> QED
    BY <1>7, <2>1, <2>2
<1>10. HostInv'
  BY <1>1, <1>6, <1>7, <1>9 DEF CaseInv, HostInv
<1>11. TestsInv'
  BY <1>1, <1>6, <1>7, <1>9 DEF CaseInv, TestsInv
<1>12. AnswerInv'
  <2>1. patch' = "none"
    BY <1>1, <1>6
  <2>2. PatchProvided(review)' <=> PatchProvided(review')
    BY DEF PatchProvided
  <2> QED
    BY <1>3, <1>5, <2>1, <2>2 DEF AnswerInv
<1> QED
  BY <1>8, <1>9, <1>10, <1>11, <1>12 DEF CaseInv

LEMMA ApplyPatchStep ==
    ASSUME CaseInv, ApplyRepair PROVE CaseInv'
<1> USE DEF ApplyRepair, request
<1>1. UNCHANGED <<case, mode, allow_local, review, given, tests, command, hidden, manifest,
                  validators, host, result, integrity_changes>>
  OBVIOUS
<1>2. /\ stage = "patch" /\ patch' \in {"applied", "unsafe", "protected", "failed"}
      /\ patch' = "applied" => PatchProvided(review)
      /\ stage' \in {"backend", "validators"}
      /\ stage' = "backend" => patch' = "applied" /\ case.run_tests
  OBVIOUS
<1>3. /\ mode = "full" /\ tests = NotRun /\ hidden = "original" /\ ~integrity_changes
      /\ validators = "none"
  BY <1>2 DEF CaseInv, VerdictInv, TestsInv
<1>4. ~tests.ran /\ tests.execution_mode = "none" /\ tests.error = "none"
  BY <1>3 DEF NotRun
<1>5. EvalTypeOK'
  BY <1>1, <1>2 DEF CaseInv, EvalTypeOK, Stages
<1>6. VerdictInv' /\ ~HasVerdict'
  BY <1>1, <1>2, <1>3, NoVerdict DEF CaseInv, VerdictInv
<1>7. HostInv'
  BY <1>1, <1>2, <1>4, <1>6 DEF CaseInv, HostInv
<1>8. TestsInv'
  BY <1>1, <1>2, <1>3, <1>4, <1>6 DEF TestsInv
<1>9. AnswerInv'
  BY <1>1, <1>2 DEF CaseInv, AnswerInv, PatchProvided
<1> QED
  BY <1>5, <1>6, <1>7, <1>8, <1>9 DEF CaseInv

\* The backends TestExecutor.execute can choose.
LEMMA ChoiceFact ==
    ASSUME EvalTypeOK, NEW choice \in BackendChoices
    PROVE  /\ choice \in TestResults
           /\ ~choice.ran
           /\ choice.execution_mode \in {"skipped", "docker", "local"}
           /\ choice.execution_mode = "local" => allow_local /\ ~case.docker_image
           /\ choice.error \in Unavailable => choice.execution_mode = "skipped"
           /\ choice.execution_mode # "skipped" => case.commands # 0
<1> USE DEF BackendChoices, Skipped, NotRun, Unavailable
<1>1. ASSUME NEW e, choice = Skipped(e)
      PROVE  /\ choice.execution_mode = "skipped" /\ ~choice.ran /\ choice.error = e
  BY <1>1
<1>2. ASSUME NEW m, choice = [ran |-> FALSE, passed |-> FALSE, execution_mode |-> m, error |-> "none"]
      PROVE  choice.execution_mode = m /\ ~choice.ran /\ choice.error = "none"
  BY <1>2
<1>3. \/ \E e \in {"empty_test_command", "docker_required_but_unavailable",
                   "docker_image_not_present", "local_execution_disabled"} : choice = Skipped(e)
      \/ /\ choice = [ran |-> FALSE, passed |-> FALSE, execution_mode |-> "docker", error |-> "none"]
         /\ case.commands # 0
      \/ /\ choice = [ran |-> FALSE, passed |-> FALSE, execution_mode |-> "local", error |-> "none"]
         /\ case.commands # 0 /\ allow_local /\ ~case.docker_image
  OBVIOUS
<1>4. choice \in TestResults
  <2>1. ASSUME NEW m \in {"skipped", "docker", "local"},
               NEW e \in {"none", "empty_test_command"} \cup Unavailable
        PROVE  [ran |-> FALSE, passed |-> FALSE, execution_mode |-> m, error |-> e]
                 \in TestResults
    BY DEF TestResults
  <2> HIDE DEF BackendChoices
  <2> QED
    BY <1>3, <2>1
<1>5. \/ choice.execution_mode = "skipped" /\ ~choice.ran
      \/ /\ choice.execution_mode = "docker" /\ ~choice.ran /\ choice.error = "none"
         /\ case.commands # 0
      \/ /\ choice.execution_mode = "local" /\ ~choice.ran /\ choice.error = "none"
         /\ case.commands # 0 /\ allow_local /\ ~case.docker_image
  BY <1>1, <1>2, <1>3
<1> HIDE DEF BackendChoices
<1> QED
  BY <1>4, <1>5

LEMMA ChooseBackendStep ==
    ASSUME CaseInv, ChooseBackend PROVE CaseInv'
<1> USE DEF request
<1>1. /\ UNCHANGED <<case, mode, allow_local, review, given, patch, validators, host, result,
                     integrity_changes>>
      /\ stage = "backend" /\ hidden' = "original" /\ manifest' = "original" /\ command' = 0
      /\ tests' \in BackendChoices
      /\ stage' = IF tests'.execution_mode = "skipped" THEN "manifest" ELSE "command"
  BY DEF ChooseBackend
<1>2. /\ tests' \in TestResults /\ ~tests'.ran
      /\ tests'.execution_mode \in {"skipped", "docker", "local"}
      /\ tests'.execution_mode = "local" => allow_local /\ ~case.docker_image
      /\ tests'.error \in Unavailable => tests'.execution_mode = "skipped"
      /\ tests'.execution_mode # "skipped" => case.commands # 0
  BY <1>1, ChoiceFact DEF CaseInv
<1>3. /\ mode = "full" /\ tests = NotRun /\ patch = "applied" /\ case.run_tests
      /\ ~integrity_changes
  BY <1>1 DEF CaseInv, VerdictInv, TestsInv
<1>4. "tests" \notin host
  BY <1>3 DEF CaseInv, HostInv, NotRun
<1>5. case.commands \in Nat
  BY CaseFact DEF CaseInv, EvalTypeOK
<1>6. EvalTypeOK'
  BY <1>1, <1>2, <1>5 DEF CaseInv, EvalTypeOK, Stages
<1>7. VerdictInv' /\ ~HasVerdict'
  BY <1>1, <1>2, <1>3, NoVerdict DEF CaseInv, VerdictInv
<1>8. HostInv'
  BY <1>1, <1>2, <1>4, <1>7 DEF CaseInv, HostInv
<1>9. TestsInv'
  BY <1>1, <1>2, <1>3, <1>5, <1>7 DEF CaseInv, TestsInv
<1>10. AnswerInv'
  BY <1>1 DEF CaseInv, AnswerInv, PatchProvided
<1> QED
  BY <1>6, <1>7, <1>8, <1>9, <1>10 DEF CaseInv

LEMMA RunCommandStep ==
    ASSUME CaseInv, NEW passed \in BOOLEAN, RunCommand(passed)
    PROVE  CaseInv'
<1> USE DEF request
<1>1. /\ UNCHANGED <<case, mode, allow_local, review, given, patch, manifest, validators, result,
                     integrity_changes>>
      /\ stage = "command" /\ command' = command + 1
      /\ tests' = [tests EXCEPT !.ran = TRUE, !.passed = passed]
      /\ stage' = IF passed /\ command' < case.commands THEN "command" ELSE "manifest"
      /\ IF tests.execution_mode = "local"
         THEN host' = host \cup {"tests"} /\ hidden' \in {"original", "edited"}
         ELSE host' = host /\ hidden' = hidden
  BY DEF RunCommand
<1>2. /\ tests' \in TestResults /\ tests'.passed = passed
      /\ tests'.execution_mode = tests.execution_mode /\ tests'.error = tests.error
  BY <1>1 DEF CaseInv, EvalTypeOK, TestResults
<1>3. /\ mode = "full" /\ patch = "applied" /\ case.run_tests /\ manifest = "original"
      /\ ~integrity_changes /\ command < case.commands
  BY <1>1 DEF CaseInv, VerdictInv, TestsInv
<1>4. case.commands \in Nat /\ command \in Nat
  BY CaseFact DEF CaseInv, EvalTypeOK
<1>5. EvalTypeOK'
  BY <1>1, <1>2, <1>3, <1>4 DEF CaseInv, EvalTypeOK, Stages
<1>6. VerdictInv' /\ ~HasVerdict'
  BY <1>1, <1>2, <1>3, NoVerdict DEF CaseInv, VerdictInv
<1>7. HostInv'
  BY <1>1, <1>2, <1>6 DEF CaseInv, HostInv
<1>8. TestsInv'
  <2>1. stage' = "manifest" /\ passed => command' = case.commands
    BY <1>1, <1>3, <1>4
  <2> QED
    BY <1>1, <1>2, <1>3, <1>6, <2>1 DEF CaseInv, TestsInv
<1>9. AnswerInv'
  BY <1>1 DEF CaseInv, AnswerInv, PatchProvided
<1> QED
  BY <1>5, <1>6, <1>7, <1>8, <1>9 DEF CaseInv

LEMMA CompareManifestsStep ==
    ASSUME CaseInv, CompareManifests PROVE CaseInv'
<1> USE DEF request
<1>1. /\ UNCHANGED <<case, mode, allow_local, review, given, patch, tests, command, hidden,
                     manifest, validators, host, result>>
      /\ stage = "manifest" /\ stage' = "validators"
      /\ integrity_changes' = (case.tests_dir /\ hidden # manifest)
  BY DEF CompareManifests
<1>2. mode = "full" /\ manifest = "original"
  BY <1>1 DEF CaseInv, VerdictInv, TestsInv
<1>3. integrity_changes' \in BOOLEAN
  BY <1>1
<1>4. integrity_changes' <=> case.tests_dir /\ hidden # "original"
  BY <1>1, <1>2
<1>5. EvalTypeOK'
  BY <1>1, <1>3 DEF CaseInv, EvalTypeOK, Stages
<1>6. VerdictInv' /\ ~HasVerdict'
  BY <1>1, <1>2, NoVerdict DEF CaseInv, VerdictInv
<1>7. HostInv'
  BY <1>1, <1>6 DEF CaseInv, HostInv
<1>8. TestsInv'
  BY <1>1, <1>4, <1>6 DEF CaseInv, TestsInv
<1>9. AnswerInv'
  BY <1>1 DEF CaseInv, AnswerInv, PatchProvided
<1> QED
  BY <1>5, <1>6, <1>7, <1>8, <1>9 DEF CaseInv

LEMMA RunValidatorsStep ==
    ASSUME CaseInv, RunValidators PROVE CaseInv'
<1> USE DEF request
<1>1. /\ UNCHANGED <<case, mode, allow_local, review, given, patch, tests, command, hidden,
                     manifest, host, result, integrity_changes>>
      /\ stage = "validators" /\ stage' = "score"
      /\ validators' \in {validators, "passed", "failed"}
      /\ validators' # validators => patch = "applied" /\ case.structural_validators
  BY DEF RunValidators
<1>2. mode = "full"
  BY <1>1 DEF CaseInv, VerdictInv
<1>3. EvalTypeOK'
  BY <1>1 DEF CaseInv, EvalTypeOK, Stages
<1>4. VerdictInv' /\ ~HasVerdict'
  BY <1>1, <1>2, NoVerdict DEF CaseInv, VerdictInv
<1>5. HostInv'
  BY <1>1, <1>4 DEF CaseInv, HostInv
<1>6. TestsInv'
  BY <1>1, <1>4 DEF CaseInv, TestsInv
<1>7. AnswerInv'
  BY <1>1 DEF CaseInv, AnswerInv, PatchProvided
<1> QED
  BY <1>3, <1>4, <1>5, <1>6, <1>7 DEF CaseInv

\* Nothing but the result and the stage changes when a case ends.
LEMMA VerdictStep ==
    ASSUME CaseInv, stage' = "done",
           UNCHANGED <<case, mode, allow_local, review, given, patch, tests, command, hidden,
                       manifest, integrity_changes, validators, host>>,
           VerdictInv', HasVerdict' => stage = "score"
    PROVE  CaseInv'
<1>1. EvalTypeOK'
  BY DEF CaseInv, EvalTypeOK, Stages
<1>2. HostInv'
  BY DEF CaseInv, HostInv
<1>3. TestsInv'
  BY DEF CaseInv, TestsInv
<1>4. AnswerInv'
  BY DEF CaseInv, AnswerInv, PatchProvided
<1> QED
  BY <1>1, <1>2, <1>3, <1>4 DEF CaseInv

\* The verdict depends on nothing else.
LEMMA SameVerdict ==
    ASSUME UNCHANGED <<case, review, patch, tests, integrity_changes, validators>>
    PROVE  UNCHANGED <<DeterministicReasons, ValidationEligible, CaseStatusOf,
                       EvidenceOf, RepairConfidence, CaseBackend>>
<1>1. UNCHANGED <<FailureReasons, AllBugsDetected, ValidationEligible>>
  BY DEF FailureReasons, AllBugsDetected, ValidationEligible,
         TestsRequired, TestsPassed, PatchProvided, When, Cardinality
<1>2. UNCHANGED <<DeterministicReasons>>
  BY <1>1 DEF DeterministicReasons, When
<1>3. UNCHANGED <<ExecutionValidated>>
  BY <1>2 DEF ExecutionValidated, Blocking
<1> QED
  BY <1>1, <1>2, <1>3 DEF CaseStatusOf, EvidenceOf, RepairConfidence,
                          CaseBackend

LEMMA ScoreStep ==
    ASSUME CaseInv, Score PROVE CaseInv'
<1>1. /\ UNCHANGED <<case, mode, allow_local, review, given, patch, tests, command, hidden,
                     manifest, integrity_changes, validators, host>>
      /\ stage = "score" /\ stage' = "done"
  BY DEF Score, request
<1>2. UNCHANGED <<DeterministicReasons, ValidationEligible, CaseStatusOf,
                  EvidenceOf, RepairConfidence, CaseBackend>>
  BY <1>1, SameVerdict
<1>3. result'.kind = "scored"
  BY DEF Score
<1>4. VerdictInv'
  <2>1. mode = "full"
    BY <1>1 DEF CaseInv, VerdictInv
  <2>2. result' = [kind |-> "scored",
                   deterministic_pass |-> DeterministicReasons' = {},
                   validation_eligible |-> ValidationEligible',
                   case_status |-> CaseStatusOf',
                   evidence_status |-> EvidenceOf',
                   repair_confidence |-> RepairConfidence',
                   execution_backend |-> CaseBackend',
                   execution_unavailable |-> (tests'.error \in Unavailable)]
    BY <1>1, <1>2 DEF Score
  <2> QED
    BY <1>1, <1>3, <2>1, <2>2 DEF CaseInv, VerdictInv
<1> QED
  BY <1>1, <1>3, <1>4, VerdictStep

LEMMA RaiseStep ==
    ASSUME CaseInv, Raise PROVE CaseInv'
<1>1. /\ UNCHANGED <<case, mode, allow_local, review, given, patch, tests, command, hidden,
                     manifest, integrity_changes, validators, host>>
      /\ stage' = "done"
  BY DEF Raise, request
<1>2. result'.kind = "errored" /\ (mode = "full" => ~result'.deterministic_pass)
  BY DEF Raise
<1>3. VerdictInv' /\ ~HasVerdict'
  BY <1>1, <1>2 DEF CaseInv, VerdictInv, HasVerdict
<1> QED
  BY <1>1, <1>3, VerdictStep

LEMMA CaseStutter ==
    ASSUME CaseInv, UNCHANGED evalVars PROVE CaseInv'
<1>1. UNCHANGED <<case, mode, allow_local, stage, review, given, patch, tests, command, hidden,
                  manifest, integrity_changes, validators, host, result>>
  BY DEF evalVars
<1>2. EvalTypeOK' /\ HostInv' /\ TestsInv'
  BY <1>1 DEF CaseInv, EvalTypeOK, HostInv, TestsInv, HasVerdict
<1>3. AnswerInv'
  BY <1>1 DEF CaseInv, AnswerInv, PatchProvided
<1>4. VerdictInv'
  <2>1. UNCHANGED <<DeterministicReasons, ValidationEligible, CaseStatusOf,
                    EvidenceOf, RepairConfidence, CaseBackend>>
    BY <1>1, SameVerdict
  <2>2. CASE ~HasVerdict
    BY <1>1, <2>2 DEF CaseInv, VerdictInv, HasVerdict
  <2>3. CASE HasVerdict
    <3>1. result' = [kind |-> "scored",
                     deterministic_pass |-> DeterministicReasons' = {},
                     validation_eligible |-> ValidationEligible',
                     case_status |-> CaseStatusOf',
                     evidence_status |-> EvidenceOf',
                     repair_confidence |-> RepairConfidence',
                     execution_backend |-> CaseBackend',
                     execution_unavailable |-> (tests'.error \in Unavailable)]
      BY <1>1, <2>1, <2>3 DEF CaseInv, VerdictInv
    <3>2. result'.kind = "scored" /\ stage' = "done" /\ mode' = "full"
      BY <1>1, <2>3 DEF CaseInv, VerdictInv, HasVerdict
    <3> QED
      BY <1>1, <3>1, <3>2 DEF CaseInv, VerdictInv
  <2> QED
    BY <2>2, <2>3
<1> QED
  BY <1>2, <1>3, <1>4 DEF CaseInv

LEMMA CaseNext ==
    ASSUME CaseInv, [EvalNext]_evalVars PROVE CaseInv'
<1>1. CASE EvalStep
  BY <1>1, PreTestStep, ReviewStep, ApplyPatchStep, ChooseBackendStep, RunCommandStep,
     CompareManifestsStep, RunValidatorsStep, ScoreStep DEF EvalStep
<1>2. CASE Raise
  BY <1>2, RaiseStep
<1>3. CASE UNCHANGED evalVars
  BY <1>3, CaseStutter
<1> QED
  BY <1>1, <1>2, <1>3 DEF EvalNext, Finished

LEMMA CaseSpec == EvalSpec => []CaseInv
<1>1. EvalInit => CaseInv
  BY CaseInit
<1>2. CaseInv /\ [EvalNext]_evalVars => CaseInv'
  BY CaseNext
<1> QED
  BY <1>1, <1>2, PTL DEF EvalSpec

\* As many bugs as there are, all among the bugs there are, are all of them.
LEMMA AllMatched ==
    ASSUME NEW n \in Nat, NEW S, S \subseteq 1..n, Cardinality(S) >= n
    PROVE  S = 1..n
<1>1. IsFiniteSet(1..n) /\ Cardinality(1..n) = n
  BY FS_Interval
<1>2. S \in SUBSET (1..n) /\ Cardinality(S) >= n
  OBVIOUS
<1>3. Cardinality(S) \in Nat
  BY <1>1, <1>2, FS_Subset, FS_CardinalityType
<1>4. Cardinality(S) <= Cardinality(1..n) /\ (Cardinality(1..n) = Cardinality(S) => S = 1..n)
  BY <1>1, <1>2, FS_Subset
<1> QED
  BY <1>1, <1>2, <1>3, <1>4

\* What the verdict says of the state it was made in.
LEMMA VerdictFact ==
    ASSUME CaseInv, HasVerdict
    PROVE  /\ result.deterministic_pass = (DeterministicReasons = {})
           /\ result.validation_eligible = ValidationEligible
           /\ result.case_status = CaseStatusOf
           /\ result.evidence_status = EvidenceOf
           /\ result.repair_confidence = RepairConfidence
           /\ result.execution_backend = CaseBackend
           /\ result.execution_unavailable = (tests.error \in Unavailable)
<1>1. result = [kind |-> "scored",
                deterministic_pass |-> DeterministicReasons = {},
                validation_eligible |-> ValidationEligible,
                case_status |-> CaseStatusOf,
                evidence_status |-> EvidenceOf,
                repair_confidence |-> RepairConfidence,
                execution_backend |-> CaseBackend,
                execution_unavailable |-> tests.error \in Unavailable]
  BY DEF CaseInv, VerdictInv
<1> QED
  BY <1>1

\* The case fails when one of its gates does (no member of the union).
LEMMA NoReason ==
    ASSUME DeterministicReasons = {}
    PROVE  /\ 1 \in review.matched
           /\ case.detection_requirement = "all_bugs" => AllBugsDetected
           /\ case.patch_required => patch = "applied" /\ ValidationEligible
           /\ TestsRequired => TestsPassed
           /\ case.structural_validators => validators = "passed"
           /\ ~(Cardinality(review.false_positives) > case.max_false_positives)
           /\ ~integrity_changes
<1>1. ASSUME NEW P, NEW r, When(P, r) \subseteq {} PROVE ~P
  BY <1>1 DEF When
<1> QED
  BY <1>1 DEF DeterministicReasons, FailureReasons

\* A repair that is reported as one was validated by the gates that ran.
LEMMA ValidatedFact ==
    ASSUME CaseInv, ExecutionValidated
    PROVE  /\ patch = "applied"
           /\ tests.ran => tests.passed
           /\ validators # "failed"
           /\ ~integrity_changes
<1>1. /\ patch = "applied"
      /\ "tests_failed" \notin DeterministicReasons
      /\ "structural_validation_failed" \notin DeterministicReasons
      /\ "test_integrity_violation" \notin DeterministicReasons
  BY DEF ExecutionValidated, Blocking
<1>2. ~(TestsRequired /\ ~TestsPassed)
  BY <1>1 DEF DeterministicReasons, FailureReasons, When
<1>3. ~(case.structural_validators /\ validators # "passed") /\ ~integrity_changes
  BY <1>1 DEF DeterministicReasons, FailureReasons, When
<1> QED
  BY <1>1, <1>2, <1>3 DEF CaseInv, TestsInv, TestsRequired, TestsPassed

\* CreditIsEarned: _evaluate_case credits a case only when every gate it
\* configures ran on the applied repair and passed, for any case and any answer.
THEOREM CreditNeedsExecution == EvalSpec => []CreditIsEarned
<1>1. CaseInv => CreditIsEarned
  <2> SUFFICES ASSUME CaseInv PROVE CreditIsEarned
    OBVIOUS
  <2>1. ASSUME result.kind \in {"scored", "errored"}, mode = "full",
               result.deterministic_pass, result.validation_eligible
        PROVE  /\ patch = "applied"
               /\ case.run_tests \/ validators = "passed"
               /\ case.run_tests => command = case.commands /\ tests.ran /\ tests.passed
               /\ case.structural_validators => validators = "passed"
               /\ case.tests_dir => hidden = "original"
               /\ 1 \in review.matched
               /\ case.detection_requirement = "all_bugs" => review.matched = 1..case.bugs
               /\ Cardinality(review.false_positives) <= case.max_false_positives
    <3>1. HasVerdict
      BY <2>1 DEF CaseInv, VerdictInv, HasVerdict
    <3>2. DeterministicReasons = {} /\ ValidationEligible
      BY <2>1, <3>1, VerdictFact
    <3>3. /\ 1 \in review.matched
          /\ case.detection_requirement = "all_bugs" => AllBugsDetected
          /\ TestsRequired => TestsPassed
          /\ case.structural_validators => validators = "passed"
          /\ ~(Cardinality(review.false_positives) > case.max_false_positives)
          /\ ~integrity_changes
      BY <3>2, NoReason
    <3>4. case.bugs \in Nat /\ case.max_false_positives \in Nat /\ review.matched \subseteq 1..case.bugs
      BY CaseFact DEF CaseInv, EvalTypeOK
    <3>5. Cardinality(review.false_positives) <= case.max_false_positives
      <4>1. Cardinality(review.false_positives) \in Nat
        BY FS_CardinalityType DEF CaseInv, AnswerInv
      <4> QED
        BY <3>3, <3>4, <4>1
    <3>6. case.detection_requirement = "all_bugs" => review.matched = 1..case.bugs
      BY <3>3, <3>4, AllMatched DEF AllBugsDetected
    <3>7. /\ tests.ran => patch = "applied" /\ case.run_tests
          /\ validators # "none" => patch = "applied" /\ case.structural_validators
          /\ tests.ran /\ tests.passed => command = case.commands
          /\ integrity_changes <=> case.tests_dir /\ hidden # "original"
      BY <3>1 DEF CaseInv, TestsInv
    <3>8. case.run_tests => tests.ran /\ tests.passed
      BY <3>3 DEF TestsRequired, TestsPassed
    <3>9. tests.ran \/ validators = "passed"
      BY <3>2, <3>3 DEF ValidationEligible, TestsPassed
    <3> QED
      BY <3>3, <3>5, <3>6, <3>7, <3>8, <3>9
  <2>2. ASSUME HasVerdict, result.case_status \in {"complete_repair", "partial_repair"}
        PROVE  /\ patch = "applied"
               /\ tests.ran \/ validators # "none"
               /\ tests.ran => tests.passed
               /\ validators # "failed"
    <3>1. CaseStatusOf \in {"complete_repair", "partial_repair"}
      BY <2>2, VerdictFact
    <3>2. ExecutionValidated /\ (tests.ran \/ validators # "none")
      BY <3>1 DEF CaseStatusOf
    <3> QED
      BY <3>2, ValidatedFact
  <2> QED
    BY <2>1, <2>2 DEF CreditIsEarned
<1> QED
  BY <1>1, CaseSpec, PTL

\* HostExecutionIsOnRecord: pack commands run on the host only with the opt-in,
\* tests never for a case with an image, and a repair tested there says so.
THEOREM HostIsOnRecord == EvalSpec => []HostExecutionIsOnRecord
<1>1. CaseInv => HostExecutionIsOnRecord
  <2> SUFFICES ASSUME CaseInv PROVE HostExecutionIsOnRecord
    OBVIOUS
  <2>1. (host # {} => allow_local) /\ (case.docker_image => host \subseteq {"static"})
    BY DEF CaseInv, HostInv
  <2>2. ASSUME HasVerdict
        PROVE  "tests" \in host <=> result.execution_backend = "trusted-local"
    <3>1. result.execution_backend = CaseBackend
      BY <2>2, VerdictFact
    <3>2. CaseBackend = "trusted-local" <=> tests.execution_mode = "local"
      BY DEF CaseBackend
    <3> QED
      BY <2>2, <3>1, <3>2 DEF CaseInv, HostInv
  <2> QED
    BY <2>1, <2>2 DEF HostExecutionIsOnRecord
<1> QED
  BY <1>1, CaseSpec, PTL

\* ChangedTestsVoidTheRepair: the second manifest finds what the commands left
\* of the hidden tests, and unless that is what the pack ships nothing the run
\* showed counts.
THEOREM ChangedTestsAreVoid == EvalSpec => []ChangedTestsVoidTheRepair
<1>1. CaseInv => ChangedTestsVoidTheRepair
  <2> SUFFICES ASSUME CaseInv, HasVerdict, case.tests_dir, hidden # "original"
               PROVE  /\ result.case_status = "tampering"
                      /\ ~result.deterministic_pass
                      /\ result.evidence_status # "repair_validated"
                      /\ result.repair_confidence = "unvalidated"
    BY DEF ChangedTestsVoidTheRepair
  <2>1. integrity_changes
    BY DEF CaseInv, TestsInv
  <2>2. ~ExecutionValidated
    BY <2>1, ValidatedFact
  <2>3. ~(DeterministicReasons = {})
    BY <2>1, NoReason
  <2>4. /\ CaseStatusOf = "tampering" /\ EvidenceOf # "repair_validated"
        /\ RepairConfidence = "unvalidated"
    BY <2>1, <2>2 DEF CaseStatusOf, EvidenceOf, RepairConfidence
  <2> QED
    BY <2>3, <2>4, VerdictFact
<1> QED
  BY <1>1, CaseSpec, PTL

\* AnswersAreTakenWhole: the parser and the transports, for answers of any
\* length: what did not arrive whole finds and repairs nothing, of what is recorded
\* as exact or tolerant every finding is scored, and of competing patches none is
\* applied.
THEOREM AnswersCountWhole == EvalSpec => []AnswersAreTakenWhole
<1>1. CaseInv => AnswersAreTakenWhole
  BY DEF CaseInv, AnswerInv, AnswersAreTakenWhole
<1> QED
  BY <1>1, CaseSpec, PTL

-----------------------------------------------------------------------------
(* The evaluation and the run together. *)

\* What the run reads of the CaseResult of a finished case that cost `price`.
OutcomeOf(price) ==
    IF result.kind = "errored" THEN FailedCase
    ELSE [errored |-> FALSE,
          execution_backend |-> IF HasVerdict THEN result.execution_backend ELSE "none",
          execution_unavailable |-> HasVerdict /\ tests.error \in Unavailable,
          parse_status |-> IF review.status = "exact" THEN "exact"
                           ELSE IF review.status \in {"tolerant", "repaired"} THEN "salvaged"
                           ELSE "invalid",
          estimated_cost |-> price]

\* What run_benchmark assumes of a case, _evaluate_case delivers: under the run's
\* mode and its effective opt-in every case ends with an outcome that RecordResult
\* takes, so that what is proved of the run holds for cases evaluated by
\* CaseEvaluation.
THEOREM OutcomesArePossible ==
    ASSUME NEW price \in Nat
    PROVE  EvalSpec =>
             [](stage = "done" /\ mode = settings.mode /\ allow_local = EffectiveAllowLocal
                  => OutcomeOf(price) \in CaseOutcomes /\ Possible(OutcomeOf(price)))
<1>1. CaseInv =>
        (stage = "done" /\ mode = settings.mode /\ allow_local = EffectiveAllowLocal
           => OutcomeOf(price) \in CaseOutcomes /\ Possible(OutcomeOf(price)))
  <2> SUFFICES ASSUME CaseInv, stage = "done", mode = settings.mode,
                      allow_local = EffectiveAllowLocal
               PROVE  OutcomeOf(price) \in CaseOutcomes /\ Possible(OutcomeOf(price))
    OBVIOUS
  <2>1. CASE result.kind = "errored"
    <3>1. OutcomeOf(price) = FailedCase
      BY <2>1 DEF OutcomeOf
    <3>2. FailedCase \in CaseOutcomes
      BY DEF FailedCase, CaseOutcomes
    <3>3. Possible(FailedCase)
      BY DEF FailedCase, Possible
    <3> QED
      BY <3>1, <3>2, <3>3
  <2>2. CASE result.kind # "errored"
    <3> DEFINE o == OutcomeOf(price)
               backend == IF HasVerdict THEN result.execution_backend ELSE "none"
               missing == HasVerdict /\ tests.error \in Unavailable
               status == IF review.status = "exact" THEN "exact"
                         ELSE IF review.status \in {"tolerant", "repaired"} THEN "salvaged"
                         ELSE "invalid"
    <3>1. o = [errored |-> FALSE, execution_backend |-> backend,
               execution_unavailable |-> missing, parse_status |-> status,
               estimated_cost |-> price]
      BY <2>2 DEF OutcomeOf
    <3>2. /\ backend \in {"none", "docker", "trusted-local"}
          /\ backend = "trusted-local" => allow_local
          /\ missing => backend = "none"
          /\ mode = "review" => backend = "none" /\ ~missing
      <4>1. CASE HasVerdict
        <5>1. backend = CaseBackend /\ mode = "full"
          BY <4>1, VerdictFact DEF CaseInv, VerdictInv
        <5>2. /\ CaseBackend \in {"none", "docker", "trusted-local"}
              /\ CaseBackend = "trusted-local" => tests.execution_mode = "local"
              /\ tests.execution_mode = "skipped" => CaseBackend = "none"
          BY DEF CaseBackend
        <5>3. /\ tests.execution_mode = "local" => allow_local
              /\ tests.error \in Unavailable => tests.execution_mode = "skipped"
          BY DEF CaseInv, HostInv, VerdictInv
        <5> QED
          BY <5>1, <5>2, <5>3
      <4>2. CASE ~HasVerdict
        BY <4>2
      <4> QED
        BY <4>1, <4>2
    <3>3. missing \in BOOLEAN /\ status \in {"exact", "salvaged", "invalid"}
      OBVIOUS
    <3> HIDE DEF o, backend, missing, status
    <3>4. o \in CaseOutcomes
      BY <3>1, <3>2, <3>3 DEF CaseOutcomes
    <3>5. /\ ~o.errored /\ o.execution_backend = backend
          /\ o.execution_unavailable = missing
      BY <3>1
    <3>6. Possible(o)
      BY <3>2, <3>3, <3>5 DEF Possible
    <3> QED
      BY <3>4, <3>6 DEF o
  <2> QED
    BY <2>1, <2>2
<1> QED
  BY <1>1, CaseSpec, PTL

=============================================================================
