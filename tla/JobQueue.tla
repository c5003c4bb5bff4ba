------------------------------ MODULE JobQueue ------------------------------
(***************************************************************************)
(* The in-process job queue behind POST /runs (arena/server/jobs.py) and   *)
(* the handlers that use it (arena/server/routes/runs.py).                 *)
(*                                                                         *)
(* Several request threads call submit; one executor thread runs the jobs; *)
(* any request may poll a job.  JobQueue._lock makes each `with` block one  *)
(* step.  What is NOT under the lock is modelled as separate steps: the    *)
(* hand-over to the executor after the job was inserted (so the executor's *)
(* order may differ from the insertion order) and the handler's read of    *)
(* the live Job object for its 202 answer.                                 *)
(***************************************************************************)
EXTENDS Naturals, Sequences, FiniteSets

CONSTANTS
    Jobs,         \* the uuid4 identifiers, never reused
    Handlers,     \* request threads that may be inside create_run
    MaxPending,   \* JobQueue(max_pending=4)
    MaxFinished,  \* JobQueue(max_finished=100)
    NoJob         \* "no Job object" (None)

ASSUME JobQueueAssumption ==
    /\ MaxPending \in Nat
    /\ MaxFinished \in Nat
    /\ NoJob \notin Jobs

VARIABLES
    status,       \* status[j]: Job.status; "none" before the object exists
    completed_at, \* completed_at[j]: rank of the completion; 0 = None
    jobs,         \* the keys of JobQueue._jobs
    work,         \* the executor's work queue
    current,      \* the job whose execute() the executor thread is in
    held,         \* held[h]: the Job object handler h got from submit
    scheduled,    \* scheduled[h]: h has called _executor.submit
    answer        \* answer[j]: the last status a client was told for j

vars == <<status, completed_at, jobs, work, current, held, scheduled, answer>>

Active == {"queued", "running"}
Finished == {"completed", "failed"}

FinishedJobs == {j \in jobs : status[j] \in Finished}
PendingJobs == {j \in jobs : status[j] \in Active}

\* Every completion ever, evicted or not: the clock that ranks completions.
Completions == {j \in Jobs : status[j] \in Finished}

TypeOK ==
    /\ status \in [Jobs -> {"none"} \cup Active \cup Finished]
    /\ completed_at \in [Jobs -> Nat]
    /\ jobs \subseteq Jobs
    /\ work \in Seq(Jobs)
    /\ current \in Jobs \cup {NoJob}
    /\ held \in [Handlers -> Jobs \cup {NoJob}]
    /\ scheduled \in [Handlers -> BOOLEAN]
    /\ answer \in [Jobs -> {"none", "absent"} \cup Active \cup Finished]

Init ==
    /\ status = [j \in Jobs |-> "none"]
    /\ completed_at = [j \in Jobs |-> 0]
    /\ jobs = {}
    /\ work = <<>>
    /\ current = NoJob
    /\ held = [h \in Handlers |-> NoJob]
    /\ scheduled = [h \in Handlers |-> FALSE]
    /\ answer = [j \in Jobs |-> "none"]

-----------------------------------------------------------------------------

\* The finished jobs of the table that completed after j.
NewerThan(j) == {k \in FinishedJobs : completed_at[k] > completed_at[j]}

\* Mutant of Evicted: the slice keeps the oldest max_finished instead.
EvictNewest ==
    {j \in FinishedJobs :
        Cardinality({k \in FinishedJobs : completed_at[k] < completed_at[j]})
            >= MaxFinished}

\* Mutant of Evicted: the slice leaves one finished job too many.
EvictOneTooFew ==
    {j \in FinishedJobs : Cardinality(NewerThan(j)) > MaxFinished}

\* _evict_finished_locked: sorting the finished jobs by completed_at and
\* dropping all but the last max_finished drops exactly the jobs with at least
\* max_finished newer ones.
Evicted == {j \in FinishedJobs : Cardinality(NewerThan(j)) >= MaxFinished}

\* submit when the queue is full: nothing changes and the handler answers 429.
SubmitFull(h) ==
    /\ held[h] = NoJob
    /\ Cardinality(PendingJobs) >= MaxPending
    /\ UNCHANGED vars

\* The id of a new job: a uuid is fresh, and which one it is makes no difference.
NewId == CHOOSE j \in Jobs : status[j] = "none"

\* submit: one critical section counts, evicts and inserts a fresh queued job.
SubmitAccept(h) ==
    /\ held[h] = NoJob
    /\ Cardinality(PendingJobs) < MaxPending
    /\ \E j \in Jobs :
        /\ status[j] = "none"
        /\ j = NewId
        /\ status' = [status EXCEPT ![j] = "queued"]
        /\ jobs' = (jobs \ Evicted) \cup {j}
        /\ held' = [held EXCEPT ![h] = j]
    /\ scheduled' = [scheduled EXCEPT ![h] = FALSE]
    /\ UNCHANGED <<completed_at, work, current, answer>>

\* Mutant of Schedule: the hand-over is retried after it took effect.
ScheduleTwice(h) ==
    /\ held[h] # NoJob
    /\ ~scheduled[h]
    /\ work' = Append(Append(work, held[h]), held[h])
    /\ scheduled' = [scheduled EXCEPT ![h] = TRUE]
    /\ UNCHANGED <<status, completed_at, jobs, current, held, answer>>

\* self._executor.submit(execute), after the lock was released.
Schedule(h) ==
    /\ held[h] # NoJob
    /\ ~scheduled[h]
    /\ work' = Append(work, held[h])
    /\ scheduled' = [scheduled EXCEPT ![h] = TRUE]
    /\ UNCHANGED <<status, completed_at, jobs, current, held, answer>>

\* create_run's answer reads the live job.status without the lock.
Respond(h) ==
    /\ held[h] # NoJob
    /\ scheduled[h]
    /\ answer' = [answer EXCEPT ![held[h]] = status[held[h]]]
    /\ held' = [held EXCEPT ![h] = NoJob]
    /\ UNCHANGED <<status, completed_at, jobs, work, current, scheduled>>

\* The executor thread takes the next work item (external: ThreadPoolExecutor
\* with max_workers=1 runs the items one at a time, in submission order).
Dequeue ==
    /\ current = NoJob
    /\ work # <<>>
    /\ current' = Head(work)
    /\ work' = Tail(work)
    /\ UNCHANGED <<status, completed_at, jobs, held, scheduled, answer>>

\* execute(), first critical section.
Start ==
    /\ current # NoJob
    /\ status[current] = "queued"
    /\ status' = [status EXCEPT ![current] = "running"]
    /\ UNCHANGED <<completed_at, jobs, work, current, held, scheduled, answer>>

\* Mutant of Finish: an exception from run() escapes execute() unrecorded.
FinishUnlessRaised(outcome) ==
    /\ current # NoJob
    /\ status[current] = "running"
    /\ status' = IF outcome = "failed" THEN status
                 ELSE [status EXCEPT ![current] = outcome]
    /\ completed_at' =
           [completed_at EXCEPT ![current] = Cardinality(Completions) + 1]
    /\ current' = NoJob
    /\ UNCHANGED <<jobs, work, held, scheduled, answer>>

\* Mutant of Finish: a job that raised is queued again.
FinishWithRetry(outcome) ==
    /\ current # NoJob
    /\ status[current] = "running"
    /\ status' = [status EXCEPT ![current] = IF outcome = "failed" THEN "queued" ELSE outcome]
    /\ completed_at' = IF outcome = "failed" THEN completed_at
           ELSE [completed_at EXCEPT ![current] = Cardinality(Completions) + 1]
    /\ work' = IF outcome = "failed" THEN Append(work, current) ELSE work
    /\ current' = NoJob
    /\ UNCHANGED <<jobs, held, scheduled, answer>>

\* execute(), last critical section: run() returned (completed) or raised
\* (failed).  Completions are ranked by the wall clock, taken as increasing.
Finish(outcome) ==
    /\ current # NoJob
    /\ status[current] = "running"
    /\ status' = [status EXCEPT ![current] = outcome]
    /\ completed_at' =
           [completed_at EXCEPT ![current] = Cardinality(Completions) + 1]
    /\ current' = NoJob
    /\ UNCHANGED <<jobs, work, held, scheduled, answer>>

\* GET /runs/jobs/{id}: JobQueue.get copies the job under the lock, and the
\* route answers 404 when it is not in the table.
Poll(j) ==
    /\ answer[j] # "none"
    /\ answer' = [answer EXCEPT ![j] = IF j \in jobs THEN status[j] ELSE "absent"]
    /\ UNCHANGED <<status, completed_at, jobs, work, current, held, scheduled>>

Worker == Dequeue \/ Start \/ \E outcome \in Finished : Finish(outcome)

Next ==
    \/ \E h \in Handlers :
        SubmitFull(h) \/ SubmitAccept(h) \/ Schedule(h) \/ Respond(h)
    \/ Worker
    \/ \E j \in Jobs : Poll(j)

\* A handler that has inserted a job goes on to schedule it, and the executor
\* thread keeps working.  WF on Finish assumes that run() returns or raises.
\* Nobody is obliged to submit or to poll.
Fairness ==
    /\ \A h \in Handlers : WF_vars(Schedule(h))
    /\ WF_vars(Worker)

Spec == Init /\ [][Next]_vars /\ Fairness

-----------------------------------------------------------------------------

\* What JobQueue promises its clients, in the terms of JobLedger.
LedgerView ==
    [j \in Jobs |-> IF status[j] = "none" \/ j \in jobs THEN status[j]
                    ELSE "forgotten"]

Ledger == INSTANCE JobLedger WITH ledger <- LedgerView

\* The threads, the lock and the unlocked hand-over implement the ledger,
\* fairness included: every job the executor can start is started, and every
\* running job ends.
ImplementsLedger == Ledger!Spec

\* The table is bounded for the server's lifetime (the point of max_pending
\* and of _evict_finished_locked): at most max_pending jobs wait or run, and
\* finished jobs exceed max_finished only by what finished since the last
\* accepted submission.
BoundedTable ==
    /\ Cardinality(PendingJobs) <= MaxPending
    /\ Cardinality(jobs) <= MaxPending + MaxFinished

\* A client can always find a job that is not done, and one of the max_finished
\* most recently finished: eviction never forgets an active job or a recent
\* result, whatever the order in which jobs were inserted and executed.
RecentJobsAreKept ==
    \A j \in Jobs :
        \/ status[j] = "none"
        \/ j \in jobs
        \/ /\ status[j] \in Finished
           /\ Cardinality({k \in Completions : completed_at[k] > completed_at[j]})
                 >= MaxFinished

\* The hand-over outside the lock loses and duplicates nothing: a job that is
\* queued is waiting with exactly one of its handler, the executor's queue and
\* the executor thread, and nothing else is waiting anywhere.
Waiting(j) ==
    Cardinality({h \in Handlers : held[h] = j /\ ~scheduled[h]})
      + Cardinality({i \in DOMAIN work : work[i] = j})
      + (IF current = j THEN 1 ELSE 0)

ExactlyOnceHandOver ==
    \A j \in Jobs : Waiting(j) = IF status[j] \in Active THEN 1 ELSE 0

\* What clients are told about a job (202 body, polls) only moves forward:
\* queued, running, one final outcome, then 404 for good.
Rank(s) ==
    CASE s = "none" -> 0 [] s = "queued" -> 1 [] s = "running" -> 2
      [] s \in Finished -> 3 [] s = "absent" -> 4

AnswersMoveForward ==
    [][\A j \in Jobs :
         \/ answer'[j] = answer[j]
         \/ Rank(answer'[j]) > Rank(answer[j])]_vars

=============================================================================
