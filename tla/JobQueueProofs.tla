--------------------------- MODULE JobQueueProofs ---------------------------
(***************************************************************************)
(* Proofs about JobQueue for every number of jobs and handlers and every   *)
(* max_pending and max_finished.                                           *)
(***************************************************************************)
EXTENDS JobQueue, FiniteSetTheorems, TLAPS

\* Every nonempty set of naturals has a least element.
LEMMA LeastNatural ==
    ASSUME NEW S \in SUBSET Nat, S # {}
    PROVE  \E m \in S : \A n \in S : m <= n
<1>1. PICK m \in S : \A n \in S : ~(<<n, m>> \in OpToRel(<, Nat))
    BY NatLessThanWellFounded, WFMin
<1>2. \A n \in S : ~(n < m)
    BY <1>1 DEF OpToRel
<1>. QED
    BY <1>2

\* The counting argument behind _evict_finished_locked: of a finite set of
\* jobs with distinct completion times, at most m have fewer than m newer ones.
LEMMA FewRecent ==
    ASSUME NEW F, IsFiniteSet(F), NEW m \in Nat, NEW at,
           \A j \in F : at[j] \in Nat,
           \A j, k \in F : at[j] = at[k] => j = k
    PROVE  Cardinality({j \in F : ~(Cardinality({k \in F : at[k] > at[j]}) >= m)}) <= m
<1> DEFINE Newer(j) == {k \in F : at[k] > at[j]}
           Kept == {j \in F : ~(Cardinality(Newer(j)) >= m)}
<1> SUFFICES Cardinality(Kept) <= m
    OBVIOUS
<1>1. IsFiniteSet(Kept) /\ Cardinality(Kept) \in Nat
    BY FS_Subset, FS_CardinalityType, Kept \in SUBSET F
<1>2. CASE Kept = {}
    <2>1. Cardinality(Kept) = 0
        BY <1>2, FS_EmptySet
    <2>. QED
        BY <2>1
<1>3. CASE Kept # {}
    <2> DEFINE Times == {at[j] : j \in Kept}
    <2>1. Times \in SUBSET Nat /\ Times # {}
        <3>1. Kept \subseteq F
            OBVIOUS
        <3> HIDE DEF Kept
        <3> QED
            BY <1>3, <3>1
    <2> HIDE DEF Times
    <2>2. PICK t \in Times : \A n \in Times : t <= n
        BY <2>1, LeastNatural
    <2>3. PICK j \in Kept : at[j] = t
        BY <2>2 DEF Times
    <2>4. Kept \ {j} \subseteq Newer(j)
        <3> SUFFICES ASSUME NEW k \in Kept, k # j PROVE k \in Newer(j)
            OBVIOUS
        <3>1. at[k] \in Times /\ at[k] \in Nat /\ at[j] \in Nat
            BY DEF Times
        <3>2. at[j] <= at[k] /\ at[j] # at[k]
            BY <2>2, <2>3, <3>1
        <3>. QED
            BY <3>1, <3>2
    <2>5. IsFiniteSet(Newer(j)) /\ Cardinality(Newer(j)) \in Nat
        BY FS_Subset, FS_CardinalityType, Newer(j) \in SUBSET F
    <2>6. Cardinality(Newer(j)) < m
        BY <2>5
    <2> HIDE DEF Newer, Kept
    <2>7. Cardinality(Kept \ {j}) <= Cardinality(Newer(j))
        BY <2>4, <2>5, FS_Subset
    <2>8. Cardinality(Kept \ {j}) = Cardinality(Kept) - 1
        BY <1>1, FS_RemoveElement
    <2>. QED
        BY <1>1, <2>5, <2>6, <2>7, <2>8
<1>. QED
    BY <1>2, <1>3

-----------------------------------------------------------------------------

(***************************************************************************)
(* The inductive invariant.  BoundedTable needs to know that no job in the *)
(* table is unborn and that completion times are distinct (FewRecent);     *)
(* they are because each is the number of completions so far, which has to *)
(* be finite.  RecentJobsAreKept also says that unfinished jobs are in the *)
(* table.                                                                  *)
(***************************************************************************)
DistinctTimes ==
    /\ \A j \in Completions : completed_at[j] <= Cardinality(Completions)
    /\ \A j, k \in Completions : completed_at[j] = completed_at[k] => j = k

IInv ==
    /\ TypeOK
    /\ IsFiniteSet(Completions)
    /\ IsFiniteSet(jobs)
    /\ \A j \in jobs : status[j] # "none"
    /\ \A j \in Jobs : status[j] = "running" => j = current
    /\ DistinctTimes
    /\ BoundedTable
    /\ RecentJobsAreKept

\* Nothing has happened: every set is empty.
LEMMA InitIInv == Init => IInv
<1> SUFFICES ASSUME Init PROVE IInv
    OBVIOUS
<1> USE JobQueueAssumption DEF Init, Active, Finished
<1>1. Completions = {} /\ PendingJobs = {} /\ jobs = {}
    BY DEF Completions, PendingJobs
<1>2. TypeOK
    BY DEF TypeOK
<1>3. BoundedTable
    BY <1>1, FS_EmptySet DEF BoundedTable
<1>. QED
    BY <1>1, <1>2, <1>3, FS_EmptySet DEF IInv, DistinctTimes, RecentJobsAreKept

\* submit keeps the invariant: what eviction leaves is bounded, and what it
\* drops has max_finished newer completions.
LEMMA SubmitIInv ==
    ASSUME IInv, NEW h \in Handlers, SubmitAccept(h)
    PROVE  IInv'
<1> USE JobQueueAssumption DEF Active, Finished
<1>1. PICK j \in Jobs :
        /\ status[j] = "none"
        /\ status' = [status EXCEPT ![j] = "queued"]
        /\ jobs' = (jobs \ Evicted) \cup {j}
        /\ held' = [held EXCEPT ![h] = j]
    BY DEF SubmitAccept
<1>2. TypeOK'
    BY <1>1 DEF IInv, TypeOK, SubmitAccept
<1>3. Completions' = Completions /\ UNCHANGED <<completed_at, current>>
    BY <1>1 DEF IInv, TypeOK, SubmitAccept, Completions
<1>4. \A k \in jobs' : status'[k] # "none"
    BY <1>1 DEF IInv, TypeOK, Evicted
<1>5. PendingJobs' = PendingJobs \cup {j} /\ j \notin jobs
    BY <1>1 DEF IInv, TypeOK, PendingJobs, Evicted, FinishedJobs
<1>6. /\ IsFiniteSet(PendingJobs) /\ Cardinality(PendingJobs) \in Nat
      /\ IsFiniteSet(FinishedJobs)
      /\ IsFiniteSet(FinishedJobs \ Evicted)
      /\ Cardinality(FinishedJobs \ Evicted) \in Nat
    <2>1. /\ PendingJobs \in SUBSET jobs /\ FinishedJobs \in SUBSET jobs
          /\ FinishedJobs \ Evicted \in SUBSET jobs
        BY DEF PendingJobs, FinishedJobs
    <2>. QED
        BY <2>1, FS_Subset, FS_CardinalityType DEF IInv
<1>7. Cardinality(PendingJobs') <= MaxPending
    <2>1. Cardinality(PendingJobs') = Cardinality(PendingJobs) + 1
        BY <1>5, <1>6, FS_AddElement DEF PendingJobs
    <2>. QED
        BY <1>6, <2>1 DEF SubmitAccept
<1>8. Cardinality(FinishedJobs \ Evicted) <= MaxFinished
    <2>1. FinishedJobs \ Evicted =
            {i \in FinishedJobs :
               ~(Cardinality({k \in FinishedJobs : completed_at[k] > completed_at[i]})
                   >= MaxFinished)}
        BY DEF Evicted, NewerThan
    <2>2. /\ \A i \in FinishedJobs : completed_at[i] \in Nat
          /\ \A i, k \in FinishedJobs : completed_at[i] = completed_at[k] => i = k
        BY DEF IInv, TypeOK, DistinctTimes, FinishedJobs, Completions
    <2>. QED
        BY <1>6, <2>1, <2>2, FewRecent
<1>9. jobs' = PendingJobs' \cup (FinishedJobs \ Evicted)
    BY <1>1, <1>5 DEF IInv, TypeOK, PendingJobs, FinishedJobs, Evicted
<1>10. IsFiniteSet(PendingJobs') /\ Cardinality(PendingJobs') \in Nat
    BY <1>5, <1>6, FS_AddElement, FS_CardinalityType
<1>11. IsFiniteSet(jobs') /\ Cardinality(jobs') <= MaxPending + MaxFinished
    <2>1. IsFiniteSet(PendingJobs' \cap (FinishedJobs \ Evicted))
        BY <1>10, FS_Intersection
    <2>2. Cardinality(PendingJobs' \cap (FinishedJobs \ Evicted)) \in Nat
        BY <2>1, FS_CardinalityType
    <2>3. /\ IsFiniteSet(jobs')
          /\ Cardinality(jobs') = Cardinality(PendingJobs')
               + Cardinality(FinishedJobs \ Evicted)
               - Cardinality(PendingJobs' \cap (FinishedJobs \ Evicted))
        BY <1>6, <1>9, <1>10, FS_Union
    <2>. QED
        BY <1>6, <1>7, <1>8, <1>10, <2>2, <2>3
<1>12. RecentJobsAreKept'
    <2> SUFFICES ASSUME NEW i \in Jobs, status'[i] # "none", i \notin jobs'
                 PROVE  /\ status'[i] \in Finished
                        /\ Cardinality({k \in Completions : completed_at[k] > completed_at[i]})
                              >= MaxFinished
        BY <1>3 DEF RecentJobsAreKept
    <2>1. i # j /\ status'[i] = status[i]
        BY <1>1 DEF IInv, TypeOK
    <2>2. CASE i \notin jobs
        BY <2>1, <2>2 DEF IInv, RecentJobsAreKept
    <2>3. CASE i \in jobs
        <3> DEFINE Newer == {k \in Completions : completed_at[k] > completed_at[i]}
        <3>1. i \in Evicted
            BY <1>1, <2>3
        <3>2. status[i] \in Finished /\ Cardinality(NewerThan(i)) >= MaxFinished
            BY <3>1 DEF Evicted, FinishedJobs
        <3>3. NewerThan(i) \in SUBSET Newer /\ Newer \in SUBSET Completions
            BY DEF NewerThan, FinishedJobs, Completions, IInv, TypeOK
        <3>4. IsFiniteSet(Newer)
            BY <3>3, FS_Subset DEF IInv
        <3>5. /\ Cardinality(NewerThan(i)) <= Cardinality(Newer)
              /\ Cardinality(NewerThan(i)) \in Nat /\ Cardinality(Newer) \in Nat
            BY <3>3, <3>4, FS_Subset, FS_CardinalityType
        <3>6. Cardinality(Newer) >= MaxFinished
            BY <3>2, <3>5
        <3>. QED
            BY <2>1, <3>2, <3>6
    <2>. QED
        BY <2>2, <2>3
<1>13. \A k \in Jobs : status'[k] = "running" => k = current'
    BY <1>1, <1>3 DEF IInv, TypeOK
<1>14. DistinctTimes'
    BY <1>3 DEF IInv, DistinctTimes
<1>. QED
    BY <1>2, <1>3, <1>4, <1>7, <1>11, <1>12, <1>13, <1>14 DEF IInv, BoundedTable

\* execute() marking a job running leaves every set of the invariant alone.
LEMMA StartIInv ==
    ASSUME IInv, Start
    PROVE  IInv'
<1> USE JobQueueAssumption DEF Active, Finished
<1>1. TypeOK'
    BY DEF IInv, TypeOK, Start
<1>2. /\ Completions' = Completions /\ PendingJobs' = PendingJobs
      /\ jobs' = jobs /\ completed_at' = completed_at
    BY DEF IInv, TypeOK, Start, Completions, PendingJobs
<1>3. RecentJobsAreKept'
    BY <1>2 DEF IInv, TypeOK, Start, RecentJobsAreKept
<1>. QED
    BY <1>1, <1>2, <1>3 DEF IInv, TypeOK, Start, DistinctTimes, BoundedTable

\* The end of execute() adds one completion, newer than all others.
LEMMA FinishIInv ==
    ASSUME IInv, NEW o \in Finished, Finish(o)
    PROVE  IInv'
<1> USE JobQueueAssumption DEF Active, Finished
<1> DEFINE n == Cardinality(Completions)
<1>1. n \in Nat /\ current \in Jobs /\ current \notin Completions
    BY FS_CardinalityType DEF IInv, TypeOK, Finish, Completions
<1>2. TypeOK'
    BY <1>1 DEF IInv, TypeOK, Finish
<1>3. Completions' = Completions \cup {current}
    BY DEF IInv, TypeOK, Finish, Completions
<1>4. IsFiniteSet(Completions') /\ Cardinality(Completions') = n + 1
    BY <1>1, <1>3, FS_AddElement DEF IInv
<1>5. /\ \A k \in Completions : completed_at'[k] = completed_at[k]
      /\ completed_at'[current] = n + 1
    BY <1>1 DEF IInv, TypeOK, Finish, Completions
<1>6. \A k \in Completions : completed_at[k] \in Nat /\ completed_at[k] <= n
    BY DEF IInv, TypeOK, DistinctTimes, Completions
<1> HIDE DEF n
<1>7. DistinctTimes'
    <2>1. \A k \in Completions' : completed_at'[k] <= Cardinality(Completions')
        BY <1>1, <1>3, <1>4, <1>5, <1>6
    <2>2. \A i, k \in Completions' : completed_at'[i] = completed_at'[k] => i = k
        BY <1>1, <1>3, <1>5, <1>6 DEF IInv, DistinctTimes
    <2>. QED
        BY <2>1, <2>2 DEF DistinctTimes
<1>8. PendingJobs' \in SUBSET PendingJobs /\ jobs' = jobs
    BY DEF IInv, TypeOK, Finish, PendingJobs
<1>9. BoundedTable'
    <2>1. IsFiniteSet(PendingJobs) /\ PendingJobs \in SUBSET jobs
        BY FS_Subset DEF IInv, PendingJobs
    <2>2. IsFiniteSet(PendingJobs') /\ Cardinality(PendingJobs') <= Cardinality(PendingJobs)
        BY <1>8, <2>1, FS_Subset
    <2>3. Cardinality(PendingJobs') \in Nat /\ Cardinality(PendingJobs) \in Nat
        BY <2>1, <2>2, FS_CardinalityType
    <2>. QED
        BY <1>8, <2>2, <2>3 DEF IInv, BoundedTable
<1>10. RecentJobsAreKept'
    <2> SUFFICES ASSUME NEW i \in Jobs, status'[i] # "none", i \notin jobs'
                 PROVE  /\ status'[i] \in Finished
                        /\ Cardinality({k \in Completions' : completed_at'[k] > completed_at'[i]})
                              >= MaxFinished
        BY DEF RecentJobsAreKept
    <2> DEFINE Old == {k \in Completions : completed_at[k] > completed_at[i]}
               New == {k \in Completions' : completed_at'[k] > completed_at'[i]}
    <2>1. current \in jobs
        BY <1>1 DEF IInv, RecentJobsAreKept, Finish
    <2>2. i # current /\ status'[i] = status[i] /\ completed_at'[i] = completed_at[i]
        BY <1>8, <2>1 DEF IInv, TypeOK, Finish
    <2>3. status[i] \in Finished /\ Cardinality(Old) >= MaxFinished
        BY <1>8, <2>2 DEF IInv, RecentJobsAreKept
    <2>4. Old \in SUBSET New /\ New \in SUBSET Completions'
        BY <1>3, <1>5, <2>2
    <2> HIDE DEF Old, New
    <2>5. IsFiniteSet(New)
        BY <1>4, <2>4, FS_Subset
    <2>6. /\ Cardinality(Old) <= Cardinality(New)
          /\ Cardinality(Old) \in Nat /\ Cardinality(New) \in Nat
        BY <2>4, <2>5, FS_Subset, FS_CardinalityType
    <2>7. Cardinality(New) >= MaxFinished
        BY <2>3, <2>6
    <2>. QED
        BY <2>2, <2>3, <2>7 DEF New
<1>11. \A k \in jobs' : status'[k] # "none"
    BY <1>8 DEF IInv, TypeOK, Finish
<1>12. \A k \in Jobs : status'[k] = "running" => k = current'
    BY DEF IInv, TypeOK, Finish
<1>13. IsFiniteSet(jobs')
    BY <1>8 DEF IInv
<1>. QED
    BY <1>2, <1>4, <1>7, <1>9, <1>10, <1>11, <1>12, <1>13 DEF IInv

\* A step that changes none of status, completed_at and jobs, and takes a new
\* job only when none is current, keeps the invariant.
LEMMA FrameIInv ==
    ASSUME IInv, TypeOK', UNCHANGED <<status, completed_at, jobs>>,
           current' = current \/ current = NoJob
    PROVE  IInv'
<1>1. Completions' = Completions /\ PendingJobs' = PendingJobs
    BY DEF Completions, PendingJobs
<1>2. BoundedTable' /\ RecentJobsAreKept' /\ DistinctTimes'
    BY <1>1 DEF IInv, BoundedTable, RecentJobsAreKept, DistinctTimes
<1>3. \A k \in Jobs : status'[k] = "running" => k = current'
    BY JobQueueAssumption DEF IInv
<1>. QED
    BY <1>1, <1>2, <1>3 DEF IInv

\* The invariant is inductive.
LEMMA NextIInv == IInv /\ [Next]_vars => IInv'
<1> SUFFICES ASSUME IInv, [Next]_vars PROVE IInv'
    OBVIOUS
<1> USE JobQueueAssumption DEF Active, Finished
<1>1. ASSUME NEW h \in Handlers, Schedule(h) PROVE IInv'
    <2>1. TypeOK'
        BY <1>1 DEF IInv, TypeOK, Schedule
    <2>. QED
        BY <1>1, <2>1, FrameIInv DEF Schedule
<1>2. ASSUME NEW h \in Handlers, Respond(h) PROVE IInv'
    <2>1. TypeOK'
        BY <1>2 DEF IInv, TypeOK, Respond
    <2>. QED
        BY <1>2, <2>1, FrameIInv DEF Respond
<1>3. CASE Dequeue
    <2>1. TypeOK'
        BY <1>3 DEF IInv, TypeOK, Dequeue
    <2>. QED
        BY <1>3, <2>1, FrameIInv DEF Dequeue
<1>4. ASSUME NEW j \in Jobs, Poll(j) PROVE IInv'
    <2>1. TypeOK'
        BY <1>4 DEF IInv, TypeOK, Poll
    <2>. QED
        BY <1>4, <2>1, FrameIInv DEF Poll
<1>5. ASSUME UNCHANGED vars PROVE IInv'
    <2>1. TypeOK'
        BY <1>5 DEF IInv, TypeOK, vars
    <2>. QED
        BY <1>5, <2>1, FrameIInv DEF vars
<1>. QED
    BY <1>1, <1>2, <1>3, <1>4, <1>5, SubmitIInv, StartIInv, FinishIInv
    DEF Next, Worker, SubmitFull

\* Every reachable state satisfies the inductive invariant.
LEMMA Invariance == Spec => []IInv
    BY InitIInv, NextIInv, PTL DEF Spec

\* Every variable keeps its type, the finiteness of the completion clock
\* included.
THEOREM TypeCorrect == Spec => []TypeOK
<1>1. IInv => TypeOK
    BY DEF IInv
<1>. QED
    BY <1>1, Invariance, PTL

\* For every max_pending and max_finished the job table never holds more than
\* max_pending unfinished jobs, nor more than their sum in total.
THEOREM TableStaysBounded == Spec => []BoundedTable
<1>1. IInv => BoundedTable
    BY DEF IInv
<1>. QED
    BY <1>1, Invariance, PTL

\* _evict_finished_locked never drops an unfinished job or one of the
\* max_finished most recent results.
THEOREM EvictionKeepsRecent == Spec => []RecentJobsAreKept
<1>1. IInv => RecentJobsAreKept
    BY DEF IInv
<1>. QED
    BY <1>1, Invariance, PTL

-----------------------------------------------------------------------------

(***************************************************************************)
(* Refinement: the safety part of ImplementsLedger.                        *)
(***************************************************************************)

\* A step of JobQueue is a step of JobLedger or leaves the ledger alone.
LEMMA LedgerStep == IInv /\ [Next]_vars => [Ledger!Next]_LedgerView
<1> SUFFICES ASSUME IInv, [Next]_vars PROVE [Ledger!Next]_LedgerView
    OBVIOUS
<1> USE JobQueueAssumption DEF Active, Finished
<1>1. ASSUME NEW h \in Handlers, SubmitAccept(h) PROVE Ledger!Next
    <2>1. PICK j \in Jobs :
            /\ status[j] = "none"
            /\ status' = [status EXCEPT ![j] = "queued"]
            /\ jobs' = (jobs \ Evicted) \cup {j}
        BY <1>1 DEF SubmitAccept
    <2>2. Ledger!Unfinished = PendingJobs
        BY DEF Ledger!Unfinished, LedgerView, PendingJobs, IInv, TypeOK, RecentJobsAreKept
    <2>3. Evicted \in SUBSET Ledger!Done
        BY DEF Evicted, FinishedJobs, Ledger!Done, LedgerView, IInv, TypeOK
    <2>4. LedgerView' = [k \in Jobs |-> IF k = j THEN "queued"
                                        ELSE IF k \in Evicted THEN "forgotten"
                                        ELSE LedgerView[k]]
        BY <2>1 DEF LedgerView, IInv, TypeOK, Evicted, FinishedJobs
    <2>5. LedgerView[j] = "none"
        BY <2>1 DEF LedgerView
    <2>6. Ledger!Cardinality(PendingJobs) = Cardinality(PendingJobs)
        BY DEF Ledger!Cardinality, Cardinality, Ledger!IsFiniteSet, IsFiniteSet
    <2>7. Ledger!Accept(j, Evicted)
        BY <1>1, <2>2, <2>3, <2>4, <2>5, <2>6 DEF Ledger!Accept, SubmitAccept
    <2>. QED
        BY <2>3, <2>7 DEF Ledger!Next
<1>2. CASE Start
    <2>1. current \in Jobs /\ current \in jobs /\ LedgerView[current] = "queued"
        BY <1>2 DEF Start, IInv, TypeOK, RecentJobsAreKept, LedgerView
    <2>2. \A k \in Jobs : LedgerView[k] # "running"
        BY <1>2 DEF Start, IInv, LedgerView
    <2>3. LedgerView' = [LedgerView EXCEPT ![current] = "running"]
        BY <1>2, <2>1 DEF Start, IInv, TypeOK, LedgerView
    <2>. QED
        BY <2>1, <2>2, <2>3 DEF Ledger!Next, Ledger!Begin
<1>3. ASSUME NEW o \in Finished, Finish(o) PROVE Ledger!Next
    <2>1. current \in Jobs /\ current \in jobs /\ LedgerView[current] = "running"
        BY <1>3 DEF Finish, IInv, TypeOK, RecentJobsAreKept, LedgerView
    <2>2. LedgerView' = [LedgerView EXCEPT ![current] = o]
        BY <1>3, <2>1 DEF Finish, IInv, TypeOK, LedgerView
    <2>. QED
        BY <2>1, <2>2 DEF Ledger!Next, Ledger!End
<1>4. ASSUME UNCHANGED <<status, jobs>> PROVE UNCHANGED LedgerView
    BY <1>4 DEF LedgerView
<1>. QED
    BY <1>1, <1>2, <1>3, <1>4
    DEF Next, Worker, SubmitFull, Schedule, Respond, Dequeue, Poll, vars

\* JobQueue implements the safety part of JobLedger: whatever the threads do,
\* the table seen by clients changes only as the ledger allows.
THEOREM RefinesLedger == Spec => Ledger!Safe
<1>1. Init => Ledger!Init
    BY DEF Init, Ledger!Init, LedgerView
<1>. QED
    BY <1>1, LedgerStep, Invariance, PTL DEF Spec, Ledger!Safe

-----------------------------------------------------------------------------

(***************************************************************************)
(* The hand-over outside the lock.  Counting is replaced by what it means: *)
(* a job waits in at most one place, and in one exactly while it is        *)
(* unfinished.                                                             *)
(***************************************************************************)
WithHandler(h, j) == held[h] = j /\ ~scheduled[h]

OnePlace ==
    /\ \A j \in Jobs, g, h \in Handlers : WithHandler(g, j) /\ WithHandler(h, j) => g = h
    /\ \A a, b \in DOMAIN work : work[a] = work[b] => a = b
    /\ \A j \in Jobs, h \in Handlers :
         WithHandler(h, j) => current # j /\ \A a \in DOMAIN work : work[a] # j
    /\ \A a \in DOMAIN work : work[a] # current

SomePlace ==
    \A j \in Jobs :
        status[j] \in Active <=> \/ \E h \in Handlers : WithHandler(h, j)
                                 \/ \E a \in DOMAIN work : work[a] = j
                                 \/ current = j

HandOverInv == TypeOK /\ OnePlace /\ SomePlace

LEMMA HandOverInit == Init => HandOverInv
<1> SUFFICES ASSUME Init PROVE HandOverInv
    OBVIOUS
<1>1. TypeOK
    BY InitIInv DEF IInv
<1>. QED
    BY <1>1, JobQueueAssumption
    DEF Init, HandOverInv, OnePlace, SomePlace, WithHandler, Active

\* A fresh job is new to every place, and its handler alone has it.
LEMMA SubmitHandOver ==
    ASSUME HandOverInv, NEW h \in Handlers, SubmitAccept(h), TypeOK' PROVE HandOverInv'
<1> USE JobQueueAssumption DEF Active, Finished
<1>1. PICK j \in Jobs :
        /\ status[j] = "none"
        /\ status' = [status EXCEPT ![j] = "queued"]
        /\ held' = [held EXCEPT ![h] = j]
    BY DEF SubmitAccept
<1>2. held[h] = NoJob /\ scheduled' = [scheduled EXCEPT ![h] = FALSE] /\ UNCHANGED <<work, current>>
    BY DEF SubmitAccept
<1>3. /\ \A g \in Handlers : ~WithHandler(g, j)
      /\ \A a \in DOMAIN work : work[a] # j
      /\ current # j
    BY <1>1 DEF HandOverInv, SomePlace
<1>4. \A g \in Handlers, k \in Jobs :
        WithHandler(g, k)' <=> IF g = h THEN k = j ELSE WithHandler(g, k)
    BY <1>1, <1>2 DEF WithHandler, HandOverInv, TypeOK
<1>5. \A k \in Jobs : ~WithHandler(h, k)
    BY <1>2 DEF WithHandler
<1>6. OnePlace'
    BY <1>2, <1>3, <1>4 DEF HandOverInv, OnePlace
<1>7. SomePlace'
    <2> SUFFICES ASSUME NEW k \in Jobs
                 PROVE  status'[k] \in Active <=> \/ \E g \in Handlers : WithHandler(g, k)'
                                                  \/ \E a \in DOMAIN work : work[a] = k
                                                  \/ current = k
        BY <1>2 DEF SomePlace
    <2>1. CASE k = j
        BY <1>1, <1>4, <2>1 DEF HandOverInv, TypeOK
    <2>2. CASE k # j
        <3>1. status'[k] = status[k]
            BY <1>1, <2>2 DEF HandOverInv, TypeOK
        <3>2. (\E g \in Handlers : WithHandler(g, k)') <=> (\E g \in Handlers : WithHandler(g, k))
            BY <1>4, <1>5, <2>2
        <3>. QED
            BY <3>1, <3>2 DEF HandOverInv, SomePlace
    <2>. QED
        BY <2>1, <2>2
<1>. QED
    BY <1>6, <1>7 DEF HandOverInv

\* _executor.submit moves the job from its handler to the end of the queue.
LEMMA ScheduleHandOver ==
    ASSUME HandOverInv, NEW h \in Handlers, Schedule(h), TypeOK' PROVE HandOverInv'
<1> USE JobQueueAssumption DEF Active, Finished
<1>1. PICK j \in Jobs : held[h] = j
    BY DEF Schedule, HandOverInv, TypeOK
<1>2. WithHandler(h, j) /\ UNCHANGED <<status, current, held>>
    BY <1>1 DEF Schedule, WithHandler
<1>3. /\ DOMAIN work' = 1..(Len(work) + 1) /\ DOMAIN work = 1..Len(work) /\ Len(work) \in Nat
      /\ \A a \in 1..Len(work) : work'[a] = work[a]
      /\ work'[Len(work) + 1] = j
    BY <1>1 DEF Schedule, HandOverInv, TypeOK
<1>4. \A g \in Handlers, k \in Jobs :
        WithHandler(g, k)' <=> g # h /\ WithHandler(g, k)
    BY <1>2 DEF Schedule, WithHandler, HandOverInv, TypeOK
<1>5. \A k \in Jobs : WithHandler(h, k) <=> k = j
    BY <1>1, <1>2 DEF WithHandler
<1>6. /\ \A a \in DOMAIN work : work[a] # j
      /\ current # j /\ \A g \in Handlers : g # h => ~WithHandler(g, j)
    BY <1>2 DEF HandOverInv, OnePlace
<1>7. OnePlace'
    <2>1. \A a, b \in DOMAIN work' : work'[a] = work'[b] => a = b
        BY <1>3, <1>6 DEF HandOverInv, OnePlace
    <2>2. \A a \in DOMAIN work' : work'[a] # current'
        BY <1>2, <1>3, <1>6 DEF HandOverInv, OnePlace
    <2>3. \A k \in Jobs, g \in Handlers :
            WithHandler(g, k)' => current' # k /\ \A a \in DOMAIN work' : work'[a] # k
        BY <1>2, <1>3, <1>4, <1>6 DEF HandOverInv, OnePlace
    <2>4. \A k \in Jobs, f, g \in Handlers : WithHandler(f, k)' /\ WithHandler(g, k)' => f = g
        BY <1>4 DEF HandOverInv, OnePlace
    <2>. QED
        BY <2>1, <2>2, <2>3, <2>4 DEF OnePlace
<1>8. SomePlace'
    <2> SUFFICES ASSUME NEW k \in Jobs
                 PROVE  status[k] \in Active <=> \/ \E g \in Handlers : WithHandler(g, k)'
                                                 \/ \E a \in DOMAIN work' : work'[a] = k
                                                 \/ current = k
        BY <1>2 DEF SomePlace
    <2>1. (\E a \in DOMAIN work' : work'[a] = k) <=> (k = j \/ \E a \in DOMAIN work : work[a] = k)
        BY <1>3
    <2>2. (\E g \in Handlers : WithHandler(g, k)) <=> (k = j \/ \E g \in Handlers : WithHandler(g, k)')
        BY <1>4, <1>5, <1>6
    <2>. QED
        BY <2>1, <2>2 DEF HandOverInv, SomePlace
<1>. QED
    BY <1>7, <1>8 DEF HandOverInv

\* The executor takes the job at the head of the queue.
LEMMA DequeueHandOver ==
    ASSUME HandOverInv, Dequeue, TypeOK' PROVE HandOverInv'
<1> USE JobQueueAssumption DEF Active, Finished
<1>1. /\ current = NoJob /\ current' = work[1] /\ UNCHANGED <<status, held, scheduled>>
      /\ Len(work) \in Nat \ {0} /\ DOMAIN work = 1..Len(work)
      /\ DOMAIN work' = 1..(Len(work) - 1)
      /\ \A a \in DOMAIN work' : work'[a] = work[a + 1]
    BY DEF Dequeue, HandOverInv, TypeOK
<1>2. \A a \in DOMAIN work : work[a] \in Jobs
    BY DEF HandOverInv, TypeOK
<1>3. \A g \in Handlers, k \in Jobs : WithHandler(g, k)' <=> WithHandler(g, k)
    BY <1>1 DEF WithHandler
<1>4. \A a \in DOMAIN work' : a + 1 \in DOMAIN work /\ a + 1 # 1
    BY <1>1
<1>5. 1 \in DOMAIN work
    BY <1>1
<1>6. OnePlace'
    <2>1. \A a, b \in DOMAIN work' : work'[a] = work'[b] => a = b
        <3> SUFFICES ASSUME NEW a \in DOMAIN work', NEW b \in DOMAIN work', work'[a] = work'[b]
                     PROVE  a = b
            OBVIOUS
        <3>1. work[a + 1] = work[b + 1]
            BY <1>1
        <3>2. a + 1 = b + 1
            BY <1>4, <3>1 DEF HandOverInv, OnePlace
        <3>. QED
            BY <1>1, <3>2
    <2>2. \A a \in DOMAIN work' : work'[a] # current'
        BY <1>1, <1>4, <1>5 DEF HandOverInv, OnePlace
    <2>3. \A k \in Jobs, g \in Handlers :
            WithHandler(g, k)' => current' # k /\ \A a \in DOMAIN work' : work'[a] # k
        BY <1>1, <1>3, <1>4, <1>5 DEF HandOverInv, OnePlace
    <2>4. \A k \in Jobs, f, g \in Handlers : WithHandler(f, k)' /\ WithHandler(g, k)' => f = g
        BY <1>3 DEF HandOverInv, OnePlace
    <2>. QED
        BY <2>1, <2>2, <2>3, <2>4 DEF OnePlace
<1>7. SomePlace'
    <2> SUFFICES ASSUME NEW k \in Jobs
                 PROVE  status[k] \in Active <=> \/ \E g \in Handlers : WithHandler(g, k)'
                                                 \/ \E a \in DOMAIN work' : work'[a] = k
                                                 \/ current' = k
        BY <1>1 DEF SomePlace
    <2>1. ASSUME NEW a \in DOMAIN work, work[a] = k
          PROVE  current' = k \/ \E b \in DOMAIN work' : work'[b] = k
        <3>1. CASE a = 1
            BY <1>1, <2>1, <3>1
        <3>2. CASE a # 1
            <4>1. a - 1 \in DOMAIN work' /\ (a - 1) + 1 = a
                BY <1>1, <2>1, <3>2
            <4>2. work'[a - 1] = k
                BY <1>1, <2>1, <4>1
            <4>. QED
                BY <4>1, <4>2
        <3>. QED
            BY <3>1, <3>2
    <2>2. ASSUME current' = k \/ \E b \in DOMAIN work' : work'[b] = k
          PROVE  \E a \in DOMAIN work : work[a] = k
        BY <1>1, <1>4, <1>5, <2>2
    <2>3. (\E a \in DOMAIN work : work[a] = k)
            <=> (current' = k \/ \E b \in DOMAIN work' : work'[b] = k)
        BY <2>1, <2>2
    <2>4. current # k
        BY <1>1
    <2>. QED
        BY <1>3, <2>3, <2>4 DEF HandOverInv, SomePlace
<1>. QED
    BY <1>6, <1>7 DEF HandOverInv

\* execute() starts and ends the current job, which waits nowhere else.
LEMMA ExecuteHandOver ==
    ASSUME HandOverInv, Start \/ (\E o \in Finished : Finish(o)), TypeOK' PROVE HandOverInv'
<1> USE JobQueueAssumption DEF Active, Finished
<1>1. CASE Start
    <2>1. OnePlace'
        BY <1>1 DEF Start, HandOverInv, OnePlace, WithHandler
    <2>2. \A k \in Jobs : status'[k] \in Active <=> status[k] \in Active
        BY <1>1 DEF Start, HandOverInv, TypeOK
    <2>3. SomePlace'
        BY <1>1, <2>2 DEF Start, HandOverInv, SomePlace, WithHandler
    <2>. QED
        BY <2>1, <2>3 DEF HandOverInv
<1>2. ASSUME NEW o \in Finished, Finish(o) PROVE HandOverInv'
    <2>1. /\ current \in Jobs /\ current' = NoJob
          /\ UNCHANGED <<work, held, scheduled>>
          /\ \A k \in Jobs : status'[k] = IF k = current THEN o ELSE status[k]
        BY <1>2 DEF Finish, HandOverInv, TypeOK
    <2>2. \A a \in DOMAIN work : work[a] \in Jobs
        BY DEF HandOverInv, TypeOK
    <2>3. OnePlace'
        BY <2>1, <2>2 DEF HandOverInv, OnePlace, WithHandler
    <2>4. SomePlace'
        <3> SUFFICES ASSUME NEW k \in Jobs
                     PROVE  status'[k] \in Active <=> \/ \E g \in Handlers : WithHandler(g, k)
                                                      \/ \E a \in DOMAIN work : work[a] = k
            BY <2>1 DEF SomePlace, WithHandler
        <3>1. CASE k = current
            BY <2>1, <3>1 DEF HandOverInv, OnePlace
        <3>2. CASE k # current
            BY <2>1, <3>2 DEF HandOverInv, SomePlace
        <3>. QED
            BY <3>1, <3>2
    <2>. QED
        BY <2>3, <2>4 DEF HandOverInv
<1>. QED
    BY <1>1, <1>2

LEMMA HandOverStep == HandOverInv /\ TypeOK' /\ [Next]_vars => HandOverInv'
<1> SUFFICES ASSUME HandOverInv, TypeOK', [Next]_vars PROVE HandOverInv'
    OBVIOUS
<1>1. ASSUME UNCHANGED <<status, work, current, held, scheduled>> PROVE HandOverInv'
    BY <1>1 DEF HandOverInv, OnePlace, SomePlace, WithHandler
\* The handler answers only after it has handed the job over.
<1>2. ASSUME NEW h \in Handlers, Respond(h) PROVE HandOverInv'
    <2>1. \A g \in Handlers, k \in Jobs : WithHandler(g, k)' <=> WithHandler(g, k)
        BY <1>2, JobQueueAssumption DEF Respond, WithHandler, HandOverInv, TypeOK
    <2>. QED
        BY <1>2, <2>1 DEF Respond, HandOverInv, OnePlace, SomePlace
<1>3. ASSUME NEW j \in Jobs, Poll(j) PROVE HandOverInv'
    BY <1>1, <1>3 DEF Poll
<1>. QED
    BY <1>1, <1>2, <1>3, SubmitHandOver, ScheduleHandOver, DequeueHandOver, ExecuteHandOver
    DEF Next, Worker, SubmitFull, vars

\* A set with at most one element counts 1 or 0.
LEMMA AtMostOne ==
    ASSUME NEW S, \A x, y \in S : x = y
    PROVE  Cardinality(S) = IF S = {} THEN 0 ELSE 1
<1>1. CASE S = {}
    BY <1>1, FS_EmptySet
<1>2. CASE S # {}
    <2>1. PICK x \in S : S = {x}
        BY <1>2
    <2>2. Cardinality({x}) = 1
        BY FS_Singleton
    <2>. QED
        BY <1>2, <2>1, <2>2
<1>. QED
    BY <1>1, <1>2

\* The hand-over between submit, the executor's queue and the executor thread,
\* done outside the lock, neither loses nor duplicates a job.
THEOREM HandedOverOnce == Spec => []ExactlyOnceHandOver
<1>1. ASSUME HandOverInv PROVE ExactlyOnceHandOver
    <2> SUFFICES ASSUME NEW j \in Jobs
                 PROVE  Waiting(j) = IF status[j] \in Active THEN 1 ELSE 0
        BY DEF ExactlyOnceHandOver
    <2> DEFINE H == {h \in Handlers : held[h] = j /\ ~scheduled[h]}
               W == {i \in DOMAIN work : work[i] = j}
    <2>1. (\A x, y \in H : x = y) /\ (\A x, y \in W : x = y)
        BY <1>1 DEF HandOverInv, OnePlace, WithHandler
    <2>2. /\ H # {} => W = {} /\ current # j
          /\ W # {} => current # j
          /\ status[j] \in Active <=> (H # {} \/ W # {} \/ current = j)
        BY <1>1 DEF HandOverInv, OnePlace, SomePlace, WithHandler
    <2>3. Waiting(j) = Cardinality(H) + Cardinality(W) + (IF current = j THEN 1 ELSE 0)
        BY DEF Waiting
    <2> HIDE DEF H, W
    <2>4. Cardinality(H) = IF H = {} THEN 0 ELSE 1
        BY <2>1, AtMostOne
    <2>5. Cardinality(W) = IF W = {} THEN 0 ELSE 1
        BY <2>1, AtMostOne
    <2>. QED
        BY <2>2, <2>3, <2>4, <2>5
<1>2. IInv => TypeOK
    BY DEF IInv
<1>. QED
    BY <1>1, <1>2, HandOverInit, HandOverStep, Invariance, PTL DEF Spec

-----------------------------------------------------------------------------

(***************************************************************************)
(* What clients are told.  A job that a handler still holds has not been   *)
(* spoken of yet, and an answer is never ahead of the job.                 *)
(***************************************************************************)
Told(j) == answer[j] \notin {"none", "absent"}

AnswerInv ==
    /\ \A h \in Handlers :
         held[h] # NoJob => answer[held[h]] = "none" /\ status[held[h]] # "none"
    /\ \A g, h \in Handlers : held[g] = held[h] /\ held[g] # NoJob => g = h
    /\ \A j \in Jobs : answer[j] = "absent" => j \notin jobs /\ status[j] # "none"
    /\ \A j \in Jobs : Told(j) => answer[j] = status[j] \/ Rank(answer[j]) < Rank(status[j])

LEMMA AnswerInit == Init => AnswerInv
    BY JobQueueAssumption DEF Init, AnswerInv, Told

\* A client hears only of jobs that exist.
LEMMA ToldIsBorn ==
    ASSUME TypeOK, AnswerInv, NEW j \in Jobs, answer[j] # "none" PROVE status[j] # "none"
<1>1. CASE answer[j] = "absent"
    BY <1>1 DEF AnswerInv
<1>2. CASE Told(j)
    <2>1. answer[j] \in Active \cup Finished
        BY <1>2 DEF Told, TypeOK
    <2>2. Rank(answer[j]) \in {1, 2, 3} /\ Rank("none") = 0
        BY <2>1 DEF Rank, Active, Finished
    <2>3. answer[j] = status[j] \/ Rank(answer[j]) < Rank(status[j])
        BY <1>2 DEF AnswerInv
    <2>. QED
        BY <2>1, <2>2, <2>3 DEF Active, Finished
<1>. QED
    BY <1>1, <1>2 DEF Told

\* A job only moves on, so what was said of it is not ahead of it later.
LEMMA AnswerStep == IInv /\ AnswerInv /\ [Next]_vars => AnswerInv'
<1> SUFFICES ASSUME IInv, AnswerInv, [Next]_vars PROVE AnswerInv'
    OBVIOUS
<1> USE JobQueueAssumption DEF Active, Finished, IInv, TypeOK
<1>1. ASSUME NEW h \in Handlers, SubmitAccept(h) PROVE AnswerInv'
    <2>1. PICK j \in Jobs :
            /\ status[j] = "none"
            /\ status' = [status EXCEPT ![j] = "queued"]
            /\ jobs' = (jobs \ Evicted) \cup {j}
            /\ held' = [held EXCEPT ![h] = j]
        BY <1>1 DEF SubmitAccept
    <2>2. answer' = answer
        BY <1>1 DEF SubmitAccept
    <2>3. answer[j] = "none" /\ \A g \in Handlers : held[g] # j
        BY <2>1, ToldIsBorn DEF AnswerInv
    <2>4. \A k \in Jobs : k # j => status'[k] = status[k]
        BY <2>1
    <2>5. \A g \in Handlers :
            held'[g] # NoJob => answer'[held'[g]] = "none" /\ status'[held'[g]] # "none"
        BY <2>1, <2>2, <2>3, <2>4 DEF AnswerInv
    <2>6. \A f, g \in Handlers : held'[f] = held'[g] /\ held'[f] # NoJob => f = g
        BY <2>1, <2>3 DEF AnswerInv
    <2>7. \A k \in Jobs : answer'[k] = "absent" => k \notin jobs' /\ status'[k] # "none"
        BY <2>1, <2>2, <2>3, <2>4 DEF AnswerInv
    <2>8. \A k \in Jobs : Told(k)' => answer'[k] = status'[k] \/ Rank(answer'[k]) < Rank(status'[k])
        BY <2>2, <2>3, <2>4 DEF AnswerInv, Told
    <2>. QED
        BY <2>5, <2>6, <2>7, <2>8 DEF AnswerInv
<1>2. ASSUME NEW h \in Handlers, Respond(h) PROVE AnswerInv'
    BY <1>2 DEF Respond, AnswerInv, Told
<1>3. ASSUME NEW j \in Jobs, Poll(j) PROVE AnswerInv'
    <2>1. status[j] # "none"
        BY <1>3, ToldIsBorn DEF Poll
    <2>. QED
        BY <1>3, <2>1 DEF Poll, AnswerInv, Told
<1>4. CASE Start
    BY <1>4 DEF Start, AnswerInv, Told, Rank
<1>5. ASSUME NEW o \in Finished, Finish(o) PROVE AnswerInv'
    BY <1>5 DEF Finish, AnswerInv, Told, Rank
<1>6. ASSUME UNCHANGED <<status, jobs, held, answer>> PROVE AnswerInv'
    BY <1>6 DEF AnswerInv, Told
<1>. QED
    BY <1>1, <1>2, <1>3, <1>4, <1>5, <1>6
    DEF Next, Worker, SubmitFull, Schedule, Dequeue, vars

\* What a client is told about a job, in the 202 answer read without the lock
\* or by polling, never goes back: not to an earlier status, not from one
\* outcome to the other, not from 404 to found.
THEOREM AnswersForward == Spec => AnswersMoveForward
<1> DEFINE Forward == \A j \in Jobs :
                        \/ answer'[j] = answer[j]
                        \/ Rank(answer'[j]) > Rank(answer[j])
<1>1. ASSUME IInv, AnswerInv, [Next]_vars PROVE [Forward]_vars
    <2> USE JobQueueAssumption DEF Active, Finished, IInv, TypeOK
    <2>1. ASSUME NEW h \in Handlers, Respond(h) PROVE Forward
        BY <1>1, <2>1 DEF Respond, AnswerInv, Rank
    <2>2. ASSUME NEW j \in Jobs, Poll(j) PROVE Forward
        BY <1>1, <2>2 DEF Poll, AnswerInv, Told, Rank
    <2>3. ASSUME answer' = answer PROVE Forward
        BY <2>3
    <2>. QED
        BY <1>1, <2>1, <2>2, <2>3
        DEF Next, Worker, SubmitFull, SubmitAccept, Schedule, Dequeue, Start, Finish, vars
<1>. QED
    BY <1>1, AnswerInit, AnswerStep, Invariance, PTL DEF Spec, AnswersMoveForward

=============================================================================
