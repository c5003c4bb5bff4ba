------------------------------ MODULE JobLedger -----------------------------
(***************************************************************************)
(* What the server promises a client of POST /runs, without threads, locks *)
(* or an executor: a ledger of jobs that accepts a bounded number of        *)
(* unfinished jobs, runs one at a time, and may forget finished ones only   *)
(* when it accepts another.  JobQueue is shown to implement it.             *)
(***************************************************************************)
EXTENDS Naturals, FiniteSets

CONSTANTS Jobs, MaxPending

VARIABLE ledger   \* ledger[j]: "none", the job's status, or "forgotten"

Unfinished == {j \in Jobs : ledger[j] \in {"queued", "running"}}
Done == {j \in Jobs : ledger[j] \in {"completed", "failed"}}

Init == ledger = [j \in Jobs |-> "none"]

Accept(j, forgotten) ==
    /\ ledger[j] = "none"
    /\ Cardinality(Unfinished) < MaxPending
    /\ forgotten \subseteq Done
    /\ ledger' = [k \in Jobs |-> IF k = j THEN "queued"
                                 ELSE IF k \in forgotten THEN "forgotten"
                                 ELSE ledger[k]]

Begin(j) ==
    /\ ledger[j] = "queued"
    /\ \A k \in Jobs : ledger[k] # "running"
    /\ ledger' = [ledger EXCEPT ![j] = "running"]

End(j, outcome) ==
    /\ ledger[j] = "running"
    /\ ledger' = [ledger EXCEPT ![j] = outcome]

Next ==
    \E j \in Jobs :
        \/ \E forgotten \in SUBSET Done : Accept(j, forgotten)
        \/ Begin(j)
        \/ \E outcome \in {"completed", "failed"} : End(j, outcome)

Safe == Init /\ [][Next]_ledger

\* The ledger's fairness: the head of the line is always worked on.
Spec == Safe /\ WF_ledger(\E j \in Jobs : Begin(j))
             /\ \A j \in Jobs : WF_ledger(\E o \in {"completed", "failed"} : End(j, o))

=============================================================================
