-------------------------- MODULE ProcessSupervisor --------------------------
(***************************************************************************)
(* run_supervised in arena/execution/process.py: a command in a process    *)
(* group of its own, whose output is read in bounded chunks until both     *)
(* pipes are closed, the deadline passes or the output limit is exceeded,  *)
(* and which is then waited for or terminated.                             *)
(*                                                                         *)
(* The processes of the group are the environment: they write, close their *)
(* ends of the pipes, fork and exit whenever they like, and some of them   *)
(* ignore SIGTERM.  A byte is a unit of output.  Time is two events: the   *)
(* deadline passes, and the grace of a wait runs out.                      *)
(***************************************************************************)
EXTENDS Naturals, FiniteSets, FiniteSetsExt

CONSTANTS
    Procs,      \* the processes of the group, Leader the command itself
    Leader,
    Limit,      \* output_limit
    Chunk,      \* _READ_CHUNK_BYTES
    MaxOutput   \* bound on what the group writes

ASSUME SupervisorAssumption ==
    /\ Leader \in Procs
    /\ Limit \in Nat /\ Chunk \in Nat \ {0} /\ MaxOutput \in Nat

Streams == {"stdout", "stderr"}

VARIABLES
    phase,      \* where _run_posix is
    running,    \* processes that are alive
    stubborn,   \* processes that ignore SIGTERM
    holds,      \* who has the write end of each pipe
    pipe,       \* unread bytes in each pipe
    written,    \* history: bytes ever written to each
    buffer,     \* bytes read from each and kept
    open,       \* open_streams
    late,       \* the deadline has passed
    outcome,    \* why the pump stopped
    escalated   \* SIGKILL was sent

vars == <<phase, running, stubborn, holds, pipe, written, buffer, open, late,
          outcome, escalated>>

Total(b) == b["stdout"] + b["stderr"]

Init ==
    /\ phase = "pump"
    /\ running = {Leader}
    /\ stubborn \in SUBSET {Leader}
    /\ holds = [s \in Streams |-> {Leader}]
    /\ pipe = [s \in Streams |-> 0]
    /\ written = [s \in Streams |-> 0]
    /\ buffer = [s \in Streams |-> 0]
    /\ open = Streams
    /\ late = FALSE
    /\ outcome = "none"
    /\ escalated = FALSE

-----------------------------------------------------------------------------
(* The processes of the group and the clock. *)

Write(p, s) ==
    /\ p \in running \cap holds[s]
    /\ Total(written) < MaxOutput
    /\ pipe' = [pipe EXCEPT ![s] = @ + 1]
    /\ written' = [written EXCEPT ![s] = @ + 1]
    /\ UNCHANGED <<phase, running, stubborn, holds, buffer, open, late, outcome, escalated>>

Close(p, s) ==
    /\ p \in running \cap holds[s]
    /\ holds' = [holds EXCEPT ![s] = @ \ {p}]
    /\ UNCHANGED <<phase, running, stubborn, pipe, written, buffer, open, late, outcome, escalated>>

\* A child has the pipes of its parent, and may choose to ignore SIGTERM; the
\* disposition to ignore is inherited.
Fork(p, q) ==
    /\ p \in running
    /\ q \notin running /\ q # Leader
    /\ running' = running \cup {q}
    /\ holds' = [s \in Streams |-> IF p \in holds[s] THEN holds[s] \cup {q} ELSE holds[s] \ {q}]
    /\ \/ stubborn' = stubborn \cup {q}
       \/ p \notin stubborn /\ stubborn' = stubborn \ {q}
    /\ UNCHANGED <<phase, pipe, written, buffer, open, late, outcome, escalated>>

Without(dead) == [s \in Streams |-> holds[s] \ dead]

Exits(p) ==
    /\ p \in running
    /\ running' = running \ {p}
    /\ holds' = Without({p})
    /\ UNCHANGED <<phase, stubborn, pipe, written, buffer, open, late, outcome, escalated>>

DeadlinePasses ==
    /\ ~late
    /\ late' = TRUE
    /\ UNCHANGED <<phase, running, stubborn, holds, pipe, written, buffer, open, outcome, escalated>>

-----------------------------------------------------------------------------
(* _pump *)

AtEOF(s) == pipe[s] = 0 /\ holds[s] = {}
Ready(s) == s \in open /\ (pipe[s] > 0 \/ AtEOF(s))

\* Mutant of Got: the whole pipe is read at once.
GotAll(s) == pipe[s]

\* os.read
Got(s) == Min({pipe[s], Chunk})

\* _trim_combined: what is over the limit is dropped, from stderr first.
Trimmed(b) ==
    LET over == Total(b) - Limit
        fromErr == Min({b["stderr"], over})
    IN  IF Total(b) <= Limit THEN b
        ELSE [stdout |-> b["stdout"] - (over - fromErr), stderr |-> b["stderr"] - fromErr]

\* One turn of the loop, after the deadline test: some of the ready pipes are
\* read or found closed, and only then is the limit looked at.
PumpTurn(ready) ==
    /\ phase = "pump"
    /\ open # {} /\ ~late
    /\ ready # {} /\ \A s \in ready : Ready(s)
    /\ LET more == [s \in Streams |-> buffer[s] + (IF s \in ready THEN Got(s) ELSE 0)]
       IN  /\ buffer' = more
           /\ phase' = IF Total(more) > Limit THEN "trim" ELSE "pump"
    /\ pipe' = [s \in Streams |-> pipe[s] - (IF s \in ready THEN Got(s) ELSE 0)]
    /\ open' = open \ {s \in ready : AtEOF(s)}
    /\ UNCHANGED <<running, stubborn, holds, written, late, outcome, escalated>>

PumpExceeded ==
    /\ phase = "trim"
    /\ buffer' = Trimmed(buffer)
    /\ outcome' = "exceeded"
    /\ phase' = "term"
    /\ UNCHANGED <<running, stubborn, holds, pipe, written, open, late, escalated>>

PumpTimedOut ==
    /\ phase = "pump"
    /\ open # {}
    /\ late
    /\ outcome' = "timed_out"
    /\ phase' = "term"
    /\ UNCHANGED <<running, stubborn, holds, pipe, written, buffer, open, late, escalated>>

\* Mutant of PumpDone: the pump stops when the command itself has exited.
PumpDoneAtExit ==
    /\ phase = "pump"
    /\ open = {} \/ Leader \notin running
    /\ outcome' = "eof"
    /\ phase' = "wait"
    /\ UNCHANGED <<running, stubborn, holds, pipe, written, buffer, open, late, escalated>>

PumpDone ==
    /\ phase = "pump"
    /\ open = {}
    /\ outcome' = "eof"
    /\ phase' = "wait"
    /\ UNCHANGED <<running, stubborn, holds, pipe, written, buffer, open, late, escalated>>

\* Cancellation, or any exception, while the pump runs.
PumpInterrupted ==
    /\ phase = "pump"
    /\ outcome' = "interrupted"
    /\ phase' = "term"
    /\ UNCHANGED <<running, stubborn, holds, pipe, written, buffer, open, late, escalated>>

-----------------------------------------------------------------------------
(* process.wait and _terminate_group *)

\* The command has exited and is reaped: run_supervised returns, or raises
\* what interrupted it, and nobody looks at the rest of the group.
Reaped ==
    /\ phase \in {"wait", "terminated", "killed"}
    /\ Leader \notin running
    /\ phase' = "returned"
    /\ UNCHANGED <<running, stubborn, holds, pipe, written, buffer, open, late, outcome, escalated>>

\* The pipes are closed but the command goes on: it is terminated.
WaitGraceOver ==
    /\ phase = "wait"
    /\ Leader \in running
    /\ phase' = "term"
    /\ UNCHANGED <<running, stubborn, holds, pipe, written, buffer, open, late, outcome, escalated>>

\* Mutant of SigTerm: only the command is signalled, not its group.
SigTermLeader ==
    /\ phase = "term"
    /\ running' = running \ ({Leader} \ stubborn)
    /\ holds' = Without({Leader} \ stubborn)
    /\ phase' = "terminated"
    /\ UNCHANGED <<stubborn, pipe, written, buffer, open, late, outcome, escalated>>

\* killpg(pgid, SIGTERM)
SigTerm ==
    /\ phase = "term"
    /\ running' = running \cap stubborn
    /\ holds' = Without(Procs \ stubborn)
    /\ phase' = "terminated"
    /\ UNCHANGED <<stubborn, pipe, written, buffer, open, late, outcome, escalated>>

\* Mutant of SigKill: no second signal after the grace.
NoSigKill ==
    /\ phase = "terminated"
    /\ FALSE
    /\ UNCHANGED vars

\* killpg(pgid, SIGKILL), when the command outlives the grace after SIGTERM.
SigKill ==
    /\ phase = "terminated"
    /\ Leader \in running
    /\ running' = {}
    /\ holds' = Without(Procs)
    /\ phase' = "killed"
    /\ escalated' = TRUE
    /\ UNCHANGED <<stubborn, pipe, written, buffer, open, late, outcome>>

\* An interrupt while the command is waited for is outside the handler of the
\* pump: the pipes are closed and it propagates, and nobody is signalled.
WaitInterrupted ==
    /\ phase \in {"wait", "terminated", "killed"}
    /\ outcome # "interrupted"
    /\ outcome' = "interrupted"
    /\ phase' = "raised"
    /\ UNCHANGED <<running, stubborn, holds, pipe, written, buffer, open, late, escalated>>

-----------------------------------------------------------------------------

Group ==
    \/ \E p \in Procs, s \in Streams : Write(p, s) \/ Close(p, s)
    \/ \E p, q \in Procs : Fork(p, q)
    \/ \E p \in Procs : Exits(p)

Supervisor ==
    \/ \E ready \in SUBSET Streams : PumpTurn(ready)
    \/ PumpExceeded \/ PumpTimedOut \/ PumpDone
    \/ Reaped \/ WaitGraceOver \/ SigTerm \/ SigKill

Ended == phase \in {"returned", "raised"}

Stopped == Ended /\ UNCHANGED vars

Next == Group \/ DeadlinePasses \/ Supervisor \/ PumpInterrupted \/ WaitInterrupted \/ Stopped

\* Time passes and the supervisor is never blocked: select wakes it at least
\* every half second, and every wait has a grace.  Nothing is assumed of the
\* group, nor that anybody interrupts.
Spec == Init /\ [][Next]_vars /\ WF_vars(Supervisor) /\ WF_vars(DeadlinePasses)

-----------------------------------------------------------------------------

TypeOK ==
    /\ phase \in {"pump", "trim", "wait", "term", "terminated", "killed", "returned", "raised"}
    /\ running \subseteq Procs
    /\ stubborn \subseteq Procs
    /\ holds \in [Streams -> SUBSET Procs]
    /\ pipe \in [Streams -> Nat]
    /\ written \in [Streams -> Nat]
    /\ buffer \in [Streams -> Nat]
    /\ open \subseteq Streams
    /\ late \in BOOLEAN
    /\ outcome \in {"none", "eof", "timed_out", "exceeded", "interrupted"}
    /\ escalated \in BOOLEAN

\* The parent's memory: one turn of the loop may read a chunk from each pipe
\* before the limit is looked at, so the buffers exceed it by two at most.
MemoryIsBounded == Total(buffer) <= Limit + 2 * Chunk

\* What the caller gets is within the limit, and it is everything the group
\* wrote when the pump ended by itself: nobody who could still write was left.
OutputIsTrue ==
    phase = "returned" =>
        /\ Total(buffer) <= Limit
        /\ outcome = "eof" => buffer = written
        /\ outcome = "exceeded" => Total(written) > Limit

\* run_supervised never returns while the command runs; if it had to terminate
\* the group, what survives ignored SIGTERM, and nothing survives SIGKILL.
GroupIsSignalled ==
    phase = "returned" =>
        /\ Leader \notin running
        /\ outcome # "eof" => running \subseteq stubborn
        /\ escalated => running = {}

\* It returns, whatever the group does: floods, hangs, ignores signals, or
\* leaves a descendant behind that holds the pipes.
SupervisorReturns == <>Ended

\* "Run argv with a hard timeout, killing the whole process tree on timeout."
TimeoutKillsTheTree ==
    phase = "returned" /\ outcome = "timed_out" => running = {}

=============================================================================
