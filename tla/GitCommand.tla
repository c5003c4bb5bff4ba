----------------------------- MODULE GitCommand -----------------------------
(***************************************************************************)
(* _run_git in arena/patching/git_pipeline.py: the main thread, a reader   *)
(* thread per stream and the stdin thread, against git and a descendant    *)
(* that may outlive it with the pipes in its hands.                        *)
(*                                                                         *)
(* Bytes are counted.  A process may write, close, fork, stall and exit as *)
(* it likes.  The lock is held for one step.  A join or a wait may time    *)
(* out whenever it is reached.  The names differ from those of GitPipeline,*)
(* which calls it: GitPipelineProofs extends both.                         *)
(***************************************************************************)
EXTENDS Naturals, Sequences

CONSTANTS Cap,       \* limits.GIT_OUTPUT_BYTES
          Chunk,     \* _READ_CHUNK
          MaxWrite   \* bound on the bytes written to each stream

ASSUME GitCommandAssumption == Cap \in Nat /\ Chunk \in Nat \ {0} /\ MaxWrite \in Nat

Streams == {"out", "err"}
Procs == {"git", "child"}

\* The threads in the order in which they are joined.
Threads == <<"out", "err", "in">>

VARIABLES
    pc,        \* the main thread
    joined,    \* threads it has joined or given up on
    abandoned, \* history: those it has given up on
    outcome,   \* what _run_git returned or raised
    output,    \* the bytes it returned
    git,       \* git itself: "running", "zombie" or "reaped"
    alive,     \* processes of the group that run
    forked,    \* the descendant was started
    holds,     \* streams each process has open
    written,   \* bytes written to each stream
    buffers,   \* bytes read of each stream
    thread,    \* where each thread is
    overflow   \* the Event

main == <<pc, joined, abandoned, outcome, output>>
group == <<git, alive, forked, holds, written>>
commandVars == <<main, group, buffers, thread, overflow>>

Zero == [s \in Streams |-> 0]

CommandInit ==
    /\ pc = "start" /\ joined = 0 /\ abandoned = {} /\ outcome = "none" /\ output = Zero
    /\ git = "running" /\ alive = {} /\ forked = FALSE
    /\ holds = [p \in Procs |-> {}]
    /\ written = Zero /\ buffers = Zero
    /\ thread = [t \in Streams \cup {"in"} |-> "none"]
    /\ overflow = FALSE

-----------------------------------------------------------------------------
(* The process group. *)

Write(p, s) ==
    /\ p \in alive /\ s \in holds[p]
    /\ thread[s] # "done"
    /\ written[s] < MaxWrite
    /\ written' = [written EXCEPT ![s] = @ + 1]
    /\ UNCHANGED <<main, git, alive, forked, holds, buffers, thread, overflow>>

Close(p, s) ==
    /\ p \in alive /\ s \in holds[p]
    /\ holds' = [holds EXCEPT ![p] = @ \ {s}]
    /\ UNCHANGED <<main, git, alive, forked, written, buffers, thread, overflow>>

Fork ==
    /\ "git" \in alive /\ ~forked
    /\ forked' = TRUE
    /\ alive' = alive \cup {"child"}
    /\ holds' = [holds EXCEPT !["child"] = holds["git"]]
    /\ UNCHANGED <<main, git, written, buffers, thread, overflow>>

Exit(p) ==
    /\ p \in alive
    /\ alive' = alive \ {p}
    /\ git' = IF p = "git" THEN "zombie" ELSE git
    /\ UNCHANGED <<main, forked, holds, written, buffers, thread, overflow>>

\* _terminate: the group is found through git's pid, which is gone once git was
\* reaped; ProcessLookupError is ignored then.
Terminate ==
    IF git = "reaped" THEN UNCHANGED <<git, alive>> ELSE git' = "zombie" /\ alive' = {}

-----------------------------------------------------------------------------
(* reader and writer *)

Open(s) == \E p \in alive : s \in holds[p]

\* Mutant of TooBig: each stream is measured by itself.
TooBigAlone(sizes) == \E s \in Streams : sizes[s] > Cap

\* too_big
TooBig(sizes) == (\E s \in Streams : sizes[s] > Cap) \/ sizes["out"] + sizes["err"] > Cap

\* stream.read, and the block under the lock.
Read(s) ==
    /\ thread[s] = "read"
    /\ \E n \in 1..Chunk :
        /\ buffers[s] + n <= written[s]
        /\ buffers' = [buffers EXCEPT ![s] = @ + n]
        /\ thread' = [thread EXCEPT ![s] = IF TooBig(buffers') THEN "over" ELSE "read"]
    /\ UNCHANGED <<main, group, overflow>>

Eof(s) ==
    /\ thread[s] = "read"
    /\ buffers[s] = written[s] /\ ~Open(s)
    /\ thread' = [thread EXCEPT ![s] = "done"]
    /\ UNCHANGED <<main, group, buffers, overflow>>

\* overflow.set(), outside the lock.
SetOverflow(s) ==
    /\ thread[s] = "over"
    /\ overflow' = TRUE
    /\ thread' = [thread EXCEPT ![s] = "kill"]
    /\ UNCHANGED <<main, group, buffers>>

\* Mutant of Kill: the reader goes on to drain the pipe.
KillAndDrain(s) ==
    /\ thread[s] = "kill"
    /\ Terminate
    /\ thread' = [thread EXCEPT ![s] = "read"]
    /\ UNCHANGED <<main, forked, holds, written, buffers, overflow>>

\* The reader kills the group and closes its end.
Kill(s) ==
    /\ thread[s] = "kill"
    /\ Terminate
    /\ thread' = [thread EXCEPT ![s] = "done"]
    /\ UNCHANGED <<main, forked, holds, written, buffers, overflow>>

\* stdin is delivered, or nobody is left to read it.
WriterEnds ==
    /\ thread["in"] = "write"
    /\ thread' = [thread EXCEPT !["in"] = "done"]
    /\ UNCHANGED <<main, group, buffers, overflow>>

-----------------------------------------------------------------------------
(* The main thread. *)

Return(r) == pc' = "done" /\ outcome' = r

Unavailable ==
    /\ pc = "start"
    /\ Return("git_unavailable")
    /\ UNCHANGED <<joined, abandoned, output, group, buffers, thread, overflow>>

Start ==
    /\ pc = "start"
    /\ pc' = "wait"
    /\ alive' = {"git"}
    /\ holds' = [holds EXCEPT !["git"] = Streams]
    /\ thread' = [t \in DOMAIN thread |-> IF t = "in" THEN "write" ELSE "read"]
    /\ UNCHANGED <<joined, abandoned, outcome, output, git, forked, written, buffers, overflow>>

\* process.wait reaps git.
Reap ==
    /\ pc = "wait"
    /\ git = "zombie"
    /\ git' = "reaped"
    /\ pc' = "join"
    /\ UNCHANGED <<joined, abandoned, outcome, output, alive, forked, holds, written,
                   buffers, thread, overflow>>

\* process.wait raises TimeoutExpired.
WaitTimesOut ==
    /\ pc = "wait"
    /\ Terminate
    /\ pc' = "timeout"
    /\ UNCHANGED <<joined, abandoned, outcome, output, forked, holds, written, buffers,
                   thread, overflow>>

\* Mutant of GivesUp: join without a timeout.
GivesUpNever == FALSE

\* join takes a timeout, of five seconds or, after git's own, of two.
GivesUp == TRUE

Join ==
    /\ pc \in {"join", "timeout"}
    /\ joined < Len(Threads)
    /\ LET t == Threads[joined + 1]
       IN  \/ thread[t] = "done" /\ UNCHANGED abandoned
           \/ GivesUp /\ thread[t] # "done" /\ abandoned' = abandoned \cup {t}
    /\ joined' = joined + 1
    /\ UNCHANGED <<pc, outcome, output, group, buffers, thread, overflow>>

RaiseTimeout ==
    /\ pc = "timeout" /\ joined = Len(Threads)
    /\ Return("git_timeout")
    /\ UNCHANGED <<joined, abandoned, output, group, buffers, thread, overflow>>

\* overflow.is_set()
CheckOverflow ==
    /\ pc = "join" /\ joined = Len(Threads)
    /\ IF overflow THEN Return("git_output_too_large") ELSE pc' = "copy" /\ UNCHANGED outcome
    /\ UNCHANGED <<joined, abandoned, output, group, buffers, thread, overflow>>

\* The copy under the lock, and the last look at each stream.
Copy ==
    /\ pc = "copy"
    /\ IF \E s \in Streams : buffers[s] > Cap
       THEN Return("git_output_too_large") /\ UNCHANGED output
       ELSE Return("returned") /\ output' = buffers
    /\ UNCHANGED <<joined, abandoned, group, buffers, thread, overflow>>

-----------------------------------------------------------------------------

Main == \/ Unavailable \/ Start \/ Reap \/ WaitTimesOut \/ Join \/ RaiseTimeout
        \/ CheckOverflow \/ Copy

CommandOver == pc = "done" /\ UNCHANGED commandVars

CommandNext ==
    \/ Main
    \/ \E s \in Streams : Read(s) \/ Eof(s) \/ SetOverflow(s) \/ Kill(s)
                          \/ \E p \in Procs : Write(p, s) \/ Close(p, s)
    \/ WriterEnds
    \/ Fork
    \/ \E p \in Procs : Exit(p)
    \/ CommandOver

\* Only the main thread is relied on: the wait and every join time out.
CommandSpec == CommandInit /\ [][CommandNext]_commandVars /\ WF_commandVars(Main)

-----------------------------------------------------------------------------

CommandTypeOK ==
    /\ pc \in {"start", "wait", "join", "timeout", "copy", "done"}
    /\ joined \in 0..Len(Threads) /\ abandoned \subseteq Streams \cup {"in"}
    /\ outcome \in {"none", "git_unavailable", "git_timeout", "git_output_too_large", "returned"}
    /\ git \in {"running", "zombie", "reaped"} /\ alive \subseteq Procs
    /\ forked \in BOOLEAN /\ overflow \in BOOLEAN
    /\ holds \in [Procs -> SUBSET Streams]
    /\ written \in [Streams -> 0..MaxWrite]
    /\ \A s \in Streams : output[s] \in 0..buffers[s] /\ buffers[s] \in 0..written[s]
    /\ thread \in [Streams \cup {"in"} -> {"none", "read", "over", "kill", "write", "done"}]

\* "Output bounded WHILE it is read": the two readers together, which look at
\* the total under the lock but act on it after they gave the lock up, never
\* retain more than a chunk each over the cap, even when git is gone and the
\* kill finds nothing to kill.
RetainedIsBounded == buffers["out"] + buffers["err"] <= Cap + 2 * Chunk

\* What a caller parses as git's output is all of it.  Two readers, the reaped
\* git and its descendant may interleave as they like: if no join timed out, the
\* returned bytes are all that was ever written, and within the cap in total.
\* (A reader given up on may leave output that is cut short, which the caller
\* cannot tell.)
ReturnedOutputIsWhole ==
    outcome = "returned" =>
        /\ \A s \in Streams \ abandoned : output[s] = written[s]
        /\ abandoned \cap Streams = {} => output["out"] + output["err"] <= Cap

\* _run_git returns or raises, whoever holds the pipes.
CommandReturns == <>(pc = "done")

=============================================================================
