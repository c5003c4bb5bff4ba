----------------------- MODULE ProcessSupervisorProofs -----------------------
(***************************************************************************)
(* MemoryIsBounded, OutputIsTrue and GroupIsSignalled of ProcessSupervisor *)
(* for every group of processes, every output_limit and every chunk size.  *)
(***************************************************************************)
EXTENDS ProcessSupervisor, TLAPS

\* The pump looks at the limit after every turn, so only the turn that stops
\* it leaves more than the limit, a chunk of each pipe at most.
LimitInv ==
    /\ phase # "trim" => Total(buffer) <= Limit
    /\ phase = "trim" => Total(buffer) > Limit
    /\ MemoryIsBounded

\* Until something is trimmed every byte written is in a buffer or a pipe.
Conserved ==
    phase \in {"pump", "trim"} \/ outcome = "eof" =>
        \A s \in Streams : written[s] = buffer[s] + pipe[s]

\* A stream is taken off the selector at its end, and has no writer any more.
ClosedInv == \A s \in Streams : s \notin open => AtEOF(s)

\* The outcome tells why the pump stopped.
OutcomeInv ==
    /\ phase \in {"pump", "trim"} => outcome = "none"
    /\ phase = "wait" => outcome = "eof"
    /\ outcome = "eof" => open = {}
    /\ outcome = "exceeded" => Total(written) > Limit

\* Who is left after a signal: those who ignore SIGTERM and what they fork,
\* and nobody after SIGKILL.
SignalInv ==
    /\ phase = "terminated" => running \subseteq stubborn
    /\ phase = "killed" \/ escalated => running = {}
    /\ phase = "returned" =>
         Leader \notin running /\ (outcome # "eof" => running \subseteq stubborn)

IInv == TypeOK /\ LimitInv /\ Conserved /\ ClosedInv /\ OutcomeInv /\ SignalInv

LEMMA SupervisorInit == Init => IInv
<1> SUFFICES ASSUME Init PROVE IInv
  OBVIOUS
<1> USE SupervisorAssumption DEF SupervisorAssumption, Init, Streams, Total
<1>1. TypeOK
  <2>1. late \in BOOLEAN /\ escalated \in BOOLEAN
    OBVIOUS
  <2>2. /\ pipe \in [Streams -> Nat] /\ written \in [Streams -> Nat]
        /\ buffer \in [Streams -> Nat] /\ holds \in [Streams -> SUBSET Procs]
    OBVIOUS
  <2>3. running \subseteq Procs /\ stubborn \subseteq Procs
    OBVIOUS
  <2> QED
    BY <2>1, <2>2, <2>3 DEF TypeOK
<1>2. LimitInv /\ Conserved
  BY DEF LimitInv, Conserved, MemoryIsBounded
<1>3. ClosedInv /\ OutcomeInv /\ SignalInv
  BY DEF ClosedInv, OutcomeInv, SignalInv
<1> QED
  BY <1>1, <1>2, <1>3 DEF IInv

-----------------------------------------------------------------------------
(* The group and the clock. *)

LEMMA WriteStep ==
    ASSUME IInv, NEW p \in Procs, NEW s \in Streams, Write(p, s) PROVE IInv'
<1> USE SupervisorAssumption DEF SupervisorAssumption, IInv, Write
<1>1. TypeOK'
  BY DEF TypeOK
<1>2. LimitInv' /\ SignalInv'
  BY DEF LimitInv, MemoryIsBounded, Total, SignalInv
<1>3. Conserved'
  BY DEF Conserved, TypeOK
<1>4. s \in open
  BY DEF ClosedInv, AtEOF
<1>5. ClosedInv' 
  BY <1>4 DEF ClosedInv, AtEOF, TypeOK
<1>6. OutcomeInv'
  BY DEF OutcomeInv, TypeOK, Total, Streams
<1> QED
  BY <1>1, <1>2, <1>3, <1>5, <1>6

LEMMA CloseStep ==
    ASSUME IInv, NEW p \in Procs, NEW s \in Streams, Close(p, s) PROVE IInv'
<1> USE SupervisorAssumption DEF SupervisorAssumption, IInv, Close
<1>1. TypeOK'
  BY DEF TypeOK
<1>2. LimitInv' /\ SignalInv' /\ Conserved' /\ OutcomeInv'
  BY DEF LimitInv, MemoryIsBounded, Total, SignalInv, Conserved, OutcomeInv
<1>3. ClosedInv'
  BY DEF ClosedInv, AtEOF, TypeOK
<1> QED
  BY <1>1, <1>2, <1>3

\* A process that ignores SIGTERM passes that on to its children, and one that
\* has no end of a pipe cannot hand it on.
LEMMA ForkStep ==
    ASSUME IInv, NEW p \in Procs, NEW q \in Procs, Fork(p, q) PROVE IInv'
<1> USE SupervisorAssumption DEF SupervisorAssumption, IInv, Fork
<1>1. TypeOK'
  BY DEF TypeOK
<1>2. LimitInv' /\ Conserved' /\ OutcomeInv'
  BY DEF LimitInv, MemoryIsBounded, Total, Conserved, OutcomeInv
<1>3. ClosedInv'
  BY DEF ClosedInv, AtEOF, TypeOK
<1>4. SignalInv'
  BY DEF SignalInv, TypeOK
<1> QED
  BY <1>1, <1>2, <1>3, <1>4

LEMMA ExitStep ==
    ASSUME IInv, NEW p \in Procs, Exits(p) PROVE IInv'
<1> USE SupervisorAssumption DEF SupervisorAssumption, IInv, Exits, Without
<1>1. TypeOK'
  BY DEF TypeOK
<1>2. LimitInv' /\ Conserved' /\ OutcomeInv'
  BY DEF LimitInv, MemoryIsBounded, Total, Conserved, OutcomeInv
<1>3. ClosedInv'
  BY DEF ClosedInv, AtEOF, TypeOK
<1>4. SignalInv'
  BY DEF SignalInv, TypeOK
<1> QED
  BY <1>1, <1>2, <1>3, <1>4

LEMMA DeadlineStep == ASSUME IInv, DeadlinePasses PROVE IInv'
<1> USE DEF IInv, DeadlinePasses
<1>1. late' \in BOOLEAN
  OBVIOUS
<1>2. TypeOK'
  BY <1>1 DEF TypeOK
<1>3. LimitInv' /\ Conserved' /\ OutcomeInv' /\ ClosedInv' /\ SignalInv'
  BY DEF LimitInv, MemoryIsBounded, Total, Conserved, OutcomeInv, ClosedInv, AtEOF, SignalInv
<1> QED
  BY <1>2, <1>3

-----------------------------------------------------------------------------
(* The pump. *)

\* os.read takes what is there, a chunk at most.
LEMMA GotType ==
    ASSUME TypeOK, NEW s \in Streams
    PROVE  /\ Got(s) \in Nat /\ Got(s) <= Chunk /\ Got(s) <= pipe[s]
           /\ Got(s) = 0 => pipe[s] = 0
<1> USE SupervisorAssumption DEF SupervisorAssumption
<1>1. pipe[s] \in Nat
  BY DEF TypeOK
<1>2. \E x \in {pipe[s], Chunk} : \A y \in {pipe[s], Chunk} : x <= y
  BY <1>1
<1>3. Got(s) \in {pipe[s], Chunk} /\ \A y \in {pipe[s], Chunk} : Got(s) <= y
  BY <1>2 DEF Got, Min
<1> QED
  BY <1>1, <1>3

\* A turn moves bytes from the pipes to the buffers, a chunk of each at most.
LEMMA PumpTurnStep ==
    ASSUME IInv, NEW ready \in SUBSET Streams, PumpTurn(ready) PROVE IInv'
<1> USE SupervisorAssumption DEF SupervisorAssumption
<1> DEFINE got(s) == IF s \in ready THEN Got(s) ELSE 0
<1>1. \A s \in Streams : got(s) \in Nat /\ got(s) <= Chunk /\ got(s) <= pipe[s]
  BY GotType DEF IInv, TypeOK
<1>2. /\ buffer' = [s \in Streams |-> buffer[s] + got(s)]
      /\ pipe' = [s \in Streams |-> pipe[s] - got(s)]
      /\ phase = "pump" /\ phase' = IF Total(buffer') > Limit THEN "trim" ELSE "pump"
      /\ UNCHANGED <<running, stubborn, holds, written, late, outcome, escalated>>
      /\ open' = open \ {s \in ready : AtEOF(s)}
  BY DEF PumpTurn
<1> HIDE DEF got
<1>3. buffer' \in [Streams -> Nat] /\ pipe' \in [Streams -> Nat]
  BY <1>1, <1>2 DEF IInv, TypeOK
<1>4. TypeOK'
  BY <1>2, <1>3 DEF IInv, TypeOK
<1>5. LimitInv'
  <2>1. Total(buffer) \in Nat /\ Total(buffer) <= Limit
    BY <1>2 DEF IInv, LimitInv, TypeOK, Total, Streams
  <2>2. Total(buffer') <= Total(buffer) + 2 * Chunk /\ Total(buffer') \in Nat
    BY <1>1, <1>2 DEF IInv, TypeOK, Total, Streams
  <2> QED
    BY <1>2, <2>1, <2>2 DEF LimitInv, MemoryIsBounded
<1>6. Conserved'
  BY <1>1, <1>2 DEF IInv, Conserved, TypeOK
<1>7. ClosedInv'
  <2> SUFFICES ASSUME NEW s \in Streams, s \notin open' PROVE AtEOF(s)'
    BY DEF ClosedInv
  <2>1. AtEOF(s)
    BY <1>2 DEF IInv, ClosedInv
  <2> QED
    BY <1>1, <1>2, <2>1 DEF AtEOF, IInv, TypeOK
<1>8. OutcomeInv' /\ SignalInv'
  BY <1>2 DEF IInv, OutcomeInv, SignalInv
<1> QED
  BY <1>4, <1>5, <1>6, <1>7, <1>8 DEF IInv

\* _trim_combined leaves exactly the limit.
LEMMA TrimmedTotal ==
    ASSUME NEW b \in [Streams -> Nat], Total(b) > Limit
    PROVE  Trimmed(b) \in [Streams -> Nat] /\ Total(Trimmed(b)) = Limit
<1> USE SupervisorAssumption DEF SupervisorAssumption
<1> DEFINE over == Total(b) - Limit
           fromErr == Min({b["stderr"], over})
<1>1. b["stdout"] \in Nat /\ b["stderr"] \in Nat /\ over \in Nat
  BY DEF Streams, Total
<1>2. \E x \in {b["stderr"], over} : \A y \in {b["stderr"], over} : x <= y
  BY <1>1
<1>3. fromErr \in {b["stderr"], over} /\ \A y \in {b["stderr"], over} : fromErr <= y
  BY <1>2 DEF Min
<1>4. Trimmed(b) = [stdout |-> b["stdout"] - (over - fromErr), stderr |-> b["stderr"] - fromErr]
  BY <1>1 DEF Trimmed, Total
<1> HIDE DEF fromErr
<1>5. over - fromErr \in Nat /\ over - fromErr <= b["stdout"] /\ fromErr <= b["stderr"]
      /\ fromErr \in Nat
  BY <1>1, <1>3 DEF Total
<1>6. b["stdout"] - (over - fromErr) \in Nat /\ b["stderr"] - fromErr \in Nat
  BY <1>1, <1>5
<1>7. Total(Trimmed(b)) = Limit
  BY <1>1, <1>4, <1>5 DEF Total
<1> HIDE DEF over
<1>8. Trimmed(b) \in [Streams -> Nat]
  BY <1>4, <1>6 DEF Streams
<1> QED
  BY <1>7, <1>8

LEMMA PumpExceededStep == ASSUME IInv, PumpExceeded PROVE IInv'
<1> USE SupervisorAssumption DEF SupervisorAssumption, IInv, PumpExceeded
<1>1. buffer' \in [Streams -> Nat] /\ Total(buffer') = Limit
  BY TrimmedTotal DEF TypeOK, LimitInv
<1>2. TypeOK'
  BY <1>1 DEF TypeOK
<1>3. LimitInv'
  BY <1>1 DEF LimitInv, MemoryIsBounded
<1>4. Total(written) > Limit
  BY DEF Conserved, LimitInv, Total, Streams, TypeOK
<1>5. OutcomeInv' /\ Conserved'
  BY <1>4 DEF OutcomeInv, Conserved, Total
<1>6. ClosedInv' /\ SignalInv'
  BY DEF ClosedInv, AtEOF, SignalInv
<1> QED
  BY <1>2, <1>3, <1>5, <1>6

\* The other ends of the pump only choose an outcome.
LEMMA PumpEndStep ==
    ASSUME IInv, PumpTimedOut \/ PumpDone \/ PumpInterrupted PROVE IInv'
<1> USE SupervisorAssumption DEF SupervisorAssumption, IInv, PumpTimedOut, PumpDone, PumpInterrupted
<1>1. TypeOK'
  BY DEF TypeOK
<1>2. LimitInv' /\ Conserved' /\ OutcomeInv'
  BY DEF LimitInv, MemoryIsBounded, Total, Conserved, OutcomeInv
<1>3. ClosedInv' /\ SignalInv'
  BY DEF ClosedInv, AtEOF, SignalInv
<1> QED
  BY <1>1, <1>2, <1>3

-----------------------------------------------------------------------------
(* The end of the command. *)

LEMMA ReapStep ==
    ASSUME IInv, Reaped \/ WaitGraceOver \/ WaitInterrupted PROVE IInv'
<1> USE SupervisorAssumption DEF SupervisorAssumption, IInv, Reaped, WaitGraceOver, WaitInterrupted
<1>1. TypeOK'
  BY DEF TypeOK
<1>2. LimitInv' /\ Conserved' /\ OutcomeInv'
  BY DEF LimitInv, MemoryIsBounded, Total, Conserved, OutcomeInv
<1>3. ClosedInv' /\ SignalInv'
  BY DEF ClosedInv, AtEOF, SignalInv, OutcomeInv
<1> QED
  BY <1>1, <1>2, <1>3

LEMMA SignalStep ==
    ASSUME IInv, SigTerm \/ SigKill PROVE IInv'
<1> USE SupervisorAssumption DEF SupervisorAssumption, IInv, SigTerm, SigKill, Without
<1>1. escalated' \in BOOLEAN
  BY DEF TypeOK
<1>2. TypeOK'
  BY <1>1 DEF TypeOK
<1>3. LimitInv' /\ Conserved' /\ OutcomeInv'
  BY DEF LimitInv, MemoryIsBounded, Total, Conserved, OutcomeInv
<1>4. ClosedInv'
  BY DEF ClosedInv, AtEOF, TypeOK
<1>5. SignalInv'
  BY DEF SignalInv
<1> QED
  BY <1>2, <1>3, <1>4, <1>5

LEMMA SupervisorStep == IInv /\ [Next]_vars => IInv'
<1> SUFFICES ASSUME IInv, [Next]_vars PROVE IInv'
  OBVIOUS
<1>1. CASE UNCHANGED vars
  BY <1>1 DEF vars, IInv, TypeOK, LimitInv, MemoryIsBounded, Total, Conserved, OutcomeInv,
              ClosedInv, AtEOF, SignalInv
<1>2. CASE Group
  BY <1>2, WriteStep, CloseStep, ForkStep, ExitStep DEF Group
<1>3. CASE Supervisor
  BY <1>3, PumpTurnStep, PumpExceededStep, PumpEndStep, ReapStep, SignalStep DEF Supervisor
<1> QED
  BY <1>1, <1>2, <1>3, DeadlineStep, PumpEndStep, ReapStep DEF Next, Stopped

LEMMA SupervisorInvariant == Spec => []IInv
  BY SupervisorInit, SupervisorStep, PTL DEF Spec

-----------------------------------------------------------------------------

\* The state of the supervisor and of its group is well typed, buffers and
\* pipes that never go below zero included.
THEOREM SupervisorTypeCorrect == Spec => []TypeOK
<1>1. IInv => TypeOK
  BY DEF IInv
<1> QED
  BY <1>1, SupervisorInvariant, PTL

\* However much the group writes, _pump never holds more than the limit and a
\* chunk of each pipe.
THEOREM PumpMemoryBounded == Spec => []MemoryIsBounded
<1>1. IInv => MemoryIsBounded
  BY DEF IInv, LimitInv
<1> QED
  BY <1>1, SupervisorInvariant, PTL

\* The output run_supervised returns is within the limit, is all that was
\* written when the pump ended at the end of both pipes, and was really too
\* much when it says so.
THEOREM OutputReported == Spec => []OutputIsTrue
<1>1. ASSUME IInv PROVE OutputIsTrue
  <2> SUFFICES ASSUME phase = "returned"
               PROVE  /\ Total(buffer) <= Limit
                      /\ outcome = "eof" => buffer = written
                      /\ outcome = "exceeded" => Total(written) > Limit
    BY DEF OutputIsTrue
  <2>1. ASSUME outcome = "eof" PROVE buffer = written
    <3>1. \A s \in Streams : pipe[s] = 0 /\ written[s] = buffer[s] + pipe[s]
      BY <1>1, <2>1 DEF IInv, OutcomeInv, ClosedInv, AtEOF, Conserved
    <3>2. \A s \in Streams : buffer[s] = written[s]
      BY <1>1, <3>1 DEF IInv, TypeOK
    <3> QED
      BY <1>1, <3>2 DEF IInv, TypeOK
  <2> QED
    BY <1>1, <2>1 DEF IInv, LimitInv, OutcomeInv
<1> QED
  BY <1>1, SupervisorInvariant, PTL

\* run_supervised returns only after the command has exited, and whoever
\* outlives a termination ignored SIGTERM.
THEOREM GroupSignalled == Spec => []GroupIsSignalled
<1>1. IInv => GroupIsSignalled
  BY DEF IInv, SignalInv, GroupIsSignalled
<1> QED
  BY <1>1, SupervisorInvariant, PTL

=============================================================================
