------------------------- MODULE GitPipelineProofs -------------------------
(***************************************************************************)
(* The patch transaction is right for any paths, contents, policies and    *)
(* patches, and for whatever Git ignores, converts or refuses; and each    *)
(* Git command it runs retains a bounded output and returns all of it, for *)
(* every cap, chunk and amount of output.                                  *)
(***************************************************************************)
EXTENDS GitPipeline, GitCommand, TLAPS

Applying == {"diff", "validate", "verify_result", "cleanup", "rescan"}

\* Before the patch is applied the destination is the copied source.
CopyInv ==
    phase \in {"scan_baseline", "init", "add", "verify_baseline", "apply"} => dest = source

\* What passed ScanBaseline.
SourceInv ==
    phase \in {"init", "add", "verify_baseline", "apply"} \cup Applying =>
        \A p \in Paths : source[p] # Absent => IsRegular(source, p) /\ ~RelativePathError(p)

\* A path is in the verified baseline as the source has it, or Git ignored it.
BaselineInv ==
    phase \in {"apply"} \cup Applying =>
        \A p \in Paths : baseline[p] = source[p] \/ baseline[p] = Absent

\* The index is the patched baseline; unpatched files are the source's, and no
\* patched path is one that Git ignored.
PatchInv ==
    /\ phase = "apply" => index = baseline
    /\ phase \in Applying =>
         \A p \in Paths :
            /\ index[p] = IF patch[p] = Keep THEN baseline[p] ELSE patch[p]
            /\ patch[p] = Keep => dest[p] = source[p]
            /\ patch[p] # Keep => baseline[p] = source[p]

\* What the checks of the result have established when they are passed.
CheckedInv ==
    /\ phase \in Applying \ {"diff"} => tree = index
    /\ phase \in {"verify_result", "cleanup", "rescan"} => Violation = "none"
    /\ phase \in {"cleanup", "rescan"} => IndexIsExact
    /\ phase = "rescan" => ~metadata

Promise == AppliedIsExact /\ AppliedObeysPolicy /\ EvidenceIsTrue /\ BlameIsFair

\* Nothing is promised before the end, and then all of it.
ResultInv ==
    /\ phase # "returned" => result = NoResult
    /\ phase = "returned" => Promise

IInv == TypeOK /\ CopyInv /\ SourceInv /\ BaselineInv /\ PatchInv /\ CheckedInv /\ ResultInv

-----------------------------------------------------------------------------

LEMMA TreeTypes ==
    ASSUME NEW t \in Trees, NEW p \in Paths
    PROVE  t[p] \in Entries \/ t[p] = Absent
  BY DEF Trees

LEMMA InitIInv == ASSUME Init PROVE IInv
  <1>1. Nowhere \in Trees
    BY DEF Nowhere, Trees
  <1>2. TypeOK
    BY <1>1, PipelineAssumption DEF Init, TypeOK, NoResult, Reasons
  <1>3. phase = "start" /\ result = NoResult
    BY DEF Init
  <1> QED
    BY <1>2, <1>3 DEF IInv, CopyInv, SourceInv, BaselineInv, PatchInv, CheckedInv,
       ResultInv, Applying

\* A failure promises nothing that a success would, and it keeps the types.
LEMMA FailIInv ==
    ASSUME IInv, NEW reason \in Reasons, Fail(reason),
           reason \notin {"protected_path_changed", "unsafe_result_path"}
    PROVE  IInv'
  <1>1. TypeOK'
    BY DEF IInv, TypeOK, Fail, Nowhere, Trees
  <1>2. phase' = "returned" /\ result'.applied = FALSE /\ result'.reason = reason
    BY DEF Fail
  <1>3. Promise'
    BY <1>2 DEF Promise, AppliedIsExact, AppliedObeysPolicy, EvidenceIsTrue, BlameIsFair
  <1> QED
    BY <1>1, <1>2, <1>3 DEF IInv, CopyInv, SourceInv, BaselineInv, PatchInv, CheckedInv,
       ResultInv, Applying

LEMMA FairFailIInv ==
    ASSUME IInv, phase = "validate", NEW reason \in Reasons, reason = Violation, Fail(reason)
    PROVE  IInv'
  <1>1. TypeOK'
    BY DEF IInv, TypeOK, Fail, Nowhere, Trees
  <1>2. phase' = "returned" /\ result'.applied = FALSE /\ result'.reason = reason
    BY DEF Fail
  <1>3. UNCHANGED <<source, patch>>
    BY DEF Fail
  <1>4. \A p \in Paths :
          /\ index[p] = IF patch[p] = Keep THEN baseline[p] ELSE patch[p]
          /\ patch[p] # Keep => baseline[p] = source[p]
          /\ baseline[p] = source[p] \/ baseline[p] = Absent
          /\ source[p] # Absent => ~RelativePathError(p)
    BY DEF IInv, PatchInv, BaselineInv, SourceInv, Applying
  <1>5. tree = index
    BY DEF IInv, CheckedInv, Applying
  <1>6. reason = "protected_path_changed" =>
          \E p \in Patched \cap ProtectedPaths : patch[p] # source[p]
    <2> SUFFICES ASSUME reason = "protected_path_changed"
                 PROVE  \E p \in Patched \cap ProtectedPaths : patch[p] # source[p]
      OBVIOUS
    <2>1. PICK p \in Changes(baseline, tree) : IsProtected(p)
      BY DEF Violation
    <2> QED
      BY <2>1, <1>4, <1>5 DEF Changes, IsProtected, Patched
  <1>7. reason = "unsafe_result_path" =>
          \E p \in Patched \cap UnsafePaths : patch[p] # source[p]
    <2> SUFFICES ASSUME reason = "unsafe_result_path"
                 PROVE  \E p \in Patched \cap UnsafePaths : patch[p] # source[p]
      OBVIOUS
    <2>1. \/ \E p \in Changes(baseline, tree) : RelativePathError(p)
          \/ \E p \in Present(index) : RelativePathError(p)
      BY DEF Violation
    <2>2. CASE \E p \in Changes(baseline, tree) : RelativePathError(p)
      BY <2>2, <1>4, <1>5 DEF Changes, RelativePathError, Patched
    <2>3. CASE \E p \in Present(index) : RelativePathError(p)
      BY <2>3, <1>4 DEF Present, RelativePathError, Patched
    <2> QED
      BY <2>1, <2>2, <2>3
  <1>8. Promise'
    BY <1>2, <1>3, <1>6, <1>7 DEF Promise, AppliedIsExact, AppliedObeysPolicy,
       EvidenceIsTrue, BlameIsFair, Patched
  <1> QED
    BY <1>1, <1>2, <1>8 DEF IInv, CopyInv, SourceInv, BaselineInv, PatchInv, CheckedInv,
       ResultInv, Applying

\* The last step: everything checked so far makes the success true.
LEMMA SuccessIInv ==
    ASSUME IInv, phase = "rescan", Rescan, Present(dest) = Present(index)
    PROVE  IInv'
  <1>1. /\ phase' = "returned"
        /\ result' = [applied |-> TRUE, reason |-> "none", touched |-> Changes(baseline, tree)]
        /\ UNCHANGED <<source, patch, dest, metadata, index, baseline, tree>>
    BY DEF Rescan
  <1>2. TypeOK'
    BY <1>1 DEF IInv, TypeOK, Changes, Reasons
  <1>3. \A p \in Paths :
          /\ index[p] = IF patch[p] = Keep THEN baseline[p] ELSE patch[p]
          /\ patch[p] = Keep => dest[p] = source[p]
          /\ patch[p] # Keep => baseline[p] = source[p]
    BY DEF IInv, PatchInv, Applying
  <1>4. tree = index /\ Violation = "none" /\ IndexIsExact /\ ~metadata
    BY DEF IInv, CheckedInv, Applying
  <1>5. dest \in Trees /\ index \in Trees /\ source \in Trees
    BY DEF IInv, TypeOK
  <1>6. \A p \in Paths : dest[p] = index[p]
    BY <1>4 DEF IndexIsExact, Present
  <1>7. dest = Requested(source)
    BY <1>3, <1>5, <1>6 DEF Requested, Trees
  <1>8. Changes(baseline, tree) = Changes(source, dest)
    BY <1>3, <1>4, <1>6 DEF Changes
  <1>9. /\ \A p \in Changes(baseline, tree) : ~IsProtected(p)
        /\ \A p \in Present(index) : IsRegular(index, p) /\ ~RelativePathError(p)
        /\ \A p, q \in Present(index) : ~Collides(p, q)
    BY <1>4 DEF Violation
  <1>10. AppliedObeysPolicy'
    <2>1. \A p \in Present(dest) : IsRegular(dest, p) /\ ~RelativePathError(p)
      BY <1>6, <1>9 DEF Present, IsRegular
    <2>2. \A p, q \in Present(dest) : ~Collides(p, q)
      BY <1>6, <1>9 DEF Present
    <2>3. \A p \in ProtectedPaths : dest[p] = source[p]
      BY <1>8, <1>9, PipelineAssumption DEF Changes, IsProtected
    <2> QED
      BY <1>1, <2>1, <2>2, <2>3 DEF AppliedObeysPolicy, Present, IsRegular, Collides
  <1>11. AppliedIsExact' /\ EvidenceIsTrue' /\ BlameIsFair'
    BY <1>1, <1>4, <1>7, <1>8 DEF AppliedIsExact, EvidenceIsTrue, BlameIsFair, Requested
  <1> QED
    BY <1>1, <1>2, <1>10, <1>11 DEF IInv, CopyInv, SourceInv, BaselineInv, PatchInv,
       CheckedInv, ResultInv, Promise, Applying

-----------------------------------------------------------------------------

LEMMA NextIInv == ASSUME IInv, [Next]_vars PROVE IInv'
  <1> USE DEF Applying
  <1>1. CASE Refuse
    <2>1. Refusal \in Reasons \ {"protected_path_changed", "unsafe_result_path"}
      BY DEF Refusal, Reasons
    <2>2. TypeOK'
      BY <1>1, <2>1 DEF Refuse, IInv, TypeOK, NoResult
    <2>3. phase' = "returned" /\ result'.applied = FALSE /\ result'.reason = Refusal
      BY <1>1 DEF Refuse, NoResult
    <2>4. Promise'
      BY <2>1, <2>3 DEF Promise, AppliedIsExact, AppliedObeysPolicy, EvidenceIsTrue, BlameIsFair
    <2> QED
      BY <2>2, <2>3, <2>4 DEF IInv, CopyInv, SourceInv, BaselineInv, PatchInv, CheckedInv,
         ResultInv
  <1>2. CASE PrepareWorkspace
    BY <1>2 DEF PrepareWorkspace, Goto, IInv, TypeOK, CopyInv, SourceInv, BaselineInv,
       PatchInv, CheckedInv, ResultInv
  <1>3. CASE PrepareRaises
    <2>1. TypeOK'
      BY <1>3 DEF PrepareRaises, IInv, TypeOK, Trees, Present
    <2>2. phase' = "raised" /\ phase = "start" /\ result' = result
      BY <1>3 DEF PrepareRaises
    <2> QED
      BY <2>1, <2>2 DEF IInv, CopyInv, SourceInv, BaselineInv, PatchInv, CheckedInv, ResultInv
  <1>4. CASE ScanBaseline
    <2>1. CASE BaselineIsSafe
      BY <1>4, <2>1 DEF ScanBaseline, BaselineIsSafe, Present, IsRegular, Goto, IInv, TypeOK,
         CopyInv, SourceInv, BaselineInv, PatchInv, CheckedInv, ResultInv
    <2>2. CASE ~BaselineIsSafe
      BY <1>4, <2>2, FailIInv DEF ScanBaseline, Reasons
    <2> QED
      BY <2>1, <2>2
  <1>5. CASE InitRepository
    BY <1>5 DEF InitRepository, Goto, IInv, TypeOK, CopyInv, SourceInv, BaselineInv,
       PatchInv, CheckedInv, ResultInv, IsRegular
  <1>6. CASE Add
    <2>1. index' \in Trees
      <3>0. PICK added \in SUBSET Present(dest) : \E blob \in [added -> Blobs] :
              index' = [p \in Paths |-> IF p \in added THEN Converted(dest[p], blob[p])
                                        ELSE Absent]
        BY <1>6 DEF Add
      <3>1. PICK blob \in [added -> Blobs] :
              index' = [p \in Paths |-> IF p \in added THEN Converted(dest[p], blob[p])
                                        ELSE Absent]
        BY <3>0
      <3>2. \A p \in added : dest[p] \in Entries /\ blob[p] \in Blobs
        BY TreeTypes DEF IInv, TypeOK, Present
      <3>3. \A p \in added : Converted(dest[p], blob[p]) \in Entries
        BY <3>2 DEF Entries, Converted
      <3> QED
        BY <3>1, <3>3 DEF Trees
    <2> QED
      BY <1>6, <2>1 DEF Add, Goto, IInv, TypeOK, CopyInv, SourceInv, BaselineInv,
         PatchInv, CheckedInv, ResultInv, IsRegular
  <1>7. CASE VerifyBaseline
    <2>1. CASE IndexIsExact
      <3>1. /\ phase = "verify_baseline" /\ phase' = "apply" /\ baseline' = index
            /\ UNCHANGED <<source, patch, dest, metadata, index, tree, result>>
        BY <1>7, <2>1 DEF VerifyBaseline, Goto
      <3>2. \A p \in Paths : index[p] = source[p] \/ index[p] = Absent
        BY <2>1, <3>1 DEF IndexIsExact, Present, IInv, CopyInv
      <3> QED
        BY <3>1, <3>2 DEF IInv, TypeOK, CopyInv, SourceInv, BaselineInv,
           PatchInv, CheckedInv, ResultInv, IsRegular
    <2>2. CASE ~IndexIsExact
      BY <1>7, <2>2, FailIInv DEF VerifyBaseline, Reasons
    <2> QED
      BY <2>1, <2>2
  <1>8. CASE ApplyPatch
    <2>1. CASE Applicable
      <3>1. /\ phase = "apply" /\ phase' = "diff" /\ index' = Requested(index)
            /\ UNCHANGED <<source, patch, metadata, baseline, tree, result>>
        BY <1>8, <2>1 DEF ApplyPatch, Goto
      <3>2. PICK blob \in [Patched -> Blobs] :
              dest' = [p \in Paths |->
                          IF p \in Patched /\ patch[p] # Absent
                          THEN Converted(patch[p], blob[p]) ELSE Requested(dest)[p]]
        BY <1>8, <2>1 DEF ApplyPatch
      <3>3. \A p \in Paths : patch[p] \in Entries \/ patch[p] \in {Absent, Keep}
        BY DEF IInv, TypeOK, Patches
      <3>4. \A t \in Trees : Requested(t) \in Trees
        BY <3>3 DEF Requested, Trees
      <3>5. index' \in Trees
        BY <3>1, <3>4 DEF IInv, TypeOK
      <3>6. dest' \in Trees
        <4>1. \A p \in Patched : patch[p] # Absent =>
                 Converted(patch[p], blob[p]) \in Entries
          BY <3>3 DEF Patched, Entries, Converted
        <4>2. Requested(dest) \in Trees
          BY <3>4 DEF IInv, TypeOK
        <4> QED
          BY <3>2, <4>1, <4>2 DEF Trees
      <3>7. \A p \in Paths :
              /\ index'[p] = IF patch[p] = Keep THEN baseline[p] ELSE patch[p]
              /\ patch[p] = Keep => dest'[p] = source[p]
              /\ patch[p] # Keep => baseline[p] = source[p]
        <4>1. index = baseline /\ dest = source
          BY <3>1 DEF IInv, PatchInv, CopyInv
        <4>2. \A p \in Paths : baseline[p] = source[p] \/ baseline[p] = Absent
          BY <3>1 DEF IInv, BaselineInv
        <4> QED
          BY <2>1, <3>1, <3>2, <4>1, <4>2 DEF Requested, Patched, Applicable
      <3> QED
        BY <3>1, <3>5, <3>6, <3>7 DEF IInv, TypeOK, CopyInv, SourceInv, BaselineInv,
           PatchInv, CheckedInv, ResultInv, IsRegular
    <2>2. CASE ~Applicable
      BY <1>8, <2>2, FailIInv DEF ApplyPatch, Reasons
    <2> QED
      BY <2>1, <2>2
  <1>9. CASE ReadResult
    <2>1. CASE phase' = "validate"
      <3>1. /\ phase = "diff" /\ tree' = index
            /\ UNCHANGED <<source, patch, dest, metadata, index, baseline, result>>
        BY <1>9, <2>1 DEF ReadResult, Goto, Fail
      <3> QED
        BY <2>1, <3>1 DEF IInv, TypeOK, CopyInv, SourceInv, BaselineInv,
           PatchInv, CheckedInv, ResultInv, IsRegular
    <2>2. CASE Fail("git_output_too_large")
      BY <2>2, FailIInv DEF Reasons
    <2> QED
      BY <1>9, <2>1, <2>2 DEF ReadResult, Goto
  <1>10. CASE ValidateResult
    <2>1. CASE Violation = "none"
      <3>1. /\ phase = "validate" /\ phase' = "verify_result"
            /\ UNCHANGED <<source, patch, dest, metadata, index, baseline, tree, result>>
        BY <1>10, <2>1 DEF ValidateResult, Goto
      <3>2. Violation' = Violation
        BY <3>1 DEF Violation, Changes, Present, IsRegular, IsProtected, RelativePathError,
           Collides
      <3> QED
        BY <2>1, <3>1, <3>2 DEF IInv, TypeOK, CopyInv, SourceInv, BaselineInv,
           PatchInv, CheckedInv, ResultInv, IsRegular
    <2>2. CASE Violation # "none"
      <3>1. Violation \in Reasons
        BY DEF Violation, Reasons
      <3> QED
        BY <1>10, <2>2, <3>1, FairFailIInv DEF ValidateResult
    <2> QED
      BY <2>1, <2>2
  <1>11. CASE VerifyResult
    <2>1. CASE IndexIsExact /\ index = tree
      <3>1. /\ phase = "verify_result" /\ phase' = "cleanup"
            /\ UNCHANGED <<source, patch, dest, metadata, index, baseline, tree, result>>
        BY <1>11, <2>1 DEF VerifyResult, Goto
      <3>2. Violation' = Violation /\ IndexIsExact'
        BY <2>1, <3>1 DEF Violation, Changes, Present, IsRegular, IsProtected,
           RelativePathError, Collides, IndexIsExact
      <3> QED
        BY <2>1, <3>1, <3>2 DEF IInv, TypeOK, CopyInv, SourceInv, BaselineInv,
           PatchInv, CheckedInv, ResultInv, IsRegular
    <2>2. CASE ~(IndexIsExact /\ index = tree)
      BY <1>11, <2>2, FailIInv DEF VerifyResult, Reasons
    <2> QED
      BY <2>1, <2>2
  <1>12. CASE RemoveMetadata
    <2>1. CASE phase' = "rescan"
      <3>1. /\ phase = "cleanup" /\ metadata' = FALSE
            /\ UNCHANGED <<source, patch, dest, index, baseline, tree, result>>
        BY <1>12, <2>1 DEF RemoveMetadata, Goto, Fail
      <3>2. Violation' = Violation /\ IndexIsExact' = IndexIsExact
        BY <3>1 DEF Violation, Changes, Present, IsRegular, IsProtected,
           RelativePathError, Collides, IndexIsExact
      <3> QED
        BY <2>1, <3>1, <3>2 DEF IInv, TypeOK, CopyInv, SourceInv, BaselineInv,
           PatchInv, CheckedInv, ResultInv, IsRegular
    <2>2. CASE Fail("git_metadata_cleanup_failed")
      BY <2>2, FailIInv DEF Reasons
    <2> QED
      BY <1>12, <2>1, <2>2 DEF RemoveMetadata, Goto
  <1>13. CASE Rescan
    <2>1. CASE Present(dest) = Present(index)
      BY <1>13, <2>1, SuccessIInv DEF Rescan
    <2>2. CASE Present(dest) # Present(index)
      BY <1>13, <2>2, FailIInv DEF Rescan, Reasons
    <2> QED
      BY <2>1, <2>2
  <1>14. CASE GitFails
    <2>1. GitReasons \subseteq Reasons \ {"protected_path_changed", "unsafe_result_path"}
      BY <1>14 DEF GitFails, GitReasons, Reasons
    <2> QED
      BY <1>14, <2>1, FailIInv DEF GitFails
  <1>15. CASE UNCHANGED vars
    <2>1. Violation' = Violation /\ IndexIsExact' = IndexIsExact
      BY <1>15 DEF vars, Violation, Changes, Present, IsRegular, IsProtected,
         RelativePathError, Collides, IndexIsExact
    <2>2. Promise' = Promise
      BY <1>15 DEF vars, Promise, AppliedIsExact, AppliedObeysPolicy, EvidenceIsTrue,
         BlameIsFair, Requested, Patched, Present, Changes, IsRegular, RelativePathError, Collides
    <2> QED
      BY <1>15, <2>1, <2>2 DEF vars, IInv, TypeOK, CopyInv, SourceInv, BaselineInv,
         PatchInv, CheckedInv, ResultInv, IsRegular
  <1> QED
    BY <1>1, <1>2, <1>3, <1>4, <1>5, <1>6, <1>7, <1>8, <1>9, <1>10, <1>11, <1>12, <1>13,
       <1>14, <1>15 DEF Next, Stopped

LEMMA Invariance == Spec => []IInv
  <1>1. Init => IInv
    BY InitIInv
  <1>2. IInv /\ [Next]_vars => IInv'
    BY NextIInv
  <1> QED
    BY <1>1, <1>2, PTL DEF Spec

LEMMA PromiseHolds == ASSUME IInv PROVE Promise
  <1>1. CASE phase = "returned"
    BY <1>1 DEF IInv, ResultInv
  <1>2. CASE phase # "returned"
    BY <1>2 DEF IInv, ResultInv, NoResult, Promise, AppliedIsExact, AppliedObeysPolicy,
       EvidenceIsTrue, BlameIsFair
  <1> QED
    BY <1>1, <1>2

\* The transaction's state is well typed.
THEOREM PipelineTypeCorrect == Spec => []TypeOK
  <1>1. IInv => TypeOK
    BY DEF IInv
  <1> QED
    BY <1>1, Invariance, PTL

\* apply_patch reports a success only with the requested tree in the
\* destination, for any patch and whatever Git does.
THEOREM SuccessIsExact == Spec => []AppliedIsExact
  <1>1. IInv => AppliedIsExact
    BY PromiseHolds DEF Promise
  <1> QED
    BY <1>1, Invariance, PTL

\* A tree that apply_patch accepts obeys the policy on modes, paths, collisions
\* and protected files.
THEOREM SuccessObeysPolicy == Spec => []AppliedObeysPolicy
  <1>1. IInv => AppliedObeysPolicy
    BY PromiseHolds DEF Promise
  <1> QED
    BY <1>1, Invariance, PTL

\* The files reported as touched are the ones that differ.
THEOREM ReportIsTrue == Spec => []EvidenceIsTrue
  <1>1. IInv => EvidenceIsTrue
    BY PromiseHolds DEF Promise
  <1> QED
    BY <1>1, Invariance, PTL

\* A patch is blamed for a protected or an unsafe path only if it asks for a
\* change of one: not for what the pack has there, and not for a path that Git
\* ignored or converted.
THEOREM PatchIsBlamedFairly == Spec => []BlameIsFair
  <1>1. IInv => BlameIsFair
    BY PromiseHolds DEF Promise
  <1> QED
    BY <1>1, Invariance, PTL

-----------------------------------------------------------------------------
(* The Git commands of the transaction: _run_git. *)

All == Streams \cup {"in"}

\* The part of the type invariant the proofs need.
Types ==
    /\ joined \in 0..3
    /\ written \in [Streams -> Nat] /\ buffers \in [Streams -> Nat]
    /\ output \in [Streams -> Nat]
    /\ thread \in [All -> {"none", "read", "over", "kill", "write", "done"}]
    /\ overflow \in BOOLEAN

Reads(s) == thread[s] \in {"none", "read"}
Retained == buffers["out"] + buffers["err"]

\* Each reader that has stopped reading may have added a chunk over the cap.
RetentionInv ==
    /\ Reads("out") /\ Reads("err") => Retained <= Cap
    /\ Reads("out") \/ Reads("err") => Retained <= Cap + Chunk
    /\ Retained <= Cap + 2 * Chunk

\* Output over the cap is on its way to the event or has set it.
OverflowInv ==
    /\ Retained <= Cap \/ overflow \/ (\E s \in Streams : thread[s] = "over")
    /\ \A s \in Streams : thread[s] = "kill" => overflow

\* A reader ends at the end of its stream, or because of an overflow.
DoneInv ==
    \A s \in Streams : thread[s] = "done" => overflow \/ buffers[s] = written[s]

\* What the main thread has joined has ended, unless it gave up on it.
JoinInv ==
    /\ joined >= 1 => "out" \in abandoned \/ thread["out"] = "done"
    /\ joined >= 2 => "err" \in abandoned \/ thread["err"] = "done"
    /\ pc = "copy" \/ outcome = "returned" => joined = 3
    /\ outcome = "returned" => pc = "done"

\* Between the look at the event and the copy nothing more comes in from a
\* reader that was joined.
TakenInv ==
    pc = "copy" =>
        /\ \A s \in Streams \ abandoned : buffers[s] = written[s]
        /\ abandoned \cap Streams = {} => Retained <= Cap

\* Before git is started no thread runs.
StartInv ==
    pc = "start" => /\ \A t \in All : thread[t] = "none"
                    /\ \A s \in Streams : buffers[s] = 0
                    /\ joined = 0

CommandInv == Types /\ StartInv /\ RetentionInv /\ OverflowInv /\ DoneInv /\ JoinInv /\ TakenInv
        /\ ReturnedOutputIsWhole

LEMMA CommandStart == CommandInit => CommandInv
<1> SUFFICES ASSUME CommandInit PROVE CommandInv
  OBVIOUS
<1> USE GitCommandAssumption DEF GitCommandAssumption, CommandInit, Streams, Zero
<1>1. Types
  <2>1. overflow \in BOOLEAN
    OBVIOUS
  <2>2. thread \in [All -> {"none", "read", "over", "kill", "write", "done"}]
    BY DEF All
  <2> QED
    BY <2>1, <2>2 DEF Types
<1>2. Retained = 0 /\ \A s \in Streams : thread[s] = "none"
  BY DEF Retained
<1>3. RetentionInv /\ OverflowInv
  BY <1>2 DEF RetentionInv, OverflowInv, Reads
<1>4. StartInv /\ DoneInv /\ JoinInv /\ TakenInv /\ ReturnedOutputIsWhole
  BY <1>2 DEF StartInv, All, DoneInv, JoinInv, TakenInv, ReturnedOutputIsWhole
<1> QED
  BY <1>1, <1>3, <1>4 DEF CommandInv

\* The variables the invariant speaks of.
Seen == <<pc, joined, abandoned, outcome, output, written, buffers, thread, overflow>>

LEMMA Unseen == CommandInv /\ UNCHANGED Seen => CommandInv'
  BY DEF CommandInv, Seen, Types, StartInv, RetentionInv, OverflowInv, DoneInv, JoinInv, TakenInv,
         ReturnedOutputIsWhole, Reads, Retained

\* Output of a process: its stream is still being read.
LEMMA WriteStep ==
    ASSUME CommandInv, NEW p \in Procs, NEW s \in Streams, Write(p, s) PROVE CommandInv'
<1> USE GitCommandAssumption DEF GitCommandAssumption, CommandInv, Types, Write, main
<1>1. Types' /\ StartInv'
  BY DEF StartInv, All, Streams
<1>2. RetentionInv' /\ OverflowInv'
  BY DEF RetentionInv, OverflowInv, Reads, Retained
<1>3. DoneInv' /\ JoinInv'
  BY DEF DoneInv, JoinInv, Streams
<1>4. s \notin abandoned => pc # "copy" /\ outcome # "returned"
  BY DEF JoinInv, Streams
<1>5. TakenInv'
  BY <1>4 DEF TakenInv, Retained
<1>6. ReturnedOutputIsWhole'
  BY <1>4 DEF ReturnedOutputIsWhole
<1> QED
  BY <1>1, <1>2, <1>3, <1>5, <1>6

\* A chunk: the reader was reading, so it had not added one over the cap yet.
LEMMA ReadStep ==
    ASSUME CommandInv, NEW s \in Streams, Read(s) PROVE CommandInv'
<1> USE GitCommandAssumption DEF GitCommandAssumption, Types
<1> USE DEF CommandInv
<1>1. PICK n \in 1..Chunk :
        /\ buffers[s] + n <= written[s]
        /\ buffers' = [buffers EXCEPT ![s] = @ + n]
        /\ thread' = [thread EXCEPT ![s] = IF TooBig(buffers') THEN "over" ELSE "read"]
  BY DEF Read
<1>2. thread[s] = "read" /\ UNCHANGED <<main, written, overflow>>
  BY DEF Read, group
<1>3. Types' /\ StartInv'
  BY <1>1, <1>2 DEF StartInv, All, Streams, main
<1>4. n \in Nat /\ n <= Chunk /\ Chunk \in Nat /\ Cap \in Nat
  OBVIOUS
<1>5. Retained' = Retained + n
  BY <1>1, <1>4 DEF Retained, Streams
<1>6. RetentionInv' /\ OverflowInv'
  <2>1. CASE TooBig(buffers')
    <3>1. thread' = [thread EXCEPT ![s] = "over"]
      BY <1>1, <2>1
    <3>2. RetentionInv'
      BY <3>1, <1>2, <1>4, <1>5 DEF RetentionInv, Reads, Streams, All, Retained
    <3>3. OverflowInv'
      BY <3>1, <1>2 DEF OverflowInv, Streams, All
    <3> QED
      BY <3>2, <3>3
  <2>2. CASE ~TooBig(buffers')
    <3>1. Retained' <= Cap
      BY <1>3, <1>4, <2>2 DEF TooBig, Retained, Streams
    <3>2. thread' = thread
      BY <1>1, <1>2, <2>2 DEF All
    <3> QED
      BY <3>1, <3>2, <1>2, <1>3, <1>4 DEF RetentionInv, OverflowInv, Retained, Streams
  <2> QED
    BY <2>1, <2>2
<1>7. DoneInv' /\ JoinInv'
  <2>1. \A t \in All : thread'[t] = "done" <=> thread[t] = "done"
    BY <1>1, <1>2 DEF All
  <2>2. \A t \in Streams \ {s} : buffers'[t] = buffers[t]
    BY <1>1
  <2>3. thread'[s] # "done"
    BY <1>1, <1>2 DEF All, Streams
  <2> QED
    BY <2>1, <2>2, <2>3, <1>2 DEF DoneInv, JoinInv, All, Streams, main
<1>8. s \notin abandoned => pc # "copy" /\ outcome # "returned"
  BY <1>2 DEF JoinInv, Streams
<1>9. TakenInv'
  BY <1>1, <1>2, <1>8 DEF TakenInv, main
<1>10. ReturnedOutputIsWhole'
  BY <1>2 DEF ReturnedOutputIsWhole, main
<1> QED
  BY <1>3, <1>6, <1>7, <1>9, <1>10

\* The end of a stream.
LEMMA EofStep ==
    ASSUME CommandInv, NEW s \in Streams, Eof(s) PROVE CommandInv'
<1> USE GitCommandAssumption DEF CommandInv, Types, Eof, main, group
<1>1. Types' /\ StartInv'
  BY DEF StartInv, All, Streams
<1>2. RetentionInv' /\ OverflowInv'
  BY DEF RetentionInv, OverflowInv, Reads, Retained, Streams, All
<1>3. DoneInv' /\ JoinInv'
  BY DEF DoneInv, JoinInv, Streams, All
<1>4. TakenInv' /\ ReturnedOutputIsWhole'
  BY DEF TakenInv, ReturnedOutputIsWhole, Retained
<1> QED
  BY <1>1, <1>2, <1>3, <1>4

LEMMA SetOverflowStep ==
    ASSUME CommandInv, NEW s \in Streams, SetOverflow(s) PROVE CommandInv'
<1> USE GitCommandAssumption DEF CommandInv, Types, SetOverflow, main, group
<1>1. Types' /\ StartInv'
  BY DEF StartInv, All, Streams
<1>2. RetentionInv' /\ OverflowInv'
  BY DEF RetentionInv, OverflowInv, Reads, Retained, Streams, All
<1>3. DoneInv' /\ JoinInv'
  BY DEF DoneInv, JoinInv, Streams, All
<1>4. TakenInv' /\ ReturnedOutputIsWhole'
  BY DEF TakenInv, ReturnedOutputIsWhole, Retained
<1> QED
  BY <1>1, <1>2, <1>3, <1>4

\* The overflow is set when the reader kills the group.
LEMMA KillStep ==
    ASSUME CommandInv, NEW s \in Streams, Kill(s) PROVE CommandInv'
<1> USE GitCommandAssumption DEF CommandInv, Types, Kill, main
<1>1. Types' /\ StartInv'
  BY DEF StartInv, All, Streams
<1>2. overflow
  BY DEF OverflowInv
<1>3. RetentionInv' /\ OverflowInv'
  BY <1>2 DEF RetentionInv, OverflowInv, Reads, Retained, Streams, All
<1>4. DoneInv' /\ JoinInv'
  BY <1>2 DEF DoneInv, JoinInv, Streams, All
<1>5. TakenInv' /\ ReturnedOutputIsWhole'
  BY DEF TakenInv, ReturnedOutputIsWhole, Retained
<1> QED
  BY <1>1, <1>3, <1>4, <1>5

LEMMA WriterEndsStep == ASSUME CommandInv, WriterEnds PROVE CommandInv'
<1> USE GitCommandAssumption DEF CommandInv, Types, WriterEnds, main, group
<1>1. Types' /\ StartInv'
  BY DEF StartInv, All
<1>2. \A s \in Streams : thread'[s] = thread[s]
  BY DEF Streams, All
<1>3. RetentionInv' /\ OverflowInv' /\ DoneInv' /\ JoinInv'
  BY <1>2 DEF RetentionInv, OverflowInv, DoneInv, JoinInv, Reads, Retained, Streams
<1>4. TakenInv' /\ ReturnedOutputIsWhole'
  BY DEF TakenInv, ReturnedOutputIsWhole, Retained
<1> QED
  BY <1>1, <1>3, <1>4

\* The main thread before its joins.
LEMMA WaitStep ==
    ASSUME CommandInv, Unavailable \/ Start \/ Reap \/ WaitTimesOut PROVE CommandInv'
<1> USE GitCommandAssumption DEF CommandInv, Types, group, Return
<1>1. UNCHANGED <<joined, abandoned, output, written, buffers, overflow>>
  BY DEF Unavailable, Start, Reap, WaitTimesOut
<1>2. pc \in {"start", "wait"} /\ pc' # "copy" /\ outcome # "returned" /\ outcome' # "returned"
  BY DEF Unavailable, Start, Reap, WaitTimesOut, JoinInv
<1>3. Types' /\ StartInv'
  BY <1>1 DEF Unavailable, Start, Reap, WaitTimesOut, All, Streams, StartInv
<1>4. CASE Start
  <2>1. \A s \in Streams : thread'[s] = "read" /\ buffers'[s] = 0
    BY <1>1, <1>4 DEF Start, StartInv, Streams, All
  <2>2. joined' = 0
    BY <1>1, <1>4 DEF Start, StartInv
  <2>3. Retained' = 0
    BY <2>1 DEF Retained, Streams
  <2>4. RetentionInv' /\ OverflowInv' /\ DoneInv' /\ JoinInv'
    BY <1>2, <2>1, <2>2, <2>3
       DEF GitCommandAssumption, RetentionInv, OverflowInv, DoneInv, JoinInv, Streams
  <2> QED
    BY <1>2, <1>3, <2>4 DEF TakenInv, ReturnedOutputIsWhole
<1>5. CASE Unavailable \/ Reap \/ WaitTimesOut
  <2>1. thread' = thread
    BY <1>5 DEF Unavailable, Reap, WaitTimesOut
  <2>2. RetentionInv' /\ OverflowInv' /\ DoneInv' /\ JoinInv'
    BY <1>1, <1>2, <2>1 DEF RetentionInv, OverflowInv, DoneInv, JoinInv, Reads, Retained
  <2> QED
    BY <1>2, <1>3, <2>2 DEF TakenInv, ReturnedOutputIsWhole
<1> QED
  BY <1>4, <1>5

LEMMA JoinStep == ASSUME CommandInv, Join PROVE CommandInv'
<1> USE GitCommandAssumption DEF CommandInv, Types, Join, group
<1>1. Len(Threads) = 3 /\ Threads[1] = "out" /\ Threads[2] = "err" /\ Threads[3] = "in"
  BY DEF Threads
<1>2. Types' /\ StartInv'
  BY <1>1 DEF StartInv
<1>3. RetentionInv' /\ OverflowInv' /\ DoneInv'
  BY DEF RetentionInv, OverflowInv, DoneInv, Reads, Retained
<1>4. abandoned \subseteq abandoned' /\ joined' = joined + 1 /\ joined < 3
      /\ (Threads[joined + 1] \in abandoned' \/ thread[Threads[joined + 1]] = "done")
  BY <1>1
<1>5. pc' = pc /\ pc # "copy" /\ outcome' = outcome /\ outcome # "returned" /\ thread' = thread
  BY DEF JoinInv
<1>6. JoinInv'
  BY <1>1, <1>4, <1>5 DEF JoinInv
<1>7. TakenInv' /\ ReturnedOutputIsWhole'
  BY <1>5 DEF TakenInv, ReturnedOutputIsWhole
<1> QED
  BY <1>2, <1>3, <1>6, <1>7

\* The event is looked at after the joins: what was joined has ended without an
\* overflow, so its stream is complete.
LEMMA CheckOverflowStep == ASSUME CommandInv, CheckOverflow PROVE CommandInv'
<1> USE GitCommandAssumption DEF CommandInv, Types, CheckOverflow, group, Return
<1>1. joined = 3 /\ pc = "join" /\ outcome # "returned" /\ outcome' # "returned"
  BY DEF Threads, JoinInv
<1>2. Types' /\ StartInv'
  BY <1>1 DEF StartInv
<1>3. RetentionInv' /\ OverflowInv' /\ DoneInv'
  BY DEF RetentionInv, OverflowInv, DoneInv, Reads, Retained
<1>4. JoinInv'
  BY <1>1 DEF JoinInv
<1>5. TakenInv'
  <2> SUFFICES ASSUME pc' = "copy" PROVE TakenInv'
    BY DEF TakenInv
  <2>1. ~overflow
    OBVIOUS
  <2>2. \A s \in Streams \ abandoned : thread[s] = "done"
    BY <1>1 DEF JoinInv, Streams
  <2>3. \A s \in Streams \ abandoned : buffers[s] = written[s]
    BY <2>1, <2>2 DEF DoneInv
  <2>4. abandoned \cap Streams = {} => Retained <= Cap
    BY <2>1, <2>2 DEF OverflowInv
  <2> QED
    BY <2>3, <2>4 DEF TakenInv, Retained
<1>6. ReturnedOutputIsWhole'
  BY <1>1 DEF ReturnedOutputIsWhole
<1> QED
  BY <1>2, <1>3, <1>4, <1>5, <1>6

LEMMA ReturnStep == ASSUME CommandInv, RaiseTimeout \/ Copy PROVE CommandInv'
<1> USE GitCommandAssumption DEF CommandInv, Types, RaiseTimeout, Copy, group, Return
<1>1. Types' /\ StartInv'
  BY DEF StartInv
<1>2. RetentionInv' /\ OverflowInv' /\ DoneInv'
  BY DEF RetentionInv, OverflowInv, DoneInv, Reads, Retained
<1>3. JoinInv'
  BY DEF JoinInv
<1>4. TakenInv'
  BY DEF TakenInv
<1>5. ReturnedOutputIsWhole'
  BY DEF TakenInv, ReturnedOutputIsWhole, Retained
<1> QED
  BY <1>1, <1>2, <1>3, <1>4, <1>5

LEMMA CommandStep == CommandInv /\ [CommandNext]_commandVars => CommandInv'
<1> SUFFICES ASSUME CommandInv, [CommandNext]_commandVars PROVE CommandInv'
  OBVIOUS
<1>1. CASE Main
  BY <1>1, WaitStep, JoinStep, CheckOverflowStep, ReturnStep DEF Main
<1>2. ASSUME NEW s \in Streams, Read(s) \/ Eof(s) \/ SetOverflow(s) \/ Kill(s) PROVE CommandInv'
  BY <1>2, ReadStep, EofStep, SetOverflowStep, KillStep
<1>3. ASSUME NEW p \in Procs, NEW s \in Streams, Write(p, s) PROVE CommandInv'
  BY <1>3, WriteStep
<1>4. CASE WriterEnds
  BY <1>4, WriterEndsStep
<1>5. ASSUME NEW p \in Procs, NEW s \in Streams, Close(p, s) \/ Fork \/ Exit(p) PROVE CommandInv'
  <2>1. UNCHANGED Seen
    BY <1>5 DEF Close, Fork, Exit, Seen, main
  <2> QED
    BY <2>1, Unseen
<1>6. CASE CommandOver \/ UNCHANGED commandVars
  <2>1. UNCHANGED Seen
    BY <1>6 DEF CommandOver, commandVars, Seen, main, group
  <2> QED
    BY <2>1, Unseen
<1> QED
  BY <1>1, <1>2, <1>3, <1>4, <1>5, <1>6 DEF CommandNext, Procs, Streams

\* The readers of _run_git together never retain more than a chunk each over the
\* cap, whatever git writes and whoever outlives it.
THEOREM RetentionBounded == CommandSpec => []RetainedIsBounded
<1>1. CommandInv => RetainedIsBounded
  BY DEF CommandInv, RetentionInv, Retained, RetainedIsBounded
<1> QED
  BY <1>1, CommandStart, CommandStep, PTL DEF CommandSpec

\* What _run_git returns of a stream whose reader it did not give up on is all
\* that was written to it, and within the cap.
THEOREM OutputWhole == CommandSpec => []ReturnedOutputIsWhole
<1>1. CommandInv => ReturnedOutputIsWhole
  BY DEF CommandInv
<1> QED
  BY <1>1, CommandStart, CommandStep, PTL DEF CommandSpec

=============================================================================
