---------------------------- MODULE GitPipeline ----------------------------
(***************************************************************************)
(* One patch transaction: apply_patch in arena/patching/git_pipeline.py.   *)
(*                                                                         *)
(* A tree gives each path an entry (a Git mode and a blob) or Absent.  Git *)
(* is external and free: it may ignore files, convert what it adds and what *)
(* it checks out, refuse, time out or flood.  Only what the code checks of *)
(* it can make the result right.                                           *)
(***************************************************************************)
EXTENDS Naturals, FiniteSets

CONSTANTS
    Paths,
    Blobs,
    UnsafePaths,     \* paths the portable path policy refuses
    ProtectedPaths,  \* PROTECTED_BASENAMES and the case's protected_paths
    Key,             \* a path's normalized, case-folded form
    Sources, Texts, Leftovers,  \* the trees, patches and old destinations there are
    MaxPatch,        \* limits.PATCH_BYTES, counted in patched paths
    MaxChanged,      \* limits.GIT_MAX_CHANGED_FILES
    Absent, Keep     \* no entry; a path the patch does not mention

Regular == {"100644", "100755"}
Modes == Regular \cup {"120000", "160000"}
Entries == [mode : Modes, blob : Blobs]
Trees == [Paths -> Entries \cup {Absent}]
Patches == [Paths -> Entries \cup {Absent, Keep}]
Nowhere == [p \in Paths |-> Absent]

ASSUME PipelineAssumption ==
    /\ UnsafePaths \subseteq Paths /\ ProtectedPaths \subseteq Paths
    /\ Sources \subseteq Trees /\ Texts \subseteq Patches /\ Leftovers \subseteq Trees
    /\ MaxPatch \in Nat /\ MaxChanged \in Nat
    /\ Absent \notin Entries /\ Keep \notin Entries /\ Absent # Keep

VARIABLES
    phase,
    source,    \* source_dir, a subtree of the sealed snapshot
    patch,     \* what the patch text asks for
    dest,      \* the destination's files
    metadata,  \* a .git directory is in the destination
    index, baseline, tree,  \* Git's index, baseline_tree and result_tree
    result     \* the GitPatchResult

vars == <<phase, source, patch, dest, metadata, index, baseline, tree, result>>

Present(t) == {p \in Paths : t[p] # Absent}
Patched == {p \in Paths : patch[p] # Keep}

\* What the patch text promises: the patched paths replaced, the rest kept.
Requested(t) == [p \in Paths |-> IF patch[p] = Keep THEN t[p] ELSE patch[p]]

\* git diff --raw of two trees, without rename detection.
Changes(old, new) == {p \in Paths : old[p] # new[p]}

RelativePathError(p) == p \in UnsafePaths
IsProtected(p) == p \in ProtectedPaths
IsRegular(t, p) == t[p] # Absent /\ t[p].mode \in Regular

NoResult == [applied |-> FALSE, reason |-> "none", touched |-> {}]

\* The transaction starts on a destination that may hold something already.
Init ==
    /\ phase = "start"
    /\ source \in Sources
    /\ patch \in Texts
    /\ dest \in Leftovers
    /\ metadata = FALSE
    /\ index = Nowhere
    /\ baseline = Nowhere
    /\ tree = Nowhere
    /\ result = NoResult

-----------------------------------------------------------------------------

\* except _GitRunError: the destination is removed, as far as rmtree can.
Fail(reason) ==
    /\ phase' = "returned"
    /\ result' = [applied |-> FALSE, reason |-> reason, touched |-> {}]
    /\ \/ dest' = Nowhere /\ metadata' = FALSE
       \/ UNCHANGED <<dest, metadata>>
    /\ UNCHANGED <<source, patch, index, baseline, tree>>

Goto(p) == phase' = p /\ UNCHANGED <<source, patch, result>>

\* A blank or oversized patch is refused before anything is touched.
Refusal ==
    IF Patched = {} THEN "no_patch_provided"
    ELSE IF Cardinality(Patched) > MaxPatch THEN "patch_too_large"
    ELSE "none"

Refuse ==
    /\ phase = "start"
    /\ Refusal # "none"
    /\ phase' = "returned"
    /\ result' = [applied |-> FALSE, reason |-> Refusal, touched |-> {}]
    /\ UNCHANGED <<source, patch, dest, metadata, index, baseline, tree>>

\* What is left of an earlier destination is removed, then the source copied.
PrepareWorkspace ==
    /\ phase = "start"
    /\ Refusal = "none"
    /\ dest' = source
    /\ Goto("scan_baseline")
    /\ UNCHANGED <<metadata, index, baseline, tree>>

\* rmtree left something, so copytree raises; or copytree fails on its way.
\* An OSError is no _GitRunError: it leaves apply_patch, and the files stay.
PrepareRaises ==
    /\ phase = "start"
    /\ Refusal = "none"
    /\ \/ dest # Nowhere /\ UNCHANGED dest
       \/ \E copied \in SUBSET Present(source) :
            dest' = [p \in Paths |-> IF p \in copied THEN source[p] ELSE Absent]
    /\ phase' = "raised"
    /\ UNCHANGED <<source, patch, metadata, index, baseline, tree, result>>

\* No links or special files, and no path the policy refuses, before Git sees it.
BaselineIsSafe ==
    \A p \in Present(dest) : IsRegular(dest, p) /\ ~RelativePathError(p)

ScanBaseline ==
    /\ phase = "scan_baseline"
    /\ \/ /\ BaselineIsSafe
          /\ Goto("init")
          /\ UNCHANGED <<dest, metadata, index, baseline, tree>>
       \/ ~BaselineIsSafe /\ Fail("baseline_index_failed")

\* git version, git init, git rev-parse --show-object-format
InitRepository ==
    /\ phase = "init"
    /\ metadata' = TRUE
    /\ Goto("add")
    /\ UNCHANGED <<dest, index, baseline, tree>>

\* What a filter of Git makes of an entry's bytes.
Converted(e, blob) == [mode |-> e.mode, blob |-> blob]

\* git add -A: some files may be ignored, and their bytes converted.
Add ==
    /\ phase = "add"
    /\ \E added \in SUBSET Present(dest) : \E blob \in [added -> Blobs] :
        index' = [p \in Paths |-> IF p \in added THEN Converted(dest[p], blob[p])
                                  ELSE Absent]
    /\ Goto("verify_baseline")
    /\ UNCHANGED <<dest, metadata, baseline, tree>>

\* _verify_index_bytes: every index entry has the raw bytes and the mode of its
\* file, whatever git status says.
IndexIsExact ==
    \A p \in Present(index) :
        IsRegular(index, p) /\ ~RelativePathError(p) /\ index[p] = dest[p]

\* Mutant of VerifyBaseline: the baseline index is trusted.
TrustBaseline ==
    /\ phase = "verify_baseline"
    /\ baseline' = index
    /\ Goto("apply")
    /\ UNCHANGED <<dest, metadata, index, tree>>

VerifyBaseline ==
    /\ phase = "verify_baseline"
    /\ \/ /\ IndexIsExact
          /\ baseline' = index
          /\ Goto("apply")
          /\ UNCHANGED <<dest, metadata, index, tree>>
       \/ ~IndexIsExact /\ Fail("baseline_index_failed")

\* git apply --index wants a path it creates to be nowhere and a path it
\* changes or deletes to be in the index.
Applicable ==
    \A p \in Patched :
        /\ patch[p] # index[p]
        /\ index[p] = Absent => dest[p] = Absent

\* The preflight and the application: the index gets what the patch says, and
\* the files may be converted on their way out.
ApplyPatch ==
    /\ phase = "apply"
    /\ \/ /\ Applicable
          /\ index' = Requested(index)
          /\ \E blob \in [Patched -> Blobs] :
               dest' = [p \in Paths |->
                          IF p \in Patched /\ patch[p] # Absent
                          THEN Converted(patch[p], blob[p]) ELSE Requested(dest)[p]]
          /\ Goto("diff")
          /\ UNCHANGED <<metadata, baseline, tree>>
       \/ ~Applicable /\ Fail("patch_preflight_failed")

\* git status (Git's own view, see GitFails), git write-tree and git diff.
ReadResult ==
    /\ phase = "diff"
    /\ \/ /\ Cardinality(Changes(baseline, index)) <= MaxChanged
          /\ Cardinality(Present(index)) <= MaxChanged
          /\ tree' = index
          /\ Goto("validate")
          /\ UNCHANGED <<dest, metadata, index, baseline>>
       \/ /\ \/ Cardinality(Changes(baseline, index)) > MaxChanged
             \/ Cardinality(Present(index)) > MaxChanged
          /\ Fail("git_output_too_large")

Collides(p, q) == p # q /\ Key[p] = Key[q]

\* Mutant of Violation: an untouched protected file is held against the patch.
ViolationOfIndex ==
    LET changes == Changes(baseline, tree)
    IN  IF \E p \in changes : \E t \in {baseline, tree} :
               t[p] # Absent /\ t[p].mode \notin Regular THEN "unsafe_result_mode"
        ELSE IF \E p \in changes : RelativePathError(p) THEN "unsafe_result_path"
        ELSE IF \E p \in Present(index) : IsProtected(p) THEN "protected_path_changed"
        ELSE IF \E p, q \in Present(index) : Collides(p, q) THEN "path_collision"
        ELSE "none"

\* _validate_result: the changes first, then the complete index, in this order.
Violation ==
    LET changes == Changes(baseline, tree)
    IN  IF \E p \in changes : \E t \in {baseline, tree} :
               t[p] # Absent /\ t[p].mode \notin Regular THEN "unsafe_result_mode"
        ELSE IF \E p \in changes : RelativePathError(p) THEN "unsafe_result_path"
        ELSE IF \E p \in changes : IsProtected(p) THEN "protected_path_changed"
        ELSE IF \E p \in Present(index) : ~IsRegular(index, p) THEN "unsafe_result_mode"
        ELSE IF \E p \in Present(index) : RelativePathError(p) THEN "unsafe_result_path"
        ELSE IF \E p, q \in Present(index) : Collides(p, q) THEN "path_collision"
        ELSE "none"

ValidateResult ==
    /\ phase = "validate"
    /\ \/ /\ Violation = "none"
          /\ Goto("verify_result")
          /\ UNCHANGED <<dest, metadata, index, baseline, tree>>
       \/ Violation # "none" /\ Fail(Violation)

\* Mutant of VerifyResult: a clean git status is taken as proof.
TrustStatus ==
    /\ phase = "verify_result"
    /\ Goto("cleanup")
    /\ UNCHANGED <<dest, metadata, index, baseline, tree>>

\* The bytes again, and git write-tree still gives the result tree.
VerifyResult ==
    /\ phase = "verify_result"
    /\ \/ /\ IndexIsExact /\ index = tree
          /\ Goto("cleanup")
          /\ UNCHANGED <<dest, metadata, index, baseline, tree>>
       \/ /\ ~(IndexIsExact /\ index = tree)
          /\ Fail(IF IndexIsExact THEN "result_tree_verification_failed"
                  ELSE "index_worktree_mismatch")

RemoveMetadata ==
    /\ phase = "cleanup"
    /\ \/ /\ metadata' = FALSE
          /\ Goto("rescan")
          /\ UNCHANGED <<dest, index, baseline, tree>>
       \/ Fail("git_metadata_cleanup_failed")

\* Mutant of Rescan: the files are not compared with the index.
RescanNothing ==
    /\ phase = "rescan"
    /\ phase' = "returned"
    /\ result' = [applied |-> TRUE, reason |-> "none", touched |-> Changes(baseline, tree)]
    /\ UNCHANGED <<source, patch, dest, metadata, index, baseline, tree>>

\* _scan_workspace_files, once more: exactly the files of the index.  After the
\* checks above it has no link, special file or metadata left to refuse.
Rescan ==
    /\ phase = "rescan"
    /\ \/ /\ Present(dest) = Present(index)
          /\ phase' = "returned"
          /\ result' = [applied |-> TRUE, reason |-> "none", touched |-> Changes(baseline, tree)]
          /\ UNCHANGED <<source, patch, dest, metadata, index, baseline, tree>>
       \/ Present(dest) # Present(index) /\ Fail("index_worktree_mismatch")

\* The reasons a Git command of a phase may end the transaction with: it fails,
\* times out, floods, reports what _check_status_clean refuses, or prints what
\* the strict parsers refuse.
GitReasons ==
    {"git_timeout", "git_output_too_large"} \cup
    CASE phase = "init" -> {"git_unavailable", "git_initialization_failed"}
      [] phase \in {"add", "verify_baseline"} ->
            {"baseline_index_failed", "git_output_invalid", "unmerged_index"}
      [] phase = "apply" -> {"patch_preflight_failed", "patch_apply_failed"}
      [] phase = "diff" ->
            {"untracked_output", "unmerged_index", "index_worktree_mismatch",
             "result_tree_verification_failed", "git_output_invalid"}
      [] phase = "verify_result" ->
            {"index_worktree_mismatch", "result_tree_verification_failed"}
      [] OTHER -> {}

GitFails ==
    /\ phase \in {"init", "add", "verify_baseline", "apply", "diff", "verify_result"}
    /\ \E reason \in GitReasons : Fail(reason)

Ended == phase \in {"returned", "raised"}
Stopped == Ended /\ UNCHANGED vars

Next ==
    \/ Refuse \/ PrepareWorkspace \/ PrepareRaises \/ ScanBaseline \/ InitRepository
    \/ Add \/ VerifyBaseline \/ ApplyPatch \/ ReadResult \/ ValidateResult
    \/ VerifyResult \/ RemoveMetadata \/ Rescan \/ GitFails \/ Stopped

Spec == Init /\ [][Next]_vars

-----------------------------------------------------------------------------

Reasons ==
    {"none", "no_patch_provided", "patch_too_large", "git_unavailable", "git_timeout",
     "git_output_too_large", "git_output_invalid", "git_initialization_failed",
     "baseline_index_failed", "patch_preflight_failed", "patch_apply_failed",
     "untracked_output", "unmerged_index", "index_worktree_mismatch",
     "result_tree_verification_failed", "unsafe_result_mode", "unsafe_result_path",
     "protected_path_changed", "path_collision", "git_metadata_cleanup_failed"}

TypeOK ==
    /\ phase \in {"start", "scan_baseline", "init", "add", "verify_baseline", "apply",
                  "diff", "validate", "verify_result", "cleanup", "rescan",
                  "returned", "raised"}
    /\ source \in Trees /\ patch \in Patches
    /\ dest \in Trees /\ index \in Trees /\ baseline \in Trees /\ tree \in Trees
    /\ metadata \in BOOLEAN
    /\ result \in [applied : BOOLEAN, reason : Reasons, touched : SUBSET Paths]

\* A patch that is reported as applied left exactly the source with the patch's
\* own bytes in the destination, whatever Git ignored or converted, whatever the
\* destination held before, and no repository metadata.
AppliedIsExact == result.applied => dest = Requested(source) /\ ~metadata

\* The tree that is tested has only regular files under safe paths that differ
\* after normalization, and every protected file is as the pack has it.
AppliedObeysPolicy ==
    result.applied =>
        /\ \A p \in Present(dest) : IsRegular(dest, p) /\ ~RelativePathError(p)
        /\ \A p, q \in Present(dest) : ~Collides(p, q)
        /\ \A p \in ProtectedPaths : dest[p] = source[p]

\* touched_files, read from Git's trees, is what really differs between the
\* source and the destination.
EvidenceIsTrue == result.applied => result.touched = Changes(source, dest)

\* A patch is blamed for a protected or an unsafe path (both void the repair in
\* score_deterministic_case) only if it asks for a change of such a path.
BlameIsFair ==
    /\ result.reason = "protected_path_changed" =>
         \E p \in Patched \cap ProtectedPaths : patch[p] # source[p]
    /\ result.reason = "unsafe_result_path" =>
         \E p \in Patched \cap UnsafePaths : patch[p] # source[p]

=============================================================================
