--------------------------- MODULE PackAuthoring ---------------------------
(***************************************************************************)
(* How a pack directory comes to be and is pinned: import_fix and _publish *)
(* in arena/importer/historical_fix.py, and write_checksum in              *)
(* arena/benchmark/pack_hash.py.  Importers race for one output path,      *)
(* writers of pack.sha256 race with each other, with the importers and     *)
(* with an author who edits the pack; any of them may fail or die.         *)
(*                                                                         *)
(* A snapshot is one step: PackSnapshot shows that what it seals is the    *)
(* pack at one instant.  A staging directory is private to its importer,   *)
(* so it appears complete or not at all.                                   *)
(***************************************************************************)
EXTENDS Naturals, Sequences, FiniteSets

CONSTANTS
    Importers,  \* importers of distinct cases to the same output
    Order,      \* the entries of an importer's staging directory, sorted by name
    Writers,    \* calls of write_checksum
    Edits,      \* contents the author may give to a file
    MaxEdits,   \* bound on the author's edits
    Absent

\* What a pack has beside pack.sha256: the case's directory and manifest.yaml.
Files == {"case", "manifest"}

ASSUME AuthoringAssumption ==
    /\ \A i \in Importers :
         Order[i] \in [1..3 -> Files \cup {"pack.sha256"}]
         /\ {Order[i][n] : n \in 1..3} = Files \cup {"pack.sha256"}
    /\ Edits \cap Importers = {} /\ Absent \notin Edits \cup Importers
    /\ MaxEdits \in Nat

VARIABLES
    exists,    \* the output directory is there
    content,   \* its files: whose they are
    mode,      \* the permission bits, which no checksum covers
    temps,     \* the temporary files of _atomic_write that lie in it
    stored,    \* its pack.sha256
    import,    \* where an importer is
    moved,     \* entries an importer has renamed into the output
    write,     \* where a writer is
    intended,  \* the checksum a writer computed
    before,    \* the writer's before_nonchecksum
    prior,     \* the artifact it found
    edits,     \* edits so far
    disturbed  \* history: whether others changed the pack since it began

dir == <<exists, content, mode, temps, stored>>
importing == <<import, moved>>
writing == <<write, intended, before, prior>>
vars == <<dir, importing, writing, edits, disturbed>>

\* Mutant of Checksum: pack.sha256 is not left out of the content.
ChecksumWithArtifact == [content |-> content, temps |-> temps, stored |-> stored]

\* pack_checksum is over the names and bytes of all files but pack.sha256, a
\* temporary file of another writer included; it collides for no two packs.
Checksum == [content |-> content, temps |-> temps]

\* _nonchecksum_manifest
Manifest == [content |-> content, temps |-> temps, mode |-> mode]

Nothing == [f \in Files |-> Absent]

Init ==
    /\ exists = FALSE /\ content = Nothing /\ mode = 0 /\ temps = {} /\ stored = Absent
    /\ import = [i \in Importers |-> "start"]
    /\ moved = [i \in Importers |-> 0]
    /\ write = [w \in Writers |-> "idle"]
    /\ intended = [w \in Writers |-> Absent]
    /\ before = [w \in Writers |-> Absent]
    /\ prior = [w \in Writers |-> Absent]
    /\ edits = 0
    /\ disturbed = [w \in Writers |-> "no"]

\* What a writer has seen of the pack may still matter to it.
Watching == {"prior", "write", "writing", "recheck", "returned"}

\* Everyone but ws sees the pack or its artifact change, during its second
\* snapshot ("late") or not.
Disturb(ws) ==
    disturbed' = [w \in Writers |->
        IF w \in ws \/ write[w] \notin Watching THEN disturbed[w]
        ELSE IF write[w] = "recheck" THEN "late" ELSE "early"]

-----------------------------------------------------------------------------
(* Import. *)

\* import_fix up to _publish: the staging directory with its own checksum,
\* validated.  An output that is already there is refused at once.
Stage(i) ==
    /\ import[i] = "start"
    /\ ~exists
    /\ import' = [import EXCEPT ![i] = "staged"]
    /\ UNCHANGED <<dir, moved, writing, edits, disturbed>>

\* Mutant of Occupied: mkdir with exist_ok.
OccupiedNever == FALSE

\* What os.lstat and os.mkdir find at the output path.
Occupied == exists

\* The atomic claim of _publish.
Claim(i) ==
    /\ import[i] = "staged"
    /\ ~Occupied
    /\ exists' = TRUE
    /\ import' = [import EXCEPT ![i] = "moving"]
    /\ Disturb({})
    /\ UNCHANGED <<content, mode, temps, stored, moved, writing, edits>>

\* The next os.rename of the loop.
Move(i) ==
    LET entry == Order[i][moved[i] + 1]
    IN  /\ import[i] = "moving"
        /\ exists
        /\ moved' = [moved EXCEPT ![i] = @ + 1]
        /\ import' = [import EXCEPT ![i] = IF moved'[i] = Len(Order[i]) THEN "done" ELSE @]
        /\ IF entry = "pack.sha256"
           THEN /\ stored' = [content |-> [f \in Files |-> i], temps |-> {}]
                /\ UNCHANGED content
           ELSE /\ content' = [content EXCEPT ![entry] = i]
                /\ UNCHANGED stored
        /\ Disturb({})
        /\ UNCHANGED <<exists, mode, temps, writing, edits>>

\* A refused or failing import before its claim.
ImportFails(i) ==
    /\ import[i] \in {"start", "staged"}
    /\ import' = [import EXCEPT ![i] = "failed"]
    /\ UNCHANGED <<dir, moved, writing, edits, disturbed>>

\* A rename raises OSError: what was moved is removed with the output.  Errors of
\* rmtree are ignored, so some of it may stay.
MoveFails(i) ==
    /\ import[i] = "moving"
    /\ \/ /\ exists' = FALSE /\ content' = Nothing /\ temps' = {} /\ stored' = Absent
          /\ mode' = 0
          /\ import' = [import EXCEPT ![i] = "failed"]
       \/ /\ \E gone \in SUBSET Files :
               content' = [f \in Files |-> IF f \in gone THEN Absent ELSE content[f]]
          /\ stored' \in {stored, Absent}
          /\ import' = [import EXCEPT ![i] = "left"]
          /\ temps' \in SUBSET temps
          /\ UNCHANGED <<exists, mode>>
    /\ Disturb({})
    /\ UNCHANGED <<moved, writing, edits>>

\* Only OSError is handled: an interrupt between two renames removes the rest
\* of the staging directory and leaves the output, as does the death of the
\* process.
Interrupted(i) ==
    /\ import[i] = "moving"
    /\ import' = [import EXCEPT ![i] = "interrupted"]
    /\ UNCHANGED <<dir, moved, writing, edits, disturbed>>

-----------------------------------------------------------------------------
(* The author. *)

Edit ==
    /\ exists
    /\ edits < MaxEdits
    /\ edits' = edits + 1
    /\ \/ \E f \in Files, e \in Edits :
            /\ content[f] # Absent
            /\ content' = [content EXCEPT ![f] = e]
            /\ UNCHANGED mode
       \/ mode' = 1 - mode /\ UNCHANGED content
    /\ Disturb({})
    /\ UNCHANGED <<exists, temps, stored, importing, writing>>

-----------------------------------------------------------------------------
(* write_checksum *)

\* The first snapshot.
Begin(w) ==
    /\ write[w] = "idle"
    /\ exists
    /\ intended' = [intended EXCEPT ![w] = Checksum]
    /\ before' = [before EXCEPT ![w] = Manifest]
    /\ write' = [write EXCEPT ![w] = "prior"]
    /\ disturbed' = [disturbed EXCEPT ![w] = "no"]
    /\ UNCHANGED <<dir, importing, prior, edits>>

\* had_prior and prior.
ReadPrior(w) ==
    /\ write[w] = "prior"
    /\ prior' = [prior EXCEPT ![w] = stored]
    /\ write' = [write EXCEPT ![w] = "write"]
    /\ UNCHANGED <<dir, importing, intended, before, edits, disturbed>>

\* _atomic_write, of the new checksum or of the prior one: the temporary file
\* lies in the pack until it replaces the target.
CreateTemp(w) ==
    /\ write[w] = "write" \/ (write[w] = "restore" /\ prior[w] # Absent)
    /\ exists
    /\ temps' = temps \cup {w}
    /\ write' = [write EXCEPT ![w] = IF @ = "write" THEN "writing" ELSE "restoring"]
    /\ Disturb({w})
    /\ UNCHANGED <<exists, content, mode, stored, importing, intended, before, prior, edits>>

\* What the exception handler puts back.
Withdrawn(w) == prior[w]

Replace(w) ==
    /\ write[w] \in {"writing", "restoring"}
    /\ w \in temps
    /\ temps' = temps \ {w}
    /\ stored' = IF write[w] = "writing" THEN intended[w] ELSE Withdrawn(w)
    /\ write' = [write EXCEPT ![w] = IF @ = "writing" THEN "recheck" ELSE "restored"]
    /\ Disturb({w})
    /\ UNCHANGED <<exists, content, mode, importing, intended, before, prior, edits>>

\* The second snapshot shows the pack of the first one under its checksum.
Verified(w) ==
    exists /\ Checksum = intended[w] /\ stored = intended[w] /\ Manifest = before[w]

\* A snapshot during which something changes may also end in SnapshotError.
Recheck(w) ==
    /\ write[w] = "recheck"
    /\ \/ Verified(w) /\ write' = [write EXCEPT ![w] = "returned"]
       \/ /\ ~Verified(w) \/ disturbed[w] = "late"
          /\ write' = [write EXCEPT ![w] = "restore"]
    /\ UNCHANGED <<dir, importing, intended, before, prior, edits, disturbed>>

\* Without a prior artifact the new one is unlinked.
Unlink(w) ==
    /\ write[w] = "restore"
    /\ prior[w] = Absent
    /\ stored' = Absent
    /\ write' = [write EXCEPT ![w] = "restored"]
    /\ Disturb({w})
    /\ UNCHANGED <<exists, content, mode, temps, importing, intended, before, prior, edits>>

\* The locals of a call that has ended.
Forget(w) ==
    /\ intended' = [intended EXCEPT ![w] = Absent]
    /\ before' = [before EXCEPT ![w] = Absent]
    /\ prior' = [prior EXCEPT ![w] = Absent]

Active == {"prior", "write", "writing", "recheck", "restore", "restoring"}

\* Any other exception, of the second snapshot or of the restore too, leaves
\* the artifact as it is; _atomic_write removes its temporary file.
WriteRaises(w) ==
    /\ write[w] \in Active
    /\ temps' = temps \ {w}
    /\ write' = [write EXCEPT ![w] = "raised"]
    /\ Forget(w)
    /\ IF w \in temps THEN Disturb({w}) ELSE UNCHANGED disturbed
    /\ UNCHANGED <<exists, content, mode, stored, importing, edits>>

\* The process dies, and its temporary file stays.
WriterDies(w) ==
    /\ write[w] \in Active
    /\ write' = [write EXCEPT ![w] = "dead"]
    /\ Forget(w)
    /\ UNCHANGED <<dir, importing, edits, disturbed>>

-----------------------------------------------------------------------------

Step ==
    \/ \E i \in Importers : Stage(i) \/ Claim(i) \/ Move(i) \/ ImportFails(i)
                            \/ MoveFails(i) \/ Interrupted(i)
    \/ Edit
    \/ \E w \in Writers : Begin(w) \/ ReadPrior(w) \/ CreateTemp(w) \/ Replace(w)
                          \/ Recheck(w) \/ Unlink(w) \/ WriteRaises(w) \/ WriterDies(w)

\* Nobody has anything left to do.
Stopped ==
    /\ \A i \in Importers : import[i] \in {"done", "failed", "interrupted", "left"}
    /\ \A w \in Writers : write[w] \notin Active
    /\ UNCHANGED vars

Next == Step \/ Stopped

Spec == Init /\ [][Next]_vars

-----------------------------------------------------------------------------

Contents == [Files -> Importers \cup Edits \cup {Absent}]
Sums == [content : Contents, temps : SUBSET Writers]
Manifests == [content : Contents, temps : SUBSET Writers, mode : 0..1]

TypeOK ==
    /\ exists \in BOOLEAN
    /\ content \in Contents
    /\ mode \in 0..1
    /\ temps \subseteq Writers
    /\ stored \in Sums \cup {Absent}
    /\ import \in [Importers ->
         {"start", "staged", "moving", "done", "failed", "interrupted", "left"}]
    /\ moved \in [Importers -> 0..3]
    /\ write \in [Writers -> Active \cup {"idle", "returned", "restored", "raised", "dead"}]
    /\ intended \in [Writers -> Sums \cup {Absent}]
    /\ before \in [Writers -> Manifests \cup {Absent}]
    /\ prior \in [Writers -> Sums \cup {Absent}]
    /\ edits \in 0..MaxEdits
    /\ disturbed \in [Writers -> {"no", "early", "late"}]

\* "Publication is no-overwrite": whatever importers race for the output and
\* fail on the way, an output that is there holds one import's files and
\* nobody else's, all of them once that import has returned; an import that failed
\* leaves no part of a pack, unless it was interrupted between two renames or the
\* removal failed as well.
OutputIsOneImport ==
    LET owners == {i \in Importers : import[i] \in {"moving", "done", "interrupted", "left"}}
    IN  /\ exists <=> owners # {}
        /\ \A i \in owners : \A f \in Files :
             /\ content[f] \in {i, Absent} \cup Edits
             /\ import[i] = "done" => content[f] # Absent

\* A writer that nobody disturbs is not disturbed by itself, neither by its
\* temporary file nor by the artifact it replaces: it never withdraws its
\* checksum, and once it has returned the pack matches it.
QuietWriteSticks ==
    \A w \in Writers :
        disturbed[w] = "no" =>
            /\ write[w] \notin {"restore", "restoring", "restored"}
            /\ write[w] = "returned" => stored = Checksum

=============================================================================
