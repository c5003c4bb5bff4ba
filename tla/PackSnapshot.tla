---------------------------- MODULE PackSnapshot ----------------------------
(***************************************************************************)
(* snapshot_pack in arena/benchmark/snapshot.py: a source pack is copied   *)
(* while anything else on the machine may change it.  The code walks the   *)
(* source three times, never atomically: to record the identity of every   *)
(* entry, to copy, and to record the identities again.  Equal records seal *)
(* the copy, and the seal is verified once more when the caller is done.   *)
(*                                                                         *)
(* The identity of an entry (_identity: type, device, inode, size, mtime,  *)
(* links) is a stamp that a change renews.  Directories stay where they    *)
(* are; files come, go, change, grow and shrink under them, as often as    *)
(* they like.  A file is the sequence of the chunks os.read returns.  The  *)
(* time an operation takes is the steps the source takes in between.       *)
(***************************************************************************)
EXTENDS Naturals, FiniteSets, Sequences

CONSTANTS
    Files, Dirs, Root,
    Home,         \* the directory of a file
    Parent,       \* the directory of a directory other than Root
    Values,       \* contents of a chunk
    Contents,     \* contents of a file
    MaxChunks,    \* limits.PACK_FILE_BYTES, in chunks
    MaxFiles,     \* limits.SNAPSHOT_MAX_FILES
    OneDrift,     \* bound: the snapshot's own tree is written to once at most
    CoarseClock,  \* whether two writes may leave the same modification time
    Absent, Link, Unread, NoFile

ASSUME SnapshotAssumption ==
    /\ Root \in Dirs
    /\ Home \in [Files -> Dirs]
    /\ Parent \in [Dirs \ {Root} -> Dirs]
    /\ MaxFiles \in Nat
    /\ MaxChunks \in Nat
    /\ CoarseClock \in BOOLEAN /\ OneDrift \in BOOLEAN
    /\ Absent \notin Nat /\ Unread \notin Nat /\ Absent # Unread
    /\ NoFile \notin Files
    /\ Files \cap Dirs = {}

\* A pack has finitely many files.
ASSUME FinitePack == IsFiniteSet(Files)

\* An entry that is a symlink (or a device, a socket...) has no content to copy.
ASSUME ContentsAssumption ==
    /\ Contents \subseteq Seq(Values)
    /\ Absent \notin Seq(Values) /\ Link \notin Seq(Values) /\ Absent # Link

\* The walks have two identities of an entry on record at most, so three tell a
\* changed entry from the ones on record however often it changes.
Stamps == 0..2

VARIABLES
    source,    \* the pack: what every file is
    stamp,     \* the identity of every entry
    changed,   \* the source has changed
    phase,     \* the step of snapshot_pack
    seen,      \* identities found by the walk under way
    opened,    \* directories the walk has opened
    before,    \* identity_before
    current,   \* the file being copied
    manifest,  \* what was read of every file: manifest_list
    dest,      \* the files of the snapshot
    checksum,  \* pack_checksum of the snapshot when it was sealed
    drifted,   \* something else wrote to the snapshot
    instant    \* history: the source as it was when identity_before was complete

vars == <<source, stamp, changed, phase, seen, opened, before, current,
          manifest, dest, checksum, drifted, instant>>

Entries == Files \cup Dirs
Nothing == [f \in Files |-> Absent]

\* The walk of _source_identity starts from the root_info of snapshot_pack.
Init ==
    /\ source \in [Files -> Contents \cup {Absent, Link}]
    /\ stamp = [e \in Entries |-> 0]
    /\ changed = FALSE
    /\ phase = "identify"
    /\ seen = [e \in Entries |-> IF e = Root THEN 0 ELSE Unread]
    /\ opened = {}
    /\ before = [e \in Entries |-> Unread]
    /\ current = NoFile
    /\ manifest = Nothing
    /\ dest = Nothing
    /\ checksum = Nothing
    /\ drifted = FALSE
    /\ instant = Nothing

-----------------------------------------------------------------------------
(* The rest of the machine. *)

Walking == phase \in {"identify", "copy", "recheck"}

\* An identity that the entry did not have when a walk met it.
Fresh(e) == CHOOSE n \in Stamps : n # seen[e] /\ n # before[e]

\* A file is written to in place, and may grow or shrink; with a coarse clock
\* its new modification time may be the one it had, but its size tells.
\* (Nobody looks at the source after the last walk.)
Write(f, x) ==
    /\ Walking
    /\ source[f] \in Contents
    /\ source' = [source EXCEPT ![f] = x]
    /\ \/ stamp' = [stamp EXCEPT ![f] = Fresh(f)]
       \/ CoarseClock /\ Len(x) = Len(source[f]) /\ UNCHANGED stamp
    /\ changed' = TRUE
    /\ UNCHANGED <<phase, seen, opened, before, current, manifest, dest, checksum, drifted, instant>>

\* A file is created, replaced or removed, which its directory shows too.
Replace(f, x) ==
    /\ Walking
    /\ source[f] # Absent \/ x # Absent
    /\ source' = [source EXCEPT ![f] = x]
    /\ stamp' = [stamp EXCEPT ![f] = Fresh(f), ![Home[f]] = Fresh(Home[f])]
    /\ changed' = TRUE
    /\ UNCHANGED <<phase, seen, opened, before, current, manifest, dest, checksum, drifted, instant>>

\* A change of the snapshot's own tree, which is in a temporary directory.
Drift(f, x) ==
    /\ phase \in {"copy", "recheck", "sealed"}
    /\ dest' = [dest EXCEPT ![f] = x]
    /\ dest' # dest
    /\ OneDrift => ~drifted
    /\ drifted' = TRUE
    /\ UNCHANGED <<source, stamp, changed, phase, seen, opened, before, current,
                   manifest, checksum, instant>>

-----------------------------------------------------------------------------
(* The walk. *)

\* SnapshotError (or an OSError) leaves snapshot_pack, which removes the tree and
\* returns nothing of what it recorded.
Reject ==
    /\ phase' = "rejected"
    /\ seen' = [e \in Entries |-> Unread]
    /\ opened' = {}
    /\ before' = [e \in Entries |-> Unread]
    /\ current' = NoFile
    /\ manifest' = Nothing
    /\ dest' = Nothing
    /\ checksum' = Nothing
    /\ instant' = Nothing
    /\ UNCHANGED <<source, stamp, changed, drifted>>

\* _walk_fd lists a directory to its end before it visits the entries, one
\* after the other.  (Their order is left open; the code sorts them.)
Visiting ==
    /\ Walking
    /\ current = NoFile
    /\ \A f \in Files : Home[f] \in opened => seen[f] # Unread
    /\ \A d \in Dirs \ {Root} : Parent[d] \in opened => seen[d] # Unread

\* A directory is opened and must still be what its parent's listing said.
OpenDir(d) ==
    /\ Visiting
    /\ d \notin opened
    /\ seen[d] # Unread
    /\ \/ /\ stamp[d] # seen[d]
          /\ Reject
       \/ /\ stamp[d] = seen[d]
          /\ opened' = opened \cup {d}
          /\ UNCHANGED <<source, stamp, changed, phase, seen, before, current, manifest,
                         dest, checksum, drifted, instant>>

\* _enumerate stats the entries of an opened directory one by one.
ListDir(d) ==
    /\ Walking
    /\ d # Root
    /\ seen[d] = Unread
    /\ Parent[d] \in opened
    /\ seen' = [seen EXCEPT ![d] = stamp[d]]
    /\ UNCHANGED <<source, stamp, changed, phase, opened, before, current, manifest,
                   dest, checksum, drifted, instant>>

\* Mutant of FileCount: off by one.
FileCountPlusOne == Cardinality({f \in Files : seen[f] \notin {Unread, Absent}}) + 1

\* state.file_count
FileCount == Cardinality({f \in Files : seen[f] \notin {Unread, Absent}})

\* A file that is not there is not listed; _classify refuses what is not a
\* regular file and one file too many.
ListFile(f) ==
    /\ Walking
    /\ seen[f] = Unread
    /\ Home[f] \in opened
    /\ \/ /\ source[f] = Absent
          /\ seen' = [seen EXCEPT ![f] = Absent]
          /\ UNCHANGED <<source, stamp, changed, phase, opened, before, current,
                         manifest, dest, checksum, drifted, instant>>
       \/ /\ source[f] \in Contents
          /\ FileCount < MaxFiles
          /\ seen' = [seen EXCEPT ![f] = stamp[f]]
          /\ UNCHANGED <<source, stamp, changed, phase, opened, before, current,
                         manifest, dest, checksum, drifted, instant>>
       \/ /\ source[f] # Absent
          /\ source[f] = Link \/ FileCount >= MaxFiles
          /\ Reject

\* _copy_one_file: the descriptor must be the file that was listed, and the
\* copy a new file (O_EXCL).
OpenFile(f) ==
    /\ Visiting
    /\ phase = "copy"
    /\ seen[f] \notin {Unread, Absent}
    /\ manifest[f] = Absent
    /\ \/ /\ stamp[f] # seen[f] \/ dest[f] # Absent
          /\ Reject
       \/ /\ stamp[f] = seen[f] /\ dest[f] = Absent
          /\ current' = f
          /\ manifest' = [manifest EXCEPT ![f] = <<>>]
          /\ UNCHANGED <<source, stamp, changed, phase, seen, opened, before, dest,
                         checksum, drifted, instant>>

\* os.read: what a file that has changed since it was listed gives is not told,
\* and it may go on and on, up to the limit.
ReadChunk ==
    /\ current # NoFile
    /\ \E v \in Values :
        /\ stamp[current] = seen[current] =>
             /\ Len(manifest[current]) < Len(source[current])
             /\ v = source[current][Len(manifest[current]) + 1]
        /\ \/ /\ Len(manifest[current]) >= MaxChunks
              /\ Reject
           \/ /\ Len(manifest[current]) < MaxChunks
              /\ manifest' = [manifest EXCEPT ![current] = Append(@, v)]
              /\ UNCHANGED <<source, stamp, changed, phase, seen, opened, before, current,
                             dest, checksum, drifted, instant>>

\* os.read returns nothing: the file is read to its end.
AtEnd ==
    /\ current # NoFile
    /\ stamp[current] = seen[current] => Len(manifest[current]) = Len(source[current])

\* Mutant of CloseFile: a file that changed while it was read is read again.
RereadFile ==
    /\ AtEnd
    /\ \/ /\ dest[current] # Absent \/ source[current] \notin Contents
          /\ Reject
       \/ /\ stamp[current] # seen[current] /\ source[current] \in Contents
          /\ seen' = [seen EXCEPT ![current] = stamp[current]]
          /\ manifest' = [manifest EXCEPT ![current] = <<>>]
          /\ UNCHANGED <<source, stamp, changed, phase, opened, before, current, dest,
                         checksum, drifted, instant>>
       \/ /\ stamp[current] = seen[current] /\ dest[current] = Absent
          /\ dest' = [dest EXCEPT ![current] = manifest[current]]
          /\ current' = NoFile
          /\ UNCHANGED <<source, stamp, changed, phase, seen, opened, before, manifest,
                         checksum, drifted, instant>>

\* The descriptor is compared once more and the written copy read back.
CloseFile ==
    /\ AtEnd
    /\ \/ /\ stamp[current] # seen[current] \/ dest[current] # Absent
          /\ Reject
       \/ /\ stamp[current] = seen[current] /\ dest[current] = Absent
          /\ dest' = [dest EXCEPT ![current] = manifest[current]]
          /\ current' = NoFile
          /\ UNCHANGED <<source, stamp, changed, phase, seen, opened, before, manifest,
                         checksum, drifted, instant>>

WalkIsOver == opened = Dirs /\ \A e \in Entries : seen[e] # Unread

NextWalk(root_info) == [e \in Entries |-> IF e = Root THEN root_info ELSE Unread]

\* identity_before is complete.
StartCopy ==
    /\ phase = "identify"
    /\ WalkIsOver
    /\ before' = seen
    /\ instant' = source
    /\ phase' = "copy"
    /\ seen' = NextWalk(before'[Root])
    /\ opened' = {}
    /\ UNCHANGED <<source, stamp, changed, current, manifest, dest, checksum, drifted>>

\* _assert_source_unchanged starts with an lstat of its own.
StartRecheck ==
    /\ phase = "copy"
    /\ WalkIsOver
    /\ current = NoFile
    /\ \A f \in Files : seen[f] # Absent => manifest[f] # Absent
    /\ phase' = "recheck"
    /\ seen' = NextWalk(stamp[Root])
    /\ opened' = {}
    /\ UNCHANGED <<source, stamp, changed, before, current, manifest, dest, checksum,
                   drifted, instant>>

\* Mutant of SourceUnchanged: only the files are compared, not the directories.
FilesUnchanged == \A f \in Files : seen[f] = before[f]

\* Every file and every directory, names and identities.
SourceUnchanged == seen = before

\* The seal: the manifest from the copy, the checksum from the snapshot's tree.
\* (The checksum leaves out the root pack.sha256, which is no file of the model.)
Seal ==
    /\ phase = "recheck"
    /\ WalkIsOver
    /\ \/ /\ ~SourceUnchanged
          /\ Reject
       \/ /\ SourceUnchanged
          /\ phase' = "sealed"
          /\ checksum' = dest
          /\ UNCHANGED <<source, stamp, changed, seen, opened, before, current, manifest,
                         dest, drifted, instant>>

\* Mutant of SealHolds: the content is compared, the manifest is not.
ChecksumHolds == dest = checksum

\* verify: the tree is rebuilt and compared with the manifest and the checksum.
SealHolds == dest = manifest /\ dest = checksum

\* The with-block ends normally: verify, then the tree is removed.
Exit ==
    /\ phase = "sealed"
    /\ \/ /\ ~SealHolds
          /\ Reject
       \/ /\ SealHolds
          /\ phase' = "done"
          /\ dest' = Nothing
          /\ UNCHANGED <<source, stamp, changed, seen, opened, before, current, manifest,
                         checksum, drifted, instant>>

\* The with-block raises: nothing is verified, and the tree is removed.
CallerRaises ==
    /\ phase = "sealed"
    /\ phase' = "raised"
    /\ dest' = Nothing
    /\ UNCHANGED <<source, stamp, changed, seen, opened, before, current, manifest,
                   checksum, drifted, instant>>

-----------------------------------------------------------------------------

Left == phase \in {"done", "raised", "rejected"}

Change ==
    \/ \E f \in Files, x \in Contents : Write(f, x)
    \/ \E f \in Files, x \in Contents \cup {Absent, Link} : Replace(f, x)
    \/ \E f \in Files, x \in Contents \cup {Absent} : Drift(f, x)

Snapshot ==
    \/ \E d \in Dirs : OpenDir(d) \/ ListDir(d)
    \/ \E f \in Files : ListFile(f) \/ OpenFile(f)
    \/ ReadChunk \/ CloseFile \/ StartCopy \/ StartRecheck \/ Seal \/ Exit \/ CallerRaises

Ended == Left /\ UNCHANGED vars

Next == Change \/ Snapshot \/ Ended

\* The walk never waits for anybody.
Spec == Init /\ [][Next]_vars /\ WF_vars(Snapshot)

-----------------------------------------------------------------------------

Identities == Stamps \cup {Unread, Absent}

TypeOK ==
    /\ source \in [Files -> Contents \cup {Absent, Link}]
    /\ stamp \in [Entries -> Stamps]
    /\ changed \in BOOLEAN
    /\ phase \in {"identify", "copy", "recheck", "sealed", "done", "raised",
                  "rejected"}
    /\ seen \in [Entries -> Identities]
    /\ opened \subseteq Dirs
    /\ before \in [Entries -> Identities]
    /\ current \in Files \cup {NoFile}
    /\ manifest \in [Files -> Seq(Values) \cup {Absent}]
    /\ dest \in [Files -> Seq(Values) \cup {Absent}]
    /\ checksum \in [Files -> Seq(Values) \cup {Absent}]
    /\ drifted \in BOOLEAN
    /\ instant \in [Files -> Contents \cup {Absent, Link}]

\* A sealed snapshot is the source as it was at one instant, although no walk
\* is atomic and no walk holds the source still: two records of identities
\* that agree enclose an instant, and everything copied lies between them.
SnapshotIsOneInstant ==
    phase \in {"sealed", "done", "raised"} => manifest = instant

\* A caller that leaves normally got the checksum of the source as it was at one
\* instant, although the checksum is taken of the snapshot's tree, which others
\* may write to while it is filled and sealed.
ChecksumIsOfTheSource ==
    phase = "done" => checksum = instant

\* A pack nobody touches, of regular files and within the limits on their number
\* and size, is accepted: the three walks never disagree by themselves.
QuietPackIsAccepted ==
    phase = "rejected" =>
        \/ changed
        \/ drifted
        \/ \E f \in Files : source[f] = Link
        \/ \E f \in Files : source[f] \in Contents /\ Len(source[f]) > MaxChunks
        \/ Cardinality({f \in Files : source[f] # Absent}) > MaxFiles

\* The steps snapshot_pack has before it at most: entries to list, directories to
\* open, files to copy with their chunks, and the walks to come.
StepsLeft ==
    LET walk == Cardinality(Entries) + Cardinality(Dirs)
        file == MaxChunks + 2
        toWalk == Cardinality({e \in Entries : seen[e] = Unread}) + Cardinality(Dirs \ opened)
        toCopy == file * Cardinality({f \in Files : manifest[f] = Absent})
                    + IF current = NoFile THEN 0 ELSE file - 1 - Len(manifest[current])
    IN  CASE phase = "identify" -> toWalk + 2 * walk + file * Cardinality(Files) + 2
          [] phase = "copy" -> toWalk + toCopy + walk + 2
          [] phase = "recheck" -> toWalk + 2
          [] phase = "sealed" -> 1
          [] OTHER -> 0

\* What only snapshot_pack writes.
progress == <<phase, seen, opened, current, manifest>>

\* The walks come to an end even if the files never stop changing, and one that
\* is being read never stops growing: whatever snapshot_pack does leaves it fewer
\* steps to take (a change of the source adds none), and until it has left it can
\* take one.
SnapshotEnds ==
    /\ [](Left \/ ENABLED Snapshot)
    /\ [][UNCHANGED progress \/ StepsLeft' < StepsLeft]_vars

=============================================================================
