------------------------- MODULE PackSnapshotProofs -------------------------
(***************************************************************************)
(* A sealed snapshot is the source at one instant, for every set of files, *)
(* every tree of directories and any number of changes, provided that a    *)
(* change renews the identity of what it changes (~CoarseClock).           *)
(***************************************************************************)
EXTENDS PackSnapshot, FiniteSetTheorems, TLAPS

\* An entry that still has the identity of identity_before had it when the
\* walk under way met it.
SeenInv ==
    phase \in {"copy", "recheck"} =>
        \A e \in Entries : seen[e] \in Stamps /\ stamp[e] = before[e] => seen[e] = stamp[e]

\* What the walk under way knows: a listed file whose identity still holds is
\* a regular file, and one that was not listed is still absent if its
\* directory has the identity under which the walk opened it.
WalkInv ==
    /\ \A d \in Dirs : seen[d] # Absent /\ (d \in opened => seen[d] # Unread)
    /\ \A f \in Files :
        /\ seen[f] # Unread => Home[f] \in opened
        /\ seen[f] \in Stamps /\ stamp[f] = seen[f] => source[f] \in Contents
        /\ seen[f] = Absent /\ stamp[Home[f]] = seen[Home[f]] => source[f] = Absent

\* What identity_before knows about the instant at which it was complete.
BeforeInv ==
    phase \in {"copy", "recheck"} =>
        /\ \A d \in Dirs : before[d] \in Stamps
        /\ \A f \in Files :
            /\ before[f] # Unread
            /\ before[f] \in Stamps /\ stamp[f] = before[f] =>
                 source[f] = instant[f] /\ source[f] \in Contents
            /\ before[f] = Absent /\ stamp[Home[f]] = before[Home[f]] =>
                 source[f] = Absent /\ instant[f] = Absent

\* What was copied of a file that has not changed since it was identified: its
\* beginning, and all of it once the file is closed.
CopyInv ==
    /\ phase # "copy" => current = NoFile
    /\ current # NoFile => manifest[current] # Absent /\ seen[current] \in Stamps
    /\ phase = "identify" => manifest = Nothing
    /\ phase \in {"copy", "recheck"} =>
        \A f \in Files :
            /\ before[f] \in Stamps /\ stamp[f] = before[f] /\ manifest[f] # Absent =>
                 /\ \A i \in 1..Len(manifest[f]) : manifest[f][i] = instant[f][i]
                 /\ f # current => Len(manifest[f]) = Len(instant[f])
            /\ before[f] = Absent /\ stamp[Home[f]] = before[Home[f]] => manifest[f] = Absent

\* An unchanged file is never missed by the walk that copies.
NoneMissed ==
    \A f \in Files : before[f] \in Stamps /\ stamp[f] = before[f] =>
        /\ phase = "copy" => seen[f] # Absent
        /\ phase = "recheck" => manifest[f] # Absent

\* What the last walk has settled for good, one entry at a time.
RecheckInv ==
    phase = "recheck" =>
        /\ \A f \in Files : seen[f] \in Stamps /\ seen[f] = before[f] => manifest[f] = instant[f]
        /\ \A f \in Files :
              before[f] = Absent /\ seen[Home[f]] = before[Home[f]] =>
                  manifest[f] = Absent /\ instant[f] = Absent

IInv ==
    /\ TypeOK /\ SeenInv /\ WalkInv /\ BeforeInv /\ CopyInv /\ NoneMissed
    /\ RecheckInv /\ SnapshotIsOneInstant

-----------------------------------------------------------------------------

LEMMA StampFact == Absent \notin Stamps /\ Unread \notin Stamps /\ 0 \in Stamps
  BY SnapshotAssumption DEF Stamps

\* A change gives an entry an identity that no walk has on record.
LEMMA FreshFact ==
    ASSUME NEW e PROVE Fresh(e) \in Stamps /\ Fresh(e) # seen[e] /\ Fresh(e) # before[e]
  <1>1. \E n \in Stamps : n # seen[e] /\ n # before[e]
    <2>1. 0 \in Stamps /\ 1 \in Stamps /\ 2 \in Stamps
        BY DEF Stamps
    <2> QED
        BY <2>1
  <1> QED
      BY <1>1 DEF Fresh

\* A file of which nothing is read yet.
LEMMA EmptyCopy ==
    ASSUME NEW m \in [Files -> Seq(Values) \cup {Absent}], NEW f \in Files
    PROVE  [m EXCEPT ![f] = <<>>] \in [Files -> Seq(Values) \cup {Absent}]
  <1>1. <<>> \in Seq(Values) \cup {Absent}
      OBVIOUS
  <1> DEFINE e == <<>>
  <1>2. e \in Seq(Values) \cup {Absent}
      BY <1>1
  <1> HIDE DEF e
  <1>3. [m EXCEPT ![f] = e] \in [Files -> Seq(Values) \cup {Absent}]
      BY <1>2
  <1> QED
      BY <1>3 DEF e

\* Sequences that agree in length and in every place are the same.
LEMMA SameSequence ==
    ASSUME NEW s \in Seq(Values), NEW t \in Seq(Values), Len(s) = Len(t),
           \A i \in 1..Len(s) : s[i] = t[i]
    PROVE  s = t
  <1>1. s = [i \in 1..Len(s) |-> s[i]] /\ t = [i \in 1..Len(t) |-> t[i]]
      OBVIOUS
  <1> QED
      BY <1>1

LEMMA InitIInv == Init => IInv
  <1> SUFFICES ASSUME Init PROVE IInv
      OBVIOUS
  <1> USE SnapshotAssumption, ContentsAssumption, StampFact DEF Init, Nothing, Entries
  <1>1. TypeOK
      BY DEF TypeOK, Identities
  <1>2. SeenInv /\ WalkInv
      BY DEF SeenInv, WalkInv
  <1>3. BeforeInv /\ CopyInv /\ NoneMissed /\ RecheckInv /\ SnapshotIsOneInstant
      BY DEF BeforeInv, CopyInv, NoneMissed, RecheckInv, SnapshotIsOneInstant
  <1> QED
      BY <1>1, <1>2, <1>3 DEF IInv

\* A rejected walk leaves nothing that the invariant speaks about.
LEMMA RejectIInv == ASSUME IInv, Reject PROVE IInv'
  <1> USE SnapshotAssumption, ContentsAssumption, StampFact DEF Reject, Nothing, Entries
  <1>1. TypeOK'
      BY DEF IInv, TypeOK, Identities
  <1>2. SeenInv' /\ WalkInv'
      BY DEF IInv, SeenInv, WalkInv
  <1>3. BeforeInv' /\ CopyInv' /\ NoneMissed' /\ RecheckInv' /\ SnapshotIsOneInstant'
      BY DEF IInv, BeforeInv, CopyInv, NoneMissed, RecheckInv, SnapshotIsOneInstant
  <1> QED
      BY <1>1, <1>2, <1>3 DEF IInv

\* A write renews the identity of the file.
LEMMA WriteIInv ==
    ASSUME IInv, ~CoarseClock, NEW f \in Files, NEW x \in Contents, Write(f, x)
    PROVE  IInv'
  <1> USE SnapshotAssumption, ContentsAssumption, StampFact DEF Entries
  <1>0. UNCHANGED <<phase, seen, opened, before, current, manifest, dest, checksum,
                    drifted, instant>>
      BY DEF Write
  <1>a. /\ source[f] \in Contents /\ source'[f] \in Contents
        /\ \A g \in Files : g # f => source'[g] = source[g]
      BY DEF Write, IInv, TypeOK
  <1>b. stamp' = [stamp EXCEPT ![f] = Fresh(f)]
      BY DEF Write
  <1>c. /\ stamp'[f] = Fresh(f)
        /\ \A e \in Entries : e # f => stamp'[e] = stamp[e]
        /\ \A g \in Files : stamp'[Home[g]] = stamp[Home[g]]
      BY <1>b DEF IInv, TypeOK
  <1>d. stamp'[f] \in Stamps /\ stamp'[f] # seen[f] /\ stamp'[f] # before[f]
      BY <1>c, FreshFact
  <1>1. TypeOK'
      BY <1>0, <1>a, <1>b, FreshFact DEF Write, IInv, TypeOK
  <1>2. SeenInv'
      BY <1>0, <1>c, <1>d DEF IInv, SeenInv
  <1>3. WalkInv'
      BY <1>0, <1>a, <1>c, <1>d DEF IInv, WalkInv
  <1>4. BeforeInv'
      BY <1>0, <1>a, <1>c, <1>d DEF IInv, BeforeInv
  <1>5. CopyInv'
      BY <1>0, <1>c, <1>d DEF IInv, CopyInv
  <1>6. NoneMissed'
      BY <1>0, <1>c, <1>d DEF IInv, NoneMissed
  <1>7. RecheckInv' /\ SnapshotIsOneInstant'
      BY <1>0 DEF IInv, RecheckInv, SnapshotIsOneInstant
  <1> QED
      BY <1>1, <1>2, <1>3, <1>4, <1>5, <1>6, <1>7 DEF IInv

\* So does a replacement, which renews the identity of the directory as well.
LEMMA ReplaceIInv ==
    ASSUME IInv, NEW f \in Files, NEW x \in Contents \cup {Absent, Link}, Replace(f, x)
    PROVE  IInv'
  <1> USE SnapshotAssumption, ContentsAssumption, StampFact DEF Entries
  <1>0. UNCHANGED <<phase, seen, opened, before, current, manifest, dest, checksum,
                    drifted, instant>>
      BY DEF Replace
  <1>a. source'[f] = x /\ \A g \in Files : g # f => source'[g] = source[g]
      BY DEF Replace, IInv, TypeOK
  <1>b. stamp' = [stamp EXCEPT ![f] = Fresh(f), ![Home[f]] = Fresh(Home[f])]
      BY DEF Replace
  <1>c. /\ stamp'[f] = Fresh(f) /\ stamp'[Home[f]] = Fresh(Home[f])
        /\ \A e \in Entries : e # f /\ e # Home[f] => stamp'[e] = stamp[e]
      BY <1>b DEF IInv, TypeOK
  <1>d. \A e \in {f, Home[f]} : stamp'[e] # seen[e] /\ stamp'[e] # before[e]
      BY <1>c, FreshFact
  <1>e. \A g \in Files : g # f => g # Home[f] /\ stamp'[g] = stamp[g]
      BY <1>c
  <1>f. \A g \in Files : Home[g] # f /\ (Home[g] # Home[f] => stamp'[Home[g]] = stamp[Home[g]])
      BY <1>c
  <1>1. TypeOK'
    <2>1. source' \in [Files -> Contents \cup {Absent, Link}]
        BY DEF Replace, IInv, TypeOK
    <2>2. stamp' \in [Entries -> Stamps]
      <3>1. Fresh(f) \in Stamps /\ Fresh(Home[f]) \in Stamps
          BY FreshFact
      <3> QED
          BY <1>b, <3>1 DEF IInv, TypeOK
    <2>3. changed' \in BOOLEAN
        BY DEF Replace
    <2> QED
        BY <1>0, <2>1, <2>2, <2>3 DEF IInv, TypeOK
  <1>2. SeenInv'
      BY <1>0, <1>c, <1>d DEF IInv, SeenInv
  <1>3. WalkInv'
      BY <1>0, <1>a, <1>d, <1>e, <1>f DEF IInv, WalkInv
  <1>4. BeforeInv'
      BY <1>0, <1>a, <1>d, <1>e, <1>f DEF IInv, BeforeInv
  <1>5. CopyInv'
      BY <1>0, <1>d, <1>e, <1>f DEF IInv, CopyInv
  <1>6. NoneMissed'
      BY <1>0, <1>d, <1>e DEF IInv, NoneMissed
  <1>7. RecheckInv' /\ SnapshotIsOneInstant'
      BY <1>0 DEF IInv, RecheckInv, SnapshotIsOneInstant
  <1> QED
      BY <1>1, <1>2, <1>3, <1>4, <1>5, <1>6, <1>7 DEF IInv

LEMMA DriftIInv ==
    ASSUME IInv, NEW f \in Files, NEW x \in Contents \cup {Absent}, Drift(f, x)
    PROVE  IInv'
  <1> USE SnapshotAssumption, ContentsAssumption, StampFact DEF Drift, Entries
  <1>1. TypeOK'
      BY DEF IInv, TypeOK
  <1>2. SeenInv' /\ WalkInv' /\ BeforeInv'
      BY DEF IInv, SeenInv, WalkInv, BeforeInv
  <1>3. CopyInv' /\ NoneMissed' /\ RecheckInv' /\ SnapshotIsOneInstant'
      BY DEF IInv, CopyInv, NoneMissed, RecheckInv, SnapshotIsOneInstant
  <1> QED
      BY <1>1, <1>2, <1>3 DEF IInv

LEMMA OpenDirIInv == ASSUME IInv, NEW d \in Dirs, OpenDir(d) PROVE IInv'
  <1>1. CASE Reject
      BY <1>1, RejectIInv
  <1>2. CASE ~Reject
    <2> USE SnapshotAssumption, <1>2 DEF OpenDir, Entries
    <2>1. TypeOK'
        BY DEF IInv, TypeOK
    <2>2. SeenInv' /\ WalkInv'
        BY DEF IInv, TypeOK, SeenInv, WalkInv
    <2>3. BeforeInv' /\ CopyInv'
        BY DEF IInv, BeforeInv, CopyInv
    <2>4. NoneMissed' /\ RecheckInv' /\ SnapshotIsOneInstant'
        BY DEF IInv, NoneMissed, RecheckInv, SnapshotIsOneInstant
    <2> QED
        BY <2>1, <2>2, <2>3, <2>4 DEF IInv
  <1> QED
      BY <1>1, <1>2

\* In the last walk a directory with its old identity settles the files that
\* were absent from it.
LEMMA ListDirIInv == ASSUME IInv, NEW d \in Dirs, ListDir(d) PROVE IInv'
  <1> USE SnapshotAssumption, ContentsAssumption, StampFact DEF ListDir, Entries
  <1>1. TypeOK'
      BY DEF IInv, TypeOK, Identities
  <1>2. SeenInv'
      BY DEF IInv, TypeOK, SeenInv
  <1>3. WalkInv'
      BY DEF IInv, TypeOK, WalkInv
  <1>4. BeforeInv' /\ CopyInv'
      BY DEF IInv, BeforeInv, CopyInv
  <1>5. NoneMissed' /\ SnapshotIsOneInstant'
      BY DEF IInv, TypeOK, NoneMissed, SnapshotIsOneInstant
  <1>6. RecheckInv'
      BY DEF IInv, TypeOK, BeforeInv, CopyInv, RecheckInv
  <1> QED
      BY <1>1, <1>2, <1>3, <1>4, <1>5, <1>6 DEF IInv

\* A file that is listed present and unchanged was copied; one that is listed
\* absent has changed if it was there at first.
LEMMA ListFileIInv == ASSUME IInv, NEW f \in Files, ListFile(f) PROVE IInv'
  <1>1. CASE Reject
      BY <1>1, RejectIInv
  <1>2. CASE ~Reject
    <2> USE SnapshotAssumption, ContentsAssumption, StampFact DEF Entries
    <2>0. /\ Walking /\ seen[f] = Unread /\ Home[f] \in opened
          /\ \/ source[f] = Absent /\ seen' = [seen EXCEPT ![f] = Absent]
             \/ source[f] \in Contents /\ seen' = [seen EXCEPT ![f] = stamp[f]]
          /\ UNCHANGED <<source, stamp, changed, phase, opened, before, current,
                         manifest, dest, checksum, drifted, instant>>
        BY <1>2 DEF ListFile
    <2>a. /\ seen'[f] \in {Absent, stamp[f]}
          /\ \A e \in Entries : e # f => seen'[e] = seen[e]
        BY <2>0 DEF IInv, TypeOK
    <2>b. current # f
        BY <2>0 DEF IInv, CopyInv
    <2>1. TypeOK'
      <3>1. seen' \in [Entries -> Identities]
          BY <2>0 DEF IInv, TypeOK, Identities
      <3> QED
          BY <2>0, <3>1 DEF IInv, TypeOK
    <2>2. SeenInv'
        BY <2>0, <2>a DEF IInv, SeenInv
    <2>3. WalkInv'
        BY <2>0 DEF IInv, TypeOK, WalkInv
    <2>4. BeforeInv' /\ CopyInv'
      <3>1. BeforeInv'
          BY <2>0 DEF IInv, BeforeInv
      <3>2. current # NoFile => seen'[current] = seen[current]
          BY <2>a, <2>b DEF IInv, TypeOK
      <3> QED
          BY <2>0, <3>1, <3>2 DEF IInv, CopyInv
    <2>5. NoneMissed'
        BY <2>0 DEF IInv, TypeOK, BeforeInv, NoneMissed
    <2>6. SnapshotIsOneInstant'
        BY <2>0 DEF IInv, SnapshotIsOneInstant
    <2>7. RecheckInv'
      <3> SUFFICES ASSUME phase = "recheck" PROVE RecheckInv'
          BY <2>0 DEF RecheckInv
      <3>1. ASSUME stamp[f] = before[f]
            PROVE  manifest[f] = instant[f]
        <4>1. /\ before[f] \in Stamps /\ instant[f] \in Seq(Values)
              /\ manifest[f] \in Seq(Values) /\ manifest[f] # Absent /\ f # current
            BY <3>1 DEF IInv, TypeOK, BeforeInv, CopyInv, NoneMissed
        <4>2. /\ Len(manifest[f]) = Len(instant[f])
              /\ \A i \in 1..Len(manifest[f]) : manifest[f][i] = instant[f][i]
            BY <3>1, <4>1 DEF IInv, CopyInv
        <4> QED
            BY <4>1, <4>2, SameSequence
      <3>2. \A g \in Files : seen'[Home[g]] = seen[Home[g]]
          BY <2>0 DEF IInv, TypeOK
      <3> QED
          BY <2>0, <3>1, <3>2 DEF IInv, TypeOK, RecheckInv
    <2> QED
        BY <2>1, <2>2, <2>3, <2>4, <2>5, <2>6, <2>7 DEF IInv
  <1> QED
      BY <1>1, <1>2

\* Only a file that is there now is opened, so an absent one is never copied.
LEMMA OpenFileIInv == ASSUME IInv, NEW f \in Files, OpenFile(f) PROVE IInv'
  <1>1. CASE Reject
      BY <1>1, RejectIInv
  <1>2. CASE ~Reject
    <2> USE SnapshotAssumption, ContentsAssumption, StampFact DEF Entries
    <2>0. /\ phase = "copy" /\ seen[f] \notin {Unread, Absent}
          /\ current = NoFile /\ manifest[f] = Absent
          /\ stamp[f] = seen[f] /\ current' = f
          /\ manifest' = [manifest EXCEPT ![f] = <<>>]
          /\ UNCHANGED <<source, stamp, changed, phase, seen, opened, before, dest,
                         checksum, drifted, instant>>
        BY <1>2 DEF OpenFile, Visiting
    <2>a. seen[f] \in Stamps /\ source[f] \in Contents
        BY <2>0 DEF IInv, TypeOK, Identities, WalkInv
    <2>b. manifest'[f] = <<>> /\ <<>> \in Seq(Values) /\ Len(<<>>) = 0
        BY <2>0 DEF IInv, TypeOK
    <2>c. \A g \in Files : g # f => manifest'[g] = manifest[g]
        BY <2>0 DEF IInv, TypeOK
    <2>e. f # NoFile /\ manifest'[f] # Absent /\ \A i \in 1..Len(manifest'[f]) : FALSE
      <3>1. Len(manifest'[f]) = 0 /\ manifest'[f] \in Seq(Values)
          BY <2>b
      <3> QED
          BY <3>1
    <2>1. TypeOK'
      <3>1. manifest' \in [Files -> Seq(Values) \cup {Absent}]
          BY <2>0, EmptyCopy DEF IInv, TypeOK
      <3> QED
          BY <2>0, <3>1 DEF IInv, TypeOK
    <2>2. SeenInv' /\ WalkInv' /\ BeforeInv'
        BY <2>0 DEF IInv, SeenInv, WalkInv, BeforeInv
    <2>d. ~(before[f] = Absent /\ stamp[Home[f]] = before[Home[f]])
        BY <2>0, <2>a DEF IInv, BeforeInv
    <2>3. CopyInv'
        BY <2>0, <2>a, <2>c, <2>d, <2>e DEF IInv, CopyInv
    <2>4. NoneMissed' /\ RecheckInv' /\ SnapshotIsOneInstant'
        BY <2>0 DEF IInv, NoneMissed, RecheckInv, SnapshotIsOneInstant
    <2> QED
        BY <2>1, <2>2, <2>3, <2>4 DEF IInv
  <1> QED
      BY <1>1, <1>2

\* What is read of an unchanged file is what it was at the instant.
LEMMA ReadChunkIInv == ASSUME IInv, ReadChunk PROVE IInv'
  <1> USE SnapshotAssumption, ContentsAssumption, StampFact DEF Entries
  <1>1. CASE Reject
      BY <1>1, RejectIInv
  <1>2. CASE ~Reject
    <2> DEFINE f == current
               m == manifest[current]
    <2>0. f \in Files /\ phase = "copy" /\ m \in Seq(Values) /\ seen[f] \in Stamps
        BY DEF ReadChunk, IInv, TypeOK, CopyInv
    <2>a. PICK v \in Values :
              /\ stamp[f] = seen[f] => Len(m) < Len(source[f]) /\ v = source[f][Len(m) + 1]
              /\ manifest' = [manifest EXCEPT ![f] = Append(m, v)]
        BY <1>2 DEF ReadChunk
    <2>b. UNCHANGED <<source, stamp, changed, phase, seen, opened, before, current, dest,
                      checksum, drifted, instant>>
        BY <1>2 DEF ReadChunk
    <2>c. /\ manifest'[f] = Append(m, v) /\ Append(m, v) \in Seq(Values)
          /\ Len(Append(m, v)) = Len(m) + 1 /\ Len(m) \in Nat
          /\ \A i \in 1..Len(m) : Append(m, v)[i] = m[i]
          /\ Append(m, v)[Len(m) + 1] = v
          /\ \A g \in Files : g # f => manifest'[g] = manifest[g]
        BY <2>0, <2>a DEF IInv, TypeOK
    <2>1. TypeOK'
        BY <2>0, <2>a, <2>b, <2>c DEF IInv, TypeOK
    <2>2. SeenInv' /\ WalkInv' /\ BeforeInv'
        BY <2>b DEF IInv, SeenInv, WalkInv, BeforeInv
    <2>3. CopyInv'
      <3>1. /\ phase # "copy" => current = NoFile
            /\ current # NoFile => manifest'[current] # Absent /\ seen[current] \in Stamps
          BY <2>0, <2>c
      <3>2. ASSUME NEW g \in Files
            PROVE  /\ before[g] \in Stamps /\ stamp[g] = before[g] /\ manifest'[g] # Absent =>
                        /\ \A i \in 1..Len(manifest'[g]) : manifest'[g][i] = instant[g][i]
                        /\ g # current => Len(manifest'[g]) = Len(instant[g])
                   /\ before[g] = Absent /\ stamp[Home[g]] = before[Home[g]]
                        => manifest'[g] = Absent
        <4>1. CASE g # f
            BY <2>0, <2>c, <4>1 DEF IInv, CopyInv
        <4>2. CASE g = f
          <5>1. m # Absent /\ f # NoFile
              BY <2>0
          <5>2. ASSUME before[f] \in Stamps, stamp[f] = before[f], NEW i \in 1..(Len(m) + 1)
                PROVE  Append(m, v)[i] = instant[f][i]
            <6>1. \A j \in 1..Len(m) : m[j] = instant[f][j]
                BY <2>0, <5>1, <5>2 DEF IInv, CopyInv
            <6>2. v = instant[f][Len(m) + 1]
              <7>1. stamp[f] = seen[f]
                  BY <2>0, <5>2 DEF IInv, SeenInv
              <7>2. source[f] = instant[f]
                  BY <2>0, <5>2 DEF IInv, BeforeInv
              <7> QED
                  BY <2>a, <7>1, <7>2
            <6>3. i \in 1..Len(m) \/ i = Len(m) + 1
                BY <2>c
            <6> QED
                BY <2>c, <6>1, <6>2, <6>3
          <5>3. ~(before[f] = Absent /\ stamp[Home[f]] = before[Home[f]])
              BY <2>0, <5>1 DEF IInv, CopyInv
          <5> QED
              BY <2>c, <4>2, <5>2, <5>3
        <4> QED
            BY <4>1, <4>2
      <3> QED
          BY <2>0, <2>b, <3>1, <3>2 DEF CopyInv
    <2>4. NoneMissed' /\ RecheckInv' /\ SnapshotIsOneInstant'
        BY <2>0, <2>b DEF IInv, NoneMissed, RecheckInv, SnapshotIsOneInstant
    <2> QED
        BY <2>1, <2>2, <2>3, <2>4 DEF IInv
  <1> QED
      BY <1>1, <1>2

LEMMA CloseFileIInv == ASSUME IInv, CloseFile PROVE IInv'
  <1>1. CASE Reject
      BY <1>1, RejectIInv
  <1>2. CASE ~Reject
    <2> USE SnapshotAssumption, ContentsAssumption, StampFact DEF Entries
    <2>0. /\ current # NoFile /\ current' = NoFile
          /\ stamp[current] = seen[current]
          /\ Len(manifest[current]) = Len(source[current])
          /\ dest' = [dest EXCEPT ![current] = manifest[current]]
          /\ UNCHANGED <<source, stamp, changed, phase, seen, opened, before, manifest,
                         checksum, drifted, instant>>
        BY <1>2 DEF CloseFile, AtEnd
    <2>a. /\ current \in Files /\ phase = "copy" /\ manifest[current] \in Seq(Values)
        BY <2>0 DEF IInv, TypeOK, CopyInv
    <2>b. before[current] \in Stamps /\ stamp[current] = before[current] =>
             Len(manifest[current]) = Len(instant[current])
        BY <2>0, <2>a DEF IInv, BeforeInv
    <2>1. TypeOK'
        BY <2>0, <2>a DEF IInv, TypeOK
    <2>2. SeenInv' /\ WalkInv' /\ BeforeInv'
        BY <2>0 DEF IInv, SeenInv, WalkInv, BeforeInv
    <2>3. CopyInv'
        BY <2>0, <2>a, <2>b DEF IInv, CopyInv
    <2>4. NoneMissed' /\ RecheckInv' /\ SnapshotIsOneInstant'
        BY <2>0 DEF IInv, NoneMissed, RecheckInv, SnapshotIsOneInstant
    <2> QED
        BY <2>1, <2>2, <2>3, <2>4 DEF IInv
  <1> QED
      BY <1>1, <1>2

\* identity_before is what the walk saw, at the instant it was complete.
LEMMA StartCopyIInv == ASSUME IInv, StartCopy PROVE IInv'
  <1> USE SnapshotAssumption, ContentsAssumption, StampFact DEF Entries
  <1>0. /\ phase = "identify" /\ phase' = "copy" /\ opened = Dirs
        /\ \A e \in Entries : seen[e] # Unread
        /\ before' = seen /\ instant' = source /\ opened' = {}
        /\ seen' = [e \in Entries |-> IF e = Root THEN seen[Root] ELSE Unread]
        /\ UNCHANGED <<source, stamp, changed, current, manifest, dest, checksum, drifted>>
      BY DEF StartCopy, WalkIsOver, NextWalk
  <1>a. /\ \A e \in Entries : before'[e] \in Stamps \cup {Absent}
        /\ \A d \in Dirs : before'[d] \in Stamps
        /\ \A f \in Files : seen'[f] = Unread
      BY <1>0 DEF IInv, TypeOK, Identities, WalkInv
  <1>1. TypeOK'
      BY <1>0 DEF IInv, TypeOK, Identities
  <1>2. SeenInv'
      BY <1>0 DEF IInv, TypeOK, SeenInv
  <1>3. WalkInv'
      BY <1>0, <1>a DEF IInv, WalkInv
  <1>4. BeforeInv'
      BY <1>0, <1>a DEF IInv, WalkInv, BeforeInv
  <1>5. CopyInv'
      BY <1>0 DEF IInv, CopyInv, Nothing
  <1>6. NoneMissed' /\ RecheckInv' /\ SnapshotIsOneInstant'
      BY <1>0, <1>a DEF NoneMissed, RecheckInv, SnapshotIsOneInstant
  <1> QED
      BY <1>1, <1>2, <1>3, <1>4, <1>5, <1>6 DEF IInv

\* Everything that was listed is copied; the root is the first entry settled.
LEMMA StartRecheckIInv == ASSUME IInv, StartRecheck PROVE IInv'
  <1> USE SnapshotAssumption, ContentsAssumption, StampFact DEF Entries
  <1>0. /\ phase = "copy" /\ phase' = "recheck" /\ opened' = {} /\ current = NoFile
        /\ \A f \in Files : seen[f] # Absent => manifest[f] # Absent
        /\ seen' = [e \in Entries |-> IF e = Root THEN stamp[Root] ELSE Unread]
        /\ UNCHANGED <<source, stamp, changed, before, current, manifest, dest, checksum,
                       drifted, instant>>
      BY DEF StartRecheck, NextWalk
  <1>a. /\ \A f \in Files : seen'[f] = Unread
        /\ \A d \in Dirs : seen'[d] = IF d = Root THEN stamp[Root] ELSE Unread
        /\ stamp[Root] \in Stamps
      BY <1>0 DEF IInv, TypeOK
  <1>1. TypeOK'
      BY <1>0, <1>a DEF IInv, TypeOK, Identities
  <1>2. SeenInv'
      BY <1>0, <1>a DEF IInv, TypeOK, SeenInv
  <1>3. WalkInv'
      BY <1>0, <1>a DEF WalkInv
  <1>4. BeforeInv' /\ CopyInv'
      BY <1>0 DEF IInv, BeforeInv, CopyInv
  <1>5. NoneMissed' /\ SnapshotIsOneInstant'
      BY <1>0 DEF IInv, NoneMissed, SnapshotIsOneInstant
  <1>6. RecheckInv'
      BY <1>0, <1>a DEF IInv, BeforeInv, CopyInv, RecheckInv
  <1> QED
      BY <1>1, <1>2, <1>3, <1>4, <1>5, <1>6 DEF IInv

\* Two records that agree settle every file.
LEMMA SealIInv == ASSUME IInv, Seal PROVE IInv'
  <1>1. CASE Reject
      BY <1>1, RejectIInv
  <1>2. CASE ~Reject
    <2> USE SnapshotAssumption, ContentsAssumption, StampFact DEF Entries
    <2>0. /\ phase = "recheck" /\ phase' = "sealed" /\ seen = before /\ checksum' = dest
          /\ \A e \in Entries : seen[e] # Unread
          /\ UNCHANGED <<source, stamp, changed, seen, opened, before, current, manifest,
                         dest, drifted, instant>>
        BY <1>2 DEF Seal, SourceUnchanged, WalkIsOver
    <2>1. TypeOK'
        BY <2>0 DEF IInv, TypeOK
    <2>2. SeenInv' /\ WalkInv'
        BY <2>0 DEF IInv, SeenInv, WalkInv
    <2>3. BeforeInv' /\ CopyInv' /\ NoneMissed' /\ RecheckInv'
        BY <2>0 DEF IInv, BeforeInv, CopyInv, NoneMissed, RecheckInv
    <2>4. SnapshotIsOneInstant'
      <3>1. \A f \in Files : seen[f] \in Stamps \cup {Absent}
          BY <2>0 DEF IInv, TypeOK, Identities
      <3>2. \A f \in Files : manifest[f] = instant[f]
          BY <2>0, <3>1 DEF IInv, RecheckInv
      <3>3. manifest = instant
          BY <3>2 DEF IInv, TypeOK
      <3> QED
          BY <2>0, <3>3 DEF SnapshotIsOneInstant
    <2> QED
        BY <2>1, <2>2, <2>3, <2>4 DEF IInv
  <1> QED
      BY <1>1, <1>2

LEMMA LeaveIInv == ASSUME IInv, Exit \/ CallerRaises PROVE IInv'
  <1>1. CASE Reject
      BY <1>1, RejectIInv
  <1>2. CASE ~Reject
    <2> USE SnapshotAssumption, ContentsAssumption, StampFact DEF Entries
    <2>0. /\ phase = "sealed" /\ phase' \in {"done", "raised"} /\ dest' = Nothing
          /\ UNCHANGED <<source, stamp, changed, seen, opened, before, current, manifest,
                         checksum, drifted, instant>>
        BY <1>2 DEF Exit, CallerRaises
    <2>1. TypeOK'
        BY <2>0 DEF IInv, TypeOK, Nothing
    <2>2. SeenInv' /\ WalkInv'
        BY <2>0 DEF IInv, SeenInv, WalkInv
    <2>3. BeforeInv' /\ CopyInv' /\ NoneMissed' /\ RecheckInv' /\ SnapshotIsOneInstant'
        BY <2>0 DEF IInv, BeforeInv, CopyInv, NoneMissed, RecheckInv, SnapshotIsOneInstant
    <2> QED
        BY <2>1, <2>2, <2>3 DEF IInv
  <1> QED
      BY <1>1, <1>2

LEMMA FrameIInv == ASSUME IInv, UNCHANGED vars PROVE IInv'
  BY DEF vars, IInv, TypeOK, SeenInv, WalkInv, BeforeInv, CopyInv, NoneMissed,
         RecheckInv, SnapshotIsOneInstant

LEMMA NextIInv == ASSUME ~CoarseClock, IInv, [Next]_vars PROVE IInv'
  <1>1. CASE Change
      BY <1>1, WriteIInv, ReplaceIInv, DriftIInv DEF Change
  <1>2. CASE Snapshot
      BY <1>2, OpenDirIInv, ListDirIInv, ListFileIInv, OpenFileIInv, ReadChunkIInv,
         CloseFileIInv, StartCopyIInv, StartRecheckIInv, SealIInv, LeaveIInv DEF Snapshot
  <1>3. CASE UNCHANGED vars
      BY <1>3, FrameIInv
  <1> QED
      BY <1>1, <1>2, <1>3 DEF Next, Ended

LEMMA Invariance == ASSUME ~CoarseClock PROVE Spec => []IInv
  <1>1. Init => IInv
      BY InitIInv
  <1>2. IInv /\ [Next]_vars => IInv'
      BY NextIInv
  <1> QED
      BY <1>1, <1>2, PTL DEF Spec

\* What snapshot_pack seals is the source pack as it was at one instant, with
\* any number of files and directories and whatever changes around it.
THEOREM SealedIsOneInstant == ASSUME ~CoarseClock PROVE Spec => []SnapshotIsOneInstant
  <1>1. IInv => SnapshotIsOneInstant
      BY DEF IInv
  <1> QED
      BY <1>1, Invariance, PTL

-----------------------------------------------------------------------------

(***************************************************************************)
(* What holds whatever the clock: the types, and that only the copy has a  *)
(* file open.                                                              *)
(***************************************************************************)
OpenInv ==
    /\ phase # "copy" => current = NoFile
    /\ current # NoFile => manifest[current] # Absent

Typed == TypeOK /\ OpenInv

LEMMA TypedInit == Init => Typed
  BY InitIInv DEF IInv, CopyInv, Typed, OpenInv

LEMMA TypedChange == ASSUME Typed, Change PROVE Typed'
  <1> USE SnapshotAssumption, ContentsAssumption, StampFact DEF Typed, TypeOK, OpenInv
  <1>1. ASSUME NEW f \in Files, NEW x \in Contents, Write(f, x) PROVE Typed'
    <2>1. Fresh(f) \in Stamps /\ Fresh(Home[f]) \in Stamps
        BY FreshFact
    <2>2. stamp' \in [Entries -> Stamps]
        BY <1>1, <2>1 DEF Write, Entries
    <2>3. changed' \in BOOLEAN
        BY <1>1 DEF Write
    <2> QED
        BY <1>1, <2>2, <2>3 DEF Write
  <1>2. ASSUME NEW f \in Files, NEW x \in Contents \cup {Absent, Link}, Replace(f, x)
        PROVE  Typed'
    <2>1. Fresh(f) \in Stamps /\ Fresh(Home[f]) \in Stamps
        BY FreshFact
    <2>2. stamp' \in [Entries -> Stamps]
        BY <1>2, <2>1 DEF Replace, Entries
    <2>3. changed' \in BOOLEAN
        BY <1>2 DEF Replace
    <2> QED
        BY <1>2, <2>2, <2>3 DEF Replace
  <1>3. ASSUME NEW f \in Files, NEW x \in Contents \cup {Absent}, Drift(f, x)
        PROVE  Typed'
      BY <1>3 DEF Drift
  <1> QED
      BY <1>1, <1>2, <1>3 DEF Change

LEMMA TypedReject == ASSUME Typed, Reject PROVE Typed'
  BY DEF Typed, TypeOK, OpenInv, Reject, Nothing, Identities

LEMMA TypedSnapshot == ASSUME Typed, Snapshot PROVE Typed'
  <1> USE SnapshotAssumption, ContentsAssumption, StampFact DEF Typed, TypeOK, OpenInv, Entries, Identities
  <1>1. ASSUME NEW d \in Dirs, OpenDir(d) PROVE Typed'
      BY <1>1, TypedReject DEF OpenDir
  <1>2. ASSUME NEW d \in Dirs, ListDir(d) PROVE Typed'
      BY <1>2 DEF ListDir
  <1>3. ASSUME NEW f \in Files, ListFile(f) PROVE Typed'
    <2>1. CASE Reject
        BY <2>1, TypedReject
    <2>2. CASE ~Reject
      <3>1. seen' \in [Entries -> Identities]
          BY <1>3, <2>2 DEF ListFile
      <3> QED
          BY <1>3, <2>2, <3>1 DEF ListFile
    <2> QED
        BY <2>1, <2>2
  <1>4. ASSUME NEW f \in Files, OpenFile(f) PROVE Typed'
    <2>1. CASE Reject
        BY <2>1, TypedReject
    <2>2. CASE ~Reject
      <3>1. manifest' = [manifest EXCEPT ![f] = <<>>] /\ current' = f /\ phase = "copy"
          BY <1>4, <2>2 DEF OpenFile
      <3>2. manifest' \in [Files -> Seq(Values) \cup {Absent}]
          BY <3>1, EmptyCopy
      <3>3. manifest'[f] # Absent
        <4>1. manifest'[f] = <<>> /\ <<>> \in Seq(Values)
            BY <3>1
        <4> QED
            BY <4>1
      <3> QED
          BY <1>4, <2>2, <3>1, <3>2, <3>3 DEF OpenFile
    <2> QED
        BY <2>1, <2>2
  <1>5. ASSUME ReadChunk PROVE Typed'
    <2>1. CASE Reject
        BY <2>1, TypedReject
    <2>2. CASE ~Reject
      <3>1. current \in Files /\ manifest[current] \in Seq(Values)
          BY <1>5 DEF ReadChunk
      <3>2. PICK v \in Values : manifest' = [manifest EXCEPT ![current] = Append(@, v)]
          BY <1>5, <2>2 DEF ReadChunk
      <3>3. Append(manifest[current], v) \in Seq(Values)
          BY <3>1
      <3>4. /\ manifest'[current] \in Seq(Values)
            /\ manifest' \in [Files -> Seq(Values) \cup {Absent}]
          BY <3>1, <3>2, <3>3
      <3> QED
          BY <1>5, <2>2, <3>1, <3>4 DEF ReadChunk
    <2> QED
        BY <2>1, <2>2
  <1>6. ASSUME CloseFile PROVE Typed'
      BY <1>6, TypedReject DEF CloseFile
  <1>7. ASSUME StartCopy PROVE Typed'
      BY <1>7 DEF StartCopy, NextWalk
  <1>8. ASSUME StartRecheck PROVE Typed'
      BY <1>8 DEF StartRecheck, NextWalk
  <1>9. ASSUME Seal PROVE Typed'
      BY <1>9, TypedReject DEF Seal
  <1>10. ASSUME Exit \/ CallerRaises PROVE Typed'
      BY <1>10, TypedReject DEF Exit, CallerRaises, Nothing
  <1> QED
      BY <1>1, <1>2, <1>3, <1>4, <1>5, <1>6, <1>7, <1>8, <1>9, <1>10 DEF Snapshot

LEMMA TypedStep == Typed /\ [Next]_vars => Typed'
  <1>1. ASSUME Typed, UNCHANGED vars PROVE Typed'
      BY <1>1 DEF vars, Typed, TypeOK, OpenInv
  <1> QED
      BY <1>1, TypedChange, TypedSnapshot DEF Next, Ended

\* Type correctness of the snapshot protocol, with any clock.
THEOREM SnapshotTypeCorrect == Spec => []TypeOK
  <1>1. Typed => TypeOK
      BY DEF Typed
  <1> QED
      BY <1>1, TypedInit, TypedStep, PTL DEF Spec

\* The checksum a caller has when it leaves the with-block normally is that of
\* the source at one instant: it is taken of the snapshot's tree after the last
\* walk, and verify at the end compares that tree with the manifest, which was
\* written from what the copy read.
THEOREM ChecksumOfTheSource == ASSUME ~CoarseClock PROVE Spec => []ChecksumIsOfTheSource
  <1>1. Init => ChecksumIsOfTheSource
      BY DEF Init, ChecksumIsOfTheSource
  <1>2. ASSUME IInv, ChecksumIsOfTheSource, [Next]_vars PROVE ChecksumIsOfTheSource'
    <2>1. CASE phase = "done" /\ UNCHANGED <<phase, checksum, instant>>
        BY <1>2, <2>1 DEF ChecksumIsOfTheSource
    <2>2. CASE phase' # "done"
        BY <2>2 DEF ChecksumIsOfTheSource
    <2>3. CASE Exit /\ phase' = "done"
      <3>1. phase = "sealed" /\ checksum = manifest /\ UNCHANGED <<checksum, instant>>
          BY <2>3 DEF Exit, Reject, SealHolds
      <3>2. manifest = instant
          BY <1>2, <3>1 DEF IInv, SnapshotIsOneInstant
      <3> QED
          BY <3>1, <3>2 DEF ChecksumIsOfTheSource
    <2>4. phase = "done" => current = NoFile /\ ~Walking
        BY <1>2 DEF IInv, CopyInv, Walking
    <2>5. CASE Change
        BY <2>1, <2>2, <2>5 DEF Change, Write, Replace, Drift, Walking
    <2>6. CASE Snapshot
        BY <2>1, <2>2, <2>3, <2>4, <2>6
        DEF Snapshot, OpenDir, ListDir, ListFile, OpenFile, ReadChunk, CloseFile, AtEnd, StartCopy,
            StartRecheck, Seal, CallerRaises, Visiting, Walking, Reject
    <2>7. CASE UNCHANGED vars
        BY <2>1, <2>2, <2>7 DEF vars
    <2> QED
        BY <1>2, <2>5, <2>6, <2>7 DEF Next, Ended
  <1>3. IInv /\ ChecksumIsOfTheSource /\ [Next]_vars => ChecksumIsOfTheSource'
      BY <1>2
  <1>4. Spec => []IInv
      BY Invariance
  <1> QED
      BY <1>1, <1>3, <1>4, PTL DEF Spec

-----------------------------------------------------------------------------

(***************************************************************************)
(* A pack nobody touches.  Every walk sees the same thing: the first       *)
(* identity of what is there.                                              *)
(***************************************************************************)
Present == {f \in Files : source[f] # Absent}

Quiet ==
    /\ ~changed /\ ~drifted
    /\ \A f \in Files : source[f] # Link
    /\ \A f \in Files : source[f] \in Contents => ~(Len(source[f]) > MaxChunks)
    /\ ~(Cardinality(Present) > MaxFiles)

Listed(f) == IF source[f] = Absent THEN Absent ELSE 0

QuietWalk ==
    /\ \A e \in Entries : stamp[e] = 0
    /\ \A d \in Dirs : seen[d] \in {0, Unread}
    /\ \A f \in Files : seen[f] \in {Unread, Listed(f)}
    /\ current # NoFile => seen[current] = 0 /\ source[current] \in Contents
    /\ phase \in {"copy", "recheck"} =>
         (\A d \in Dirs : before[d] = 0) /\ (\A f \in Files : before[f] = Listed(f))

QuietCopy ==
    /\ phase = "identify" => \A f \in Files : manifest[f] = Absent
    /\ phase \in {"identify", "copy", "recheck", "sealed"} =>
         \A f \in Files : dest[f] = IF f = current THEN Absent ELSE manifest[f]
    /\ phase = "sealed" => checksum = dest

QuietInv == Quiet => phase # "rejected" /\ QuietWalk /\ QuietCopy

LEMMA QuietInit == Init => QuietInv
  BY SnapshotAssumption DEF Init, QuietInv, QuietWalk, QuietCopy, Entries, Nothing

\* The limit is not in the way of a file of a pack within it.
LEMMA RoomForOneMore ==
    ASSUME Typed, Quiet, QuietWalk, NEW f \in Files, source[f] # Absent, seen[f] = Unread
    PROVE  FileCount < MaxFiles
  <1> DEFINE Counted == {g \in Files : seen[g] \notin {Unread, Absent}}
  <1>1. Counted \subseteq Present \ {f} /\ f \in Present /\ Present \subseteq Files
      BY DEF QuietWalk, Listed, Present
  <1>2. IsFiniteSet(Present)
      BY <1>1, FinitePack, FS_Subset
  <1>3. IsFiniteSet(Present \ {f}) /\ Cardinality(Present \ {f}) = Cardinality(Present) - 1
      BY <1>1, <1>2, FS_RemoveElement
  <1>4. IsFiniteSet(Counted) /\ Cardinality(Counted) <= Cardinality(Present \ {f})
      BY <1>1, <1>3, FS_Subset
  <1>5. Cardinality(Counted) \in Nat /\ Cardinality(Present) \in Nat
      BY <1>2, <1>4, FS_CardinalityType
  <1>6. FileCount = Cardinality(Counted)
      BY DEF FileCount
  <1> HIDE DEF Counted
  <1> QED
      BY <1>3, <1>4, <1>5, <1>6, SnapshotAssumption DEF Quiet

\* Each step of the walks, in a pack that is quiet: none is a rejection.
LEMMA QuietSnapshot == ASSUME Typed, QuietInv, Snapshot PROVE QuietInv'
  <1> SUFFICES ASSUME Quiet' PROVE phase' # "rejected" /\ QuietWalk' /\ QuietCopy'
      BY DEF QuietInv
  <1> USE SnapshotAssumption, ContentsAssumption, StampFact DEF Entries
  <1>0. UNCHANGED <<source, stamp, changed, drifted>>
      BY DEF Snapshot, OpenDir, ListDir, ListFile, OpenFile, ReadChunk, CloseFile, StartCopy,
             StartRecheck, Seal, Exit, CallerRaises, Reject
  <1>a. Quiet /\ phase # "rejected" /\ QuietWalk /\ QuietCopy
      BY <1>0 DEF Quiet, Present, QuietInv
  <1>b. \A f \in Files : Listed(f)' = Listed(f)
      BY <1>0 DEF Listed
  <1> USE <1>0, <1>a, <1>b
  <1>1. ASSUME NEW d \in Dirs, OpenDir(d) PROVE phase' # "rejected" /\ QuietWalk' /\ QuietCopy'
      BY <1>1 DEF OpenDir, QuietWalk, QuietCopy
  <1>2. ASSUME NEW d \in Dirs, ListDir(d) PROVE phase' # "rejected" /\ QuietWalk' /\ QuietCopy'
      BY <1>2 DEF ListDir, QuietWalk, QuietCopy, Typed, TypeOK
  <1>3. ASSUME NEW f \in Files, ListFile(f) PROVE phase' # "rejected" /\ QuietWalk' /\ QuietCopy'
    <2>1. source[f] # Absent => FileCount < MaxFiles
        BY <1>3, RoomForOneMore DEF ListFile
    <2>2. FileCount < MaxFiles => ~(FileCount >= MaxFiles)
      <3>1. IsFiniteSet({g \in Files : seen[g] \notin {Unread, Absent}})
          BY FinitePack, FS_Subset
      <3>2. FileCount \in Nat
          BY <3>1, FS_CardinalityType DEF FileCount
      <3> QED
          BY <3>2
    <2>3. source[f] # Link
        BY DEF Quiet
    <2>4. seen' = [seen EXCEPT ![f] = Listed(f)]
          /\ UNCHANGED <<phase, before, current, manifest, dest, checksum>>
        BY <1>3, <2>1, <2>2, <2>3 DEF ListFile, Listed, QuietWalk
    <2>5. seen[f] = Unread
        BY <1>3 DEF ListFile
    <2>6. \A d \in Dirs : seen'[d] = seen[d]
        BY <2>4
    <2>7. \A g \in Files : seen'[g] = IF g = f THEN Listed(f) ELSE seen[g]
        BY <2>4 DEF Typed, TypeOK
    <2>8. QuietWalk'
        BY <2>4, <2>5, <2>6, <2>7 DEF QuietWalk, Typed, TypeOK
    <2>9. QuietCopy'
        BY <2>4 DEF QuietCopy
    <2> QED
        BY <2>4, <2>8, <2>9
  <1>4. ASSUME NEW f \in Files, OpenFile(f) PROVE phase' # "rejected" /\ QuietWalk' /\ QuietCopy'
    <2>1. seen[f] = 0 /\ stamp[f] = seen[f] /\ dest[f] = Absent /\ source[f] # Absent
        BY <1>4 DEF OpenFile, Visiting, QuietWalk, QuietCopy, Listed
    <2>5. source[f] \in Contents
        BY <2>1 DEF Quiet, Typed, TypeOK
    <2>2. /\ phase = "copy" /\ current = NoFile /\ current' = f
          /\ manifest' = [manifest EXCEPT ![f] = <<>>]
          /\ UNCHANGED <<phase, seen, before, dest, checksum>>
        BY <1>4, <2>1 DEF OpenFile, Visiting
    <2>3. QuietWalk'
        BY <2>1, <2>2, <2>5 DEF QuietWalk
    <2>4. QuietCopy'
        BY <2>1, <2>2 DEF QuietCopy, Typed, TypeOK
    <2> QED
        BY <2>2, <2>3, <2>4
  <1>5. ASSUME ReadChunk PROVE phase' # "rejected" /\ QuietWalk' /\ QuietCopy'
    <2>0. current \in Files /\ phase = "copy" /\ manifest[current] \in Seq(Values)
        BY <1>5 DEF ReadChunk, Typed, TypeOK, OpenInv
    <2>a. Len(manifest[current]) < MaxChunks
      <3>1. stamp[current] = seen[current] /\ source[current] \in Contents
          BY <2>0 DEF QuietWalk
      <3>2. Len(manifest[current]) < Len(source[current])
          BY <1>5, <3>1 DEF ReadChunk
      <3>3. ~(Len(source[current]) > MaxChunks) /\ source[current] \in Seq(Values)
          BY <2>0, <3>1 DEF Quiet
      <3> QED
          BY <2>0, <3>2, <3>3
    <2>b. ~(Len(manifest[current]) >= MaxChunks)
        BY <2>0, <2>a
    <2>1. UNCHANGED <<phase, seen, before, current, dest, checksum>>
        BY <1>5, <2>b DEF ReadChunk
    <2>2. \A g \in Files : g # current => manifest'[g] = manifest[g]
        BY <1>5, <2>0, <2>b DEF ReadChunk, Typed, TypeOK
    <2>3. QuietWalk'
        BY <2>1 DEF QuietWalk
    <2>4. QuietCopy'
        BY <2>0, <2>1, <2>2 DEF QuietCopy
    <2> QED
        BY <2>0, <2>1, <2>3, <2>4
  <1>6. ASSUME CloseFile PROVE phase' # "rejected" /\ QuietWalk' /\ QuietCopy'
    <2>1. current \in Files /\ phase = "copy"
        BY <1>6 DEF CloseFile, AtEnd, Typed, TypeOK, OpenInv
    <2>2. stamp[current] = seen[current] /\ dest[current] = Absent
        BY <1>6, <2>1 DEF CloseFile, QuietWalk, QuietCopy
    <2>3. /\ dest' = [dest EXCEPT ![current] = manifest[current]] /\ current' = NoFile
          /\ UNCHANGED <<phase, seen, before, manifest, checksum>>
        BY <1>6, <2>2 DEF CloseFile
    <2>4. QuietWalk'
        BY <2>3 DEF QuietWalk
    <2>5. QuietCopy'
        BY <2>1, <2>3 DEF QuietCopy, Typed, TypeOK
    <2> QED
        BY <2>1, <2>3, <2>4, <2>5
  <1>7. ASSUME StartCopy PROVE phase' # "rejected" /\ QuietWalk' /\ QuietCopy'
    <2>1. current = NoFile
        BY <1>7 DEF StartCopy, Typed, OpenInv
    <2> QED
        BY <1>7, <2>1 DEF StartCopy, WalkIsOver, NextWalk, QuietWalk, QuietCopy
  <1>8. ASSUME StartRecheck PROVE phase' # "rejected" /\ QuietWalk' /\ QuietCopy'
      BY <1>8 DEF StartRecheck, NextWalk, QuietWalk, QuietCopy
  <1>9. ASSUME Seal PROVE phase' # "rejected" /\ QuietWalk' /\ QuietCopy'
    <2>1. \A e \in Entries : seen[e] = before[e]
        BY <1>9 DEF Seal, WalkIsOver, QuietWalk
    <2>2. SourceUnchanged
        BY <2>1 DEF SourceUnchanged, Typed, TypeOK
    <2> QED
        BY <1>9, <2>2 DEF Seal, QuietWalk, QuietCopy
  <1>10. ASSUME Exit \/ CallerRaises PROVE phase' # "rejected" /\ QuietWalk' /\ QuietCopy'
    <2>1. phase = "sealed" /\ current = NoFile
        BY <1>10 DEF Exit, CallerRaises, Typed, OpenInv
    <2>2. \A f \in Files : dest[f] = manifest[f]
        BY <2>1 DEF QuietCopy
    <2>3. dest = manifest /\ dest = checksum
        BY <2>1, <2>2 DEF QuietCopy, Typed, TypeOK
    <2>4. /\ phase' \in {"done", "raised"}
          /\ UNCHANGED <<seen, before, current, manifest, checksum>>
        BY <1>10, <2>3 DEF Exit, CallerRaises, SealHolds
    <2> QED
        BY <2>1, <2>4 DEF QuietWalk, QuietCopy
  <1> QED
      BY <1>1, <1>2, <1>3, <1>4, <1>5, <1>6, <1>7, <1>8, <1>9, <1>10 DEF Snapshot

LEMMA QuietStep == Typed /\ QuietInv /\ [Next]_vars => QuietInv'
  <1> SUFFICES ASSUME Typed, QuietInv, [Next]_vars PROVE QuietInv'
      OBVIOUS
  <1>1. CASE Change
    <2>1. changed' \/ drifted'
        BY <1>1 DEF Change, Write, Replace, Drift, Typed, TypeOK
    <2> QED
        BY <2>1 DEF QuietInv, Quiet
  <1>2. CASE UNCHANGED vars
      BY <1>2 DEF vars, QuietInv, Quiet, Present, QuietWalk, QuietCopy, Listed
  <1> QED
      BY <1>1, <1>2, QuietSnapshot DEF Next, Ended

\* snapshot_pack never rejects a pack that nobody touches, of regular files
\* and within the limits, however large the pack and deep its directories.
THEOREM QuietAccepted == Spec => []QuietPackIsAccepted
  <1>1. ASSUME Typed, QuietInv PROVE QuietPackIsAccepted
      BY <1>1 DEF QuietInv, Quiet, Present, QuietPackIsAccepted
  <1> QED
      BY <1>1, TypedInit, TypedStep, QuietInit, QuietStep, PTL DEF Spec

=============================================================================
