------------------------- MODULE PackAuthoringProofs -------------------------
(***************************************************************************)
(* OutputIsOneImport and QuietWriteSticks of PackAuthoring for any number  *)
(* of importers, writers and edits, and RungsAreEarned of Certification    *)
(* for packs of any size, any number of mutants and any determinism_runs.  *)
(***************************************************************************)
EXTENDS PackAuthoring, Certification, SequenceTheorems, FiniteSetTheorems, TLAPS

Owner(i) == import[i] \in {"moving", "done", "interrupted", "left"}

\* mkdir lets one importer in, and only its removal of the output lets in
\* another, into an empty directory.
OwnerInv ==
    /\ \A i \in Importers : Owner(i) => exists
    /\ exists => \E i \in Importers : Owner(i)
    /\ \A i, j \in Importers : Owner(i) /\ Owner(j) => i = j
    /\ ~exists => \A f \in Files : content[f] = Absent

\* What the renames of the owner have brought so far, edits included.
MovedInv ==
    \A i \in Importers :
        /\ import[i] \in {"start", "staged"} => moved[i] = 0
        /\ Owner(i) => \A f \in Files : content[f] \in {i, Absent} \cup Edits
        /\ import[i] = "moving" =>
             /\ moved[i] < 3
             /\ \A n \in 1..moved[i] : Order[i][n] \in Files => content[Order[i][n]] # Absent
        /\ import[i] = "done" => \A f \in Files : content[f] # Absent

\* A writer's temporary file lies in the pack only while it is being written,
\* or for good when the writer died.
TempsInv == \A w \in temps : write[w] \in {"writing", "restoring", "dead"}

\* Until somebody else changes something a writer finds what it began with, and
\* its own artifact once it has replaced it.
Undisturbed(w) ==
    /\ write[w] \in {"prior", "write", "writing", "recheck"} =>
         /\ exists
         /\ intended[w] = [content |-> content, temps |-> temps \ {w}]
         /\ before[w] = [content |-> content, temps |-> temps \ {w}, mode |-> mode]
    /\ write[w] = "recheck" => stored = intended[w]

\* Nothing is asked of a writer that was disturbed, or that has not begun or has
\* ended without returning.
NothingToKeep(w) ==
    disturbed[w] = "no" =>
        write[w] \notin Watching \cup {"restore", "restoring", "restored"}

QuietInv == \A w \in Writers : disturbed[w] = "no" => Undisturbed(w)

IInv ==
    /\ TypeOK /\ OwnerInv /\ MovedInv /\ TempsInv /\ QuietInv
    /\ QuietWriteSticks

-----------------------------------------------------------------------------

LEMMA InitIInv == Init => IInv
<1> SUFFICES ASSUME Init PROVE IInv
  OBVIOUS
<1> USE AuthoringAssumption DEF Init, Nothing, Files
<1>1. TypeOK
  <2>1. exists \in BOOLEAN
    OBVIOUS
  <2>2. content \in Contents /\ stored \in Sums \cup {Absent}
    BY DEF Contents
  <2> QED
    BY <2>1, <2>2 DEF TypeOK, Active
<1>2. OwnerInv /\ MovedInv /\ TempsInv
  BY DEF OwnerInv, MovedInv, TempsInv, Owner
<1>3. QuietInv /\ QuietWriteSticks
  BY DEF QuietInv, Undisturbed, QuietWriteSticks
<1> QED
  BY <1>1, <1>2, <1>3 DEF IInv

\* A writer that sees a change while it watches has nothing left to keep.
LEMMA SeenByAll ==
    ASSUME IInv, Disturb({}), UNCHANGED write
    PROVE  /\ disturbed' \in [Writers -> {"no", "early", "late"}]
           /\ QuietInv' /\ QuietWriteSticks'
<1>1. \A w \in Writers :
        disturbed'[w] = IF write[w] \notin Watching THEN disturbed[w]
                        ELSE IF write[w] = "recheck" THEN "late" ELSE "early"
  BY DEF Disturb
<1>2. disturbed' \in [Writers -> {"no", "early", "late"}]
  BY <1>1 DEF Disturb, IInv, TypeOK
<1>3. \A w \in Writers : disturbed'[w] = "no" => disturbed[w] = "no" /\ write[w] \notin Watching
  BY <1>1
<1>4. QuietInv'
  BY <1>3 DEF QuietInv, Undisturbed, Watching
<1>5. QuietWriteSticks'
  BY <1>3 DEF IInv, QuietWriteSticks, Watching
<1> QED
  BY <1>2, <1>4, <1>5

-----------------------------------------------------------------------------
(* Importers. *)

LEMMA StageStep ==
    ASSUME IInv, NEW i \in Importers, Stage(i) \/ ImportFails(i) \/ Interrupted(i) PROVE IInv'
<1> USE AuthoringAssumption DEF IInv, Stage, ImportFails, Interrupted, dir, writing
<1>1. TypeOK'
  BY DEF TypeOK
<1>2. \A j \in Importers : Owner(j)' <=> Owner(j)
  BY DEF Owner, TypeOK
<1>3. OwnerInv'
  BY <1>2 DEF OwnerInv
<1>4. MovedInv'
  BY <1>2 DEF MovedInv, Owner, TypeOK
<1>5. TempsInv' /\ QuietInv' /\ QuietWriteSticks'
  BY DEF TempsInv, QuietInv, Undisturbed, QuietWriteSticks, Checksum
<1> QED
  BY <1>1, <1>3, <1>4, <1>5

LEMMA ClaimStep ==
    ASSUME IInv, NEW i \in Importers, Claim(i) PROVE IInv'
<1> USE AuthoringAssumption DEF Claim, writing
<1>1. QuietInv' /\ QuietWriteSticks'
      /\ disturbed' \in [Writers -> {"no", "early", "late"}]
  BY SeenByAll
<1> USE DEF IInv
<1>2. TypeOK'
  <2>1. exists' \in BOOLEAN
    OBVIOUS
  <2> QED
    BY <1>1, <2>1 DEF TypeOK
<1>3. ~exists /\ import[i] = "staged"
  BY DEF Occupied
<1>4. \A j \in Importers : Owner(j)' <=> j = i
  BY <1>3 DEF Owner, TypeOK, OwnerInv
<1>5. OwnerInv'
  BY <1>4 DEF OwnerInv
<1>6. MovedInv'
  <2>1. \A f \in Files : content'[f] = Absent
    BY <1>3 DEF OwnerInv
  <2>2. moved'[i] = 0
    BY <1>3 DEF MovedInv, TypeOK
  <2>3. import'[i] = "moving" /\ \A j \in Importers : j # i => import'[j] = import[j] /\ ~Owner(j)
    BY <1>3 DEF TypeOK, OwnerInv
  <2>4. UNCHANGED moved
    OBVIOUS
  <2>5. \A j \in Importers : j # i => import'[j] \notin {"moving", "done"}
    BY <2>3 DEF Owner
  <2> QED
    BY <1>4, <2>1, <2>2, <2>3, <2>4, <2>5 DEF MovedInv
<1>7. TempsInv'
  BY DEF TempsInv
<1> QED
  BY <1>1, <1>2, <1>5, <1>6, <1>7

\* An importer renames every entry of its staging directory once.
LEMMA OrderFacts ==
    ASSUME NEW i \in Importers
    PROVE  /\ Len(Order[i]) = 3
           /\ \A n \in 1..3 : Order[i][n] \in Files \cup {"pack.sha256"}
           /\ \A f \in Files : \E n \in 1..3 : Order[i][n] = f
<1>1. /\ Order[i] \in [1..3 -> Files \cup {"pack.sha256"}]
      /\ {Order[i][n] : n \in 1..3} = Files \cup {"pack.sha256"}
  BY AuthoringAssumption
<1>2. Order[i] \in Seq(Files \cup {"pack.sha256"})
  <2> DEFINE S == Files \cup {"pack.sha256"}
  <2>1. [1..3 -> S] \in {[1..n -> S] : n \in Nat}
    OBVIOUS
  <2> HIDE DEF S
  <2>2. Order[i] \in UNION {[1..n -> S] : n \in Nat}
    BY <1>1, <2>1, Zenon DEF S
  <2> QED
    BY <2>2, SeqDef, Zenon DEF S
<1>3. Len(Order[i]) = 3
  BY <1>1, <1>2
<1> QED
  BY <1>1, <1>3

\* The owner adds its own entry to its own output.
LEMMA MoveStep ==
    ASSUME IInv, NEW i \in Importers, Move(i) PROVE IInv'
<1> USE AuthoringAssumption
<1> DEFINE entry == Order[i][moved[i] + 1]
<1>1. /\ import[i] = "moving" /\ exists
      /\ moved' = [moved EXCEPT ![i] = @ + 1]
      /\ import' = [import EXCEPT ![i] = IF moved'[i] = Len(Order[i]) THEN "done" ELSE @]
      /\ UNCHANGED <<exists, mode, temps, writing, edits>>
  BY DEF Move
<1>2. moved[i] \in 0..2 /\ moved'[i] = moved[i] + 1 /\ entry \in Files \cup {"pack.sha256"}
  <2>1. moved[i] \in 0..2
    BY <1>1 DEF IInv, MovedInv, TypeOK
  <2>2. moved[i] + 1 \in 1..3
    BY <2>1
  <2> QED
    BY <1>1, <2>1, <2>2, OrderFacts DEF IInv, TypeOK
<1>3. \/ /\ entry = "pack.sha256" /\ content' = content
         /\ stored' = [content |-> [f \in Files |-> i], temps |-> {}]
         /\ Disturb({})
      \/ /\ entry \in Files /\ content' = [content EXCEPT ![entry] = i]
         /\ stored' = stored /\ Disturb({})
  BY <1>2 DEF Move, Files
<1>4. QuietInv' /\ QuietWriteSticks'
      /\ disturbed' \in [Writers -> {"no", "early", "late"}]
  <2>1. UNCHANGED <<write, prior>>
    BY <1>1 DEF writing
  <2> QED
    BY <1>3, <2>1, SeenByAll
<1> HIDE DEF entry
<1>5. content' \in Contents /\ \A f \in Files : content'[f] = content[f] \/ (f = entry /\ content'[f] = i)
  BY <1>3 DEF IInv, TypeOK, Contents
<1>6. stored' \in Sums \cup {Absent}
  <2>1. [content |-> [f \in Files |-> i], temps |-> {}] \in Sums
    BY DEF Sums, Contents
  <2> QED
    BY <1>3, <2>1 DEF IInv, TypeOK
<1>7. import'[i] = IF moved'[i] = 3 THEN "done" ELSE "moving"
  <2>1. i \in DOMAIN import /\ Len(Order[i]) = 3
    BY OrderFacts DEF IInv, TypeOK
  <2> QED
    BY <1>1, <2>1
<1>8. TypeOK'
  <2>1. moved' \in [Importers -> 0..3]
    BY <1>1, <1>2 DEF IInv, TypeOK
  <2>2. import' \in [Importers ->
             {"start", "staged", "moving", "done", "failed", "interrupted", "left"}]
    BY <1>1 DEF IInv, TypeOK
  <2> QED
    BY <1>1, <1>4, <1>5, <1>6, <2>1, <2>2 DEF IInv, TypeOK, writing
<1>9. /\ \A j \in Importers : j # i => import'[j] = import[j] /\ moved'[j] = moved[j]
      /\ \A j \in Importers : Owner(j)' <=> Owner(j)
  BY <1>1, <1>7 DEF IInv, TypeOK, Owner
<1>10. OwnerInv'
  BY <1>1, <1>9 DEF IInv, OwnerInv
<1>11. \A f \in Files : content[f] # Absent => content'[f] # Absent
  BY <1>5
<1>12. \A n \in 1..moved'[i] : Order[i][n] \in Files => content'[Order[i][n]] # Absent
  <2> SUFFICES ASSUME NEW n \in 1..moved'[i], Order[i][n] \in Files
               PROVE  content'[Order[i][n]] # Absent
    OBVIOUS
  <2>1. CASE n = moved'[i]
    <3>1. Order[i][n] = entry
      BY <1>2, <2>1 DEF entry
    <3> QED
      BY <1>3, <3>1 DEF IInv, TypeOK, Contents, Files
  <2>2. CASE n # moved'[i]
    <3>1. n \in 1..moved[i]
      BY <1>2, <2>2
    <3> QED
      BY <1>1, <1>11, <3>1 DEF IInv, MovedInv
  <2> QED
    BY <2>1, <2>2
<1>13. MovedInv'
  <2> SUFFICES ASSUME NEW j \in Importers
               PROVE  /\ import'[j] \in {"start", "staged"} => moved'[j] = 0
                      /\ Owner(j)' => \A f \in Files : content'[f] \in {j, Absent} \cup Edits
                      /\ import'[j] = "moving" =>
                           /\ moved'[j] < 3
                           /\ \A n \in 1..moved'[j] :
                                Order[j][n] \in Files => content'[Order[j][n]] # Absent
                      /\ import'[j] = "done" => \A f \in Files : content'[f] # Absent
    BY DEF MovedInv
  <2>1. CASE j = i
    <3>1. Owner(i)
      BY <1>1 DEF Owner
    <3>2. \A f \in Files : content'[f] \in {i, Absent} \cup Edits
      BY <1>5, <3>1 DEF IInv, MovedInv
    <3>3. moved'[i] # 3 => moved'[i] < 3
      BY <1>2
    <3>4. moved'[i] = 3 => \A f \in Files : content'[f] # Absent
      BY <1>12, OrderFacts
    <3> QED
      BY <2>1, <1>7, <1>12, <3>2, <3>3, <3>4
  <2>2. CASE j # i
    <3>1. ~Owner(j)
      BY <1>1, <2>2 DEF IInv, OwnerInv, Owner
    <3> QED
      BY <1>9, <2>2, <3>1 DEF IInv, MovedInv, Owner
  <2> QED
    BY <2>1, <2>2
<1>14. TempsInv'
  BY <1>1 DEF IInv, TempsInv, writing
<1> QED
  BY <1>4, <1>8, <1>10, <1>13, <1>14 DEF IInv

\* The removal leaves no output, or what is left stays with its importer.
LEMMA MoveFailsStep ==
    ASSUME IInv, NEW i \in Importers, MoveFails(i) PROVE IInv'
<1> USE AuthoringAssumption
<1>1. import[i] = "moving" /\ Disturb({}) /\ UNCHANGED <<moved, writing, edits>>
  BY DEF MoveFails
<1>2. QuietInv' /\ QuietWriteSticks'
      /\ disturbed' \in [Writers -> {"no", "early", "late"}]
  BY <1>1, SeenByAll DEF writing
<1>3. exists /\ \A j \in Importers : j # i => ~Owner(j)
  BY <1>1 DEF IInv, OwnerInv, Owner
<1>4. CASE /\ exists' = FALSE /\ content' = Nothing /\ temps' = {} /\ stored' = Absent
           /\ mode' = 0 /\ import' = [import EXCEPT ![i] = "failed"]
  <2>1. TypeOK'
    <3>1. exists' \in BOOLEAN
      BY <1>4
    <3>2. content' \in Contents
      BY <1>4 DEF Nothing, Contents
    <3> QED
      BY <1>1, <1>2, <1>4, <3>1, <3>2 DEF IInv, TypeOK, writing
  <2>2. \A j \in Importers : ~Owner(j)'
    BY <1>3, <1>4 DEF IInv, TypeOK, Owner
  <2>3. OwnerInv' /\ MovedInv'
    BY <1>1, <1>4, <2>2 DEF IInv, TypeOK, OwnerInv, MovedInv, Nothing, Owner
  <2>4. TempsInv'
    BY <1>4 DEF TempsInv
  <2> QED
    BY <1>2, <2>1, <2>3, <2>4 DEF IInv
<1>5. CASE /\ \E gone \in SUBSET Files :
                content' = [f \in Files |-> IF f \in gone THEN Absent ELSE content[f]]
           /\ stored' \in {stored, Absent}
           /\ import' = [import EXCEPT ![i] = "left"]
           /\ temps' \in SUBSET temps
           /\ UNCHANGED <<exists, mode>>
  <2>1. content' \in Contents /\ \A f \in Files : content'[f] \in {content[f], Absent}
    BY <1>5 DEF IInv, TypeOK, Contents
  <2>2. TypeOK'
    BY <1>1, <1>2, <1>5, <2>1 DEF IInv, TypeOK, writing
  <2>3. \A j \in Importers : Owner(j)' <=> Owner(j)
    BY <1>1, <1>5 DEF IInv, TypeOK, Owner
  <2>4. OwnerInv'
    BY <1>3, <1>5, <2>3 DEF IInv, OwnerInv
  <2>5. MovedInv'
    <3>1. \A j \in Importers : import'[j] \notin {"moving", "done"}
      BY <1>3, <1>5 DEF IInv, TypeOK, Owner
    <3>2. \A j \in Importers : import'[j] \in {"start", "staged"} => import'[j] = import[j]
      BY <1>5 DEF IInv, TypeOK
    <3> QED
      BY <1>1, <2>1, <2>3, <3>1, <3>2 DEF IInv, MovedInv
  <2>6. TempsInv'
    BY <1>1, <1>5 DEF IInv, TempsInv, writing
  <2> QED
    BY <1>2, <2>2, <2>4, <2>5, <2>6 DEF IInv
<1> QED
  BY <1>4, <1>5 DEF MoveFails

LEMMA EditStep == ASSUME IInv, Edit PROVE IInv'
<1> USE AuthoringAssumption
<1>1. /\ exists /\ edits < MaxEdits /\ edits' = edits + 1 /\ Disturb({})
      /\ UNCHANGED <<exists, temps, stored, importing, writing>>
  BY DEF Edit
<1>2. QuietInv' /\ QuietWriteSticks'
      /\ disturbed' \in [Writers -> {"no", "early", "late"}]
  BY <1>1, SeenByAll DEF writing
<1>3. /\ content' \in Contents /\ mode' \in 0..1
      /\ \A f \in Files : content'[f] = content[f]
                          \/ (content[f] # Absent /\ content'[f] \in Edits /\ content'[f] # Absent)
  BY DEF Edit, IInv, TypeOK, Contents
<1>4. TypeOK'
  BY <1>1, <1>2, <1>3 DEF IInv, TypeOK, importing, writing
<1>5. OwnerInv'
  BY <1>1 DEF IInv, OwnerInv, importing, Owner
<1>6. MovedInv'
  BY <1>1, <1>3 DEF IInv, MovedInv, importing, Owner
<1>7. TempsInv'
  BY <1>1 DEF IInv, TempsInv, writing
<1> QED
  BY <1>2, <1>4, <1>5, <1>6, <1>7 DEF IInv

-----------------------------------------------------------------------------
(* Writers. *)

\* A writer leaves the pack and the importers alone.
LEMMA ImportersUntouched ==
    ASSUME IInv, UNCHANGED <<exists, content, importing>> PROVE OwnerInv' /\ MovedInv'
  BY DEF IInv, OwnerInv, MovedInv, importing, Owner

LEMMA BeginStep ==
    ASSUME IInv, NEW w \in Writers, Begin(w) PROVE IInv'
<1>1. /\ write[w] = "idle" /\ exists /\ UNCHANGED <<dir, importing, prior, edits>>
      /\ intended' = [intended EXCEPT ![w] = Checksum]
      /\ before' = [before EXCEPT ![w] = Manifest]
      /\ write' = [write EXCEPT ![w] = "prior"]
      /\ disturbed' = [disturbed EXCEPT ![w] = "no"]
  BY DEF Begin
<1>2. Checksum \in Sums /\ Manifest \in Manifests
  BY DEF IInv, TypeOK, Checksum, Manifest, Sums, Manifests
<1>3. TypeOK'
  <2>1. intended' \in [Writers -> Sums \cup {Absent}] /\ before' \in [Writers -> Manifests \cup {Absent}]
    BY <1>1, <1>2 DEF IInv, TypeOK
  <2>2. disturbed' \in [Writers -> {"no", "early", "late"}]
    BY <1>1 DEF IInv, TypeOK
  <2> QED
    BY <1>1, <2>1, <2>2 DEF IInv, TypeOK, dir, importing, Active
<1>4. \A v \in Writers : v # w => /\ write'[v] = write[v] /\ intended'[v] = intended[v]
                                  /\ before'[v] = before[v] /\ disturbed'[v] = disturbed[v]
  BY <1>1 DEF IInv, TypeOK
<1>5. /\ write'[w] = "prior" /\ intended'[w] = Checksum /\ before'[w] = Manifest
  BY <1>1 DEF IInv, TypeOK
<1>6. w \notin temps
  BY <1>1 DEF IInv, TempsInv
<1>7. OwnerInv' /\ MovedInv'
  BY <1>1, ImportersUntouched DEF dir
<1>8. TempsInv'
  BY <1>1, <1>4, <1>6 DEF IInv, TempsInv, TypeOK, dir
<1>9. QuietInv'
  <2> SUFFICES ASSUME NEW v \in Writers, disturbed'[v] = "no" PROVE Undisturbed(v)'
    BY DEF QuietInv
  <2>1. CASE v = w
    <3>1. temps \ {w} = temps
      BY <1>6
    <3> QED
      BY <1>1, <1>5, <2>1, <3>1 DEF Undisturbed, Checksum, Manifest, dir
  <2>2. CASE v # w
    BY <1>1, <1>4, <2>2 DEF IInv, QuietInv, Undisturbed, dir
  <2> QED
    BY <2>1, <2>2
<1>10. QuietWriteSticks'
  BY <1>1, <1>4, <1>5 DEF IInv, QuietWriteSticks, Checksum, dir
<1> QED
  BY <1>3, <1>7, <1>8, <1>9, <1>10 DEF IInv

LEMMA ReadPriorStep ==
    ASSUME IInv, NEW w \in Writers, ReadPrior(w) PROVE IInv'
<1> USE DEF ReadPrior, dir, importing
<1>1. TypeOK'
  BY DEF IInv, TypeOK, Active
<1>2. OwnerInv' /\ MovedInv'
  BY ImportersUntouched
<1>3. TempsInv'
  BY DEF IInv, TempsInv, TypeOK
<1>4. QuietInv'
  BY DEF IInv, QuietInv, Undisturbed, TypeOK
<1>5. QuietWriteSticks'
  BY DEF IInv, QuietWriteSticks, Checksum, TypeOK
<1> QED
  BY <1>1, <1>2, <1>3, <1>4, <1>5 DEF IInv

\* What a writer does to the pack is seen by every other writer.
LEMMA SeenByOthers ==
    ASSUME IInv, NEW w \in Writers, Disturb({w}), NEW l, write' = [write EXCEPT ![w] = l]
    PROVE  /\ disturbed' \in [Writers -> {"no", "early", "late"}]
           /\ disturbed'[w] = disturbed[w] /\ write'[w] = l
           /\ \A v \in Writers : v # w => write'[v] = write[v] /\ NothingToKeep(v)'
<1>1. \A v \in Writers :
        disturbed'[v] = IF v = w \/ write[v] \notin Watching THEN disturbed[v]
                        ELSE IF write[v] = "recheck" THEN "late" ELSE "early"
  BY DEF Disturb
<1>2. \A v \in Writers : disturbed[v] \in {"no", "early", "late"}
  BY DEF IInv, TypeOK
<1>3. disturbed' = [v \in Writers |-> disturbed'[v]]
  BY DEF Disturb
<1>4. disturbed' \in [Writers -> {"no", "early", "late"}]
  BY <1>1, <1>2, <1>3
<1>5. write'[w] = l /\ \A v \in Writers : v # w => write'[v] = write[v]
  BY DEF IInv, TypeOK
<1>6. \A v \in Writers : v # w => NothingToKeep(v)'
  BY <1>1, <1>5 DEF IInv, QuietWriteSticks, NothingToKeep, Watching
<1> QED
  BY <1>1, <1>4, <1>5, <1>6

\* The temporary file is the writer's own, and it leaves it out.
LEMMA CreateTempStep ==
    ASSUME IInv, NEW w \in Writers, CreateTemp(w) PROVE IInv'
<1> DEFINE l == IF write[w] = "write" THEN "writing" ELSE "restoring"
<1>1. /\ write[w] \in {"write", "restore"} /\ exists /\ temps' = temps \cup {w}
      /\ write' = [write EXCEPT ![w] = l] /\ Disturb({w})
      /\ UNCHANGED <<exists, content, mode, stored, importing, intended, before, prior, edits>>
  BY DEF CreateTemp
<1>2. /\ disturbed' \in [Writers -> {"no", "early", "late"}]
      /\ disturbed'[w] = disturbed[w] /\ write'[w] = l
      /\ \A v \in Writers : v # w => write'[v] = write[v] /\ NothingToKeep(v)'
  BY <1>1, SeenByOthers
<1>3. l \in {"writing", "restoring"} /\ (l = "writing" <=> write[w] = "write")
  OBVIOUS
<1> HIDE DEF l
<1>4. TypeOK'
  BY <1>1, <1>2, <1>3 DEF IInv, TypeOK, importing, Active
<1>5. OwnerInv' /\ MovedInv'
  BY <1>1, ImportersUntouched
<1>6. TempsInv'
  BY <1>1, <1>2, <1>3 DEF IInv, TempsInv, TypeOK
<1>7. QuietInv'
  <2> SUFFICES ASSUME disturbed'[w] = "no" PROVE Undisturbed(w)'
    BY <1>2 DEF QuietInv, NothingToKeep, Undisturbed, Watching
  <2>1. temps' \ {w} = temps \ {w}
    BY <1>1
  <2>2. Undisturbed(w)
    BY <1>2 DEF IInv, QuietInv
  <2> QED
    BY <1>1, <1>2, <1>3, <2>1, <2>2 DEF Undisturbed
<1>9. QuietWriteSticks'
  BY <1>1, <1>2, <1>3 DEF IInv, QuietWriteSticks, NothingToKeep, Watching
<1> QED
  BY <1>4, <1>5, <1>6, <1>7, <1>9 DEF IInv

LEMMA ReplaceStep ==
    ASSUME IInv, NEW w \in Writers, Replace(w) PROVE IInv'
<1> DEFINE l == IF write[w] = "writing" THEN "recheck" ELSE "restored"
<1>1. /\ write[w] \in {"writing", "restoring"} /\ temps' = temps \ {w}
      /\ stored' = IF write[w] = "writing" THEN intended[w] ELSE prior[w]
      /\ write' = [write EXCEPT ![w] = l] /\ Disturb({w})
      /\ UNCHANGED <<exists, content, mode, importing, intended, before, prior, edits>>
  BY DEF Replace, Withdrawn
<1>2. /\ disturbed' \in [Writers -> {"no", "early", "late"}]
      /\ disturbed'[w] = disturbed[w] /\ write'[w] = l
      /\ \A v \in Writers : v # w => write'[v] = write[v] /\ NothingToKeep(v)'
  BY <1>1, SeenByOthers
<1>3. l \in {"recheck", "restored"} /\ (l = "recheck" <=> write[w] = "writing")
  OBVIOUS
<1> HIDE DEF l
<1>4. TypeOK'
  BY <1>1, <1>2, <1>3 DEF IInv, TypeOK, importing, Active
<1>5. OwnerInv' /\ MovedInv'
  BY <1>1, ImportersUntouched
<1>6. TempsInv'
  BY <1>1, <1>2, <1>3 DEF IInv, TempsInv, TypeOK
<1>7. QuietInv'
  <2> SUFFICES ASSUME disturbed'[w] = "no" PROVE Undisturbed(w)'
    BY <1>2 DEF QuietInv, NothingToKeep, Undisturbed, Watching
  <2>1. temps' \ {w} = temps \ {w}
    BY <1>1
  <2>2. Undisturbed(w)
    BY <1>2 DEF IInv, QuietInv
  <2> QED
    BY <1>1, <1>2, <1>3, <2>1, <2>2 DEF Undisturbed
<1>9. QuietWriteSticks'
  <2>1. disturbed[w] = "no" => write[w] = "writing"
    BY <1>1 DEF IInv, QuietWriteSticks
  <2> QED
    BY <1>1, <1>2, <1>3, <2>1 DEF QuietWriteSticks, NothingToKeep, Watching
<1> QED
  BY <1>4, <1>5, <1>6, <1>7, <1>9 DEF IInv

\* The second snapshot of an undisturbed writer shows what it began with.
LEMMA RecheckStep ==
    ASSUME IInv, NEW w \in Writers, Recheck(w) PROVE IInv'
<1>1. /\ write[w] = "recheck"
      /\ \/ Verified(w) /\ write' = [write EXCEPT ![w] = "returned"]
         \/ (~Verified(w) \/ disturbed[w] = "late") /\ write' = [write EXCEPT ![w] = "restore"]
      /\ UNCHANGED <<dir, importing, intended, before, prior, edits, disturbed>>
  BY DEF Recheck
<1>2. write'[w] \in {"returned", "restore"} /\ \A v \in Writers : v # w => write'[v] = write[v]
  BY <1>1 DEF IInv, TypeOK
<1>3. TypeOK'
  BY <1>1 DEF IInv, TypeOK, dir, importing, Active
<1>4. OwnerInv' /\ MovedInv'
  BY <1>1, ImportersUntouched DEF dir
<1>5. TempsInv'
  BY <1>1, <1>2 DEF IInv, TempsInv, TypeOK, dir
<1>6. QuietInv'
  BY <1>1, <1>2 DEF IInv, QuietInv, Undisturbed, dir
<1>8. disturbed[w] = "no" => Verified(w)
  <2> SUFFICES ASSUME disturbed[w] = "no" PROVE Verified(w)
    OBVIOUS
  <2>1. Undisturbed(w) /\ w \notin temps
    BY <1>1 DEF IInv, QuietInv, TempsInv
  <2>2. temps \ {w} = temps
    BY <2>1
  <2> QED
    BY <1>1, <2>1, <2>2 DEF Undisturbed, Verified, Checksum, Manifest
<1>9. write'[w] = "returned" => stored = Checksum
  BY <1>1 DEF Verified, IInv, TypeOK
<1>10. disturbed[w] = "no" => write'[w] = "returned"
  BY <1>1, <1>8 DEF IInv, TypeOK
<1>11. QuietWriteSticks'
  BY <1>1, <1>2, <1>9, <1>10 DEF IInv, QuietWriteSticks, dir, Checksum
<1> QED
  BY <1>3, <1>4, <1>5, <1>6, <1>11 DEF IInv

LEMMA UnlinkStep ==
    ASSUME IInv, NEW w \in Writers, Unlink(w) PROVE IInv'
<1>1. /\ write[w] = "restore" /\ prior[w] = Absent /\ stored' = Absent
      /\ write' = [write EXCEPT ![w] = "restored"] /\ Disturb({w})
      /\ UNCHANGED <<exists, content, mode, temps, importing, intended, before, prior, edits>>
  BY DEF Unlink
<1>2. /\ disturbed' \in [Writers -> {"no", "early", "late"}]
      /\ disturbed'[w] = disturbed[w] /\ write'[w] = "restored"
      /\ \A v \in Writers : v # w => write'[v] = write[v] /\ NothingToKeep(v)'
  BY <1>1, SeenByOthers
<1>3. TypeOK'
  BY <1>1, <1>2 DEF IInv, TypeOK, importing, Active
<1>4. OwnerInv' /\ MovedInv'
  BY <1>1, ImportersUntouched
<1>5. TempsInv'
  BY <1>1, <1>2 DEF IInv, TempsInv, TypeOK
<1>6. disturbed'[w] # "no"
  BY <1>1, <1>2 DEF IInv, QuietWriteSticks
<1>7. QuietInv' /\ QuietWriteSticks'
  BY <1>2, <1>6 DEF QuietInv, Undisturbed, QuietWriteSticks, NothingToKeep, Watching
<1> QED
  BY <1>3, <1>4, <1>5, <1>7 DEF IInv

LEMMA WriterEndsStep ==
    ASSUME IInv, NEW w \in Writers, WriteRaises(w) \/ WriterDies(w) PROVE IInv'
<1> DEFINE l == IF WriteRaises(w) THEN "raised" ELSE "dead"
<1>1. /\ write[w] \in Active /\ write' = [write EXCEPT ![w] = l] /\ Forget(w)
      /\ UNCHANGED <<exists, content, mode, stored, importing, edits>>
  BY DEF WriteRaises, WriterDies, dir
<1>2. \/ temps' = temps /\ disturbed' = disturbed
      \/ w \in temps /\ temps' = temps \ {w} /\ Disturb({w})
  BY DEF WriteRaises, WriterDies, dir
<1>3. l \in {"raised", "dead"} /\ (l = "raised" => temps' = temps \ {w})
  BY DEF WriteRaises
<1> HIDE DEF l
<1>4. /\ write'[w] = l /\ \A v \in Writers : v # w => write'[v] = write[v]
  BY <1>1 DEF IInv, TypeOK
<1>5. /\ intended' \in [Writers -> Sums \cup {Absent}]
      /\ before' \in [Writers -> Manifests \cup {Absent}]
      /\ prior' \in [Writers -> Sums \cup {Absent}]
      /\ \A v \in Writers : v # w => intended'[v] = intended[v] /\ before'[v] = before[v]
  BY <1>1 DEF Forget, IInv, TypeOK
<1>6. OwnerInv' /\ MovedInv'
  BY <1>1, ImportersUntouched
<1>7. temps' \subseteq temps /\ TempsInv'
  BY <1>2, <1>3, <1>4 DEF IInv, TempsInv, TypeOK
<1>8. CASE temps' = temps /\ disturbed' = disturbed
  <2>1. TypeOK'
    BY <1>1, <1>3, <1>5, <1>8 DEF IInv, TypeOK, importing, Active
  <2>2. QuietInv'
    BY <1>1, <1>3, <1>4, <1>5, <1>8 DEF IInv, QuietInv, Undisturbed
  <2>3. QuietWriteSticks'
    BY <1>1, <1>3, <1>4, <1>8 DEF IInv, QuietWriteSticks, Checksum
  <2> QED
    BY <1>6, <1>7, <2>1, <2>2, <2>3 DEF IInv
<1>9. CASE w \in temps /\ temps' = temps \ {w} /\ Disturb({w})
  <2>1. /\ disturbed' \in [Writers -> {"no", "early", "late"}]
        /\ \A v \in Writers : v # w => NothingToKeep(v)'
    BY <1>1, <1>9, SeenByOthers
  <2>2. TypeOK'
    BY <1>1, <1>3, <1>5, <1>7, <2>1 DEF IInv, TypeOK, importing, Active
  <2>3. QuietInv' /\ QuietWriteSticks'
    BY <1>3, <1>4, <2>1 DEF QuietInv, Undisturbed, QuietWriteSticks, NothingToKeep, Watching
  <2> QED
    BY <1>6, <1>7, <2>2, <2>3 DEF IInv
<1> QED
  BY <1>2, <1>8, <1>9

-----------------------------------------------------------------------------

LEMMA NextIInv == IInv /\ [Next]_vars => IInv'
<1> SUFFICES ASSUME IInv, [Next]_vars PROVE IInv'
  OBVIOUS
<1>1. CASE UNCHANGED vars
  BY <1>1 DEF vars, dir, importing, writing, IInv, TypeOK, OwnerInv, MovedInv, Owner, TempsInv,
              QuietInv, Undisturbed, QuietWriteSticks, Checksum
<1>2. CASE Step
  BY <1>2, StageStep, ClaimStep, MoveStep, MoveFailsStep, EditStep, BeginStep, ReadPriorStep,
     CreateTempStep, ReplaceStep, RecheckStep, UnlinkStep, WriterEndsStep DEF Step
<1> QED
  BY <1>1, <1>2 DEF Next, Stopped

LEMMA Invariance == Spec => []IInv
  BY InitIInv, NextIInv, PTL DEF Spec

\* The state of the pack, its importers and its writers is well typed.
THEOREM AuthoringTypeCorrect == Spec => []TypeOK
<1>1. IInv => TypeOK
  BY DEF IInv
<1> QED
  BY <1>1, Invariance, PTL

\* _publish never mixes two imports, for any number of importers and whatever
\* fails between their renames, and a published pack is complete.
THEOREM PublicationNeverMixes == Spec => []OutputIsOneImport
<1>1. IInv => OutputIsOneImport
  BY DEF IInv, OwnerInv, MovedInv, Owner, OutputIsOneImport
<1> QED
  BY <1>1, Invariance, PTL

\* write_checksum does not disturb itself: left alone it never withdraws its
\* artifact, and what it returns is the checksum of the pack.
THEOREM QuietWriterSucceeds == Spec => []QuietWriteSticks
<1>1. IInv => QuietWriteSticks
  BY DEF IInv
<1> QED
  BY <1>1, Invariance, PTL

-----------------------------------------------------------------------------
(***************************************************************************)
(* Certification.  The proof follows a case through its executions: what   *)
(* has been asked of the suite at each step of certify_case, and what the  *)
(* counters of run_mutation_test count.                                    *)
(***************************************************************************)
Kinds == {"baseline", "reference", "mutant"}
CaseFacts == [executable : BOOLEAN, pytest : BOOLEAN, mutants : Nat]
Verdicts == [executable : BOOLEAN, baseline_fails : BOOLEAN, reference_passes : BOOLEAN,
             mutant_total : Nat, killed : Nat, deterministic : BOOLEAN]

CertifyTypeOK ==
    /\ runs \in Nat /\ intact \in BOOLEAN
    /\ case \in CaseFacts /\ cert \in Verdicts /\ finished \in Seq(Verdicts)
    /\ log \in [Kinds -> Seq(OnSolution)]
    /\ pc \in {"next", "baseline", "reference", "solution", "mutants", "repeat_baseline",
               "repeat_reference", "judged", "done", "raised"}

\* The results that show a failing test.
Genuine == IF case.pytest THEN {"failed"} ELSE {"failed", "error"}

\* Every execution of the kind so far gave a result of the set.
Always(kind, set) == \A n \in 1..Len(log[kind]) : log[kind][n] \in set

\* How often the suite has been run when the case is at a step.
ProgressInv ==
    /\ pc \in {"next", "baseline"} => \A kind \in Kinds : log[kind] = <<>>
    /\ pc = "reference" => Len(log["baseline"]) = 1 /\ log["reference"] = <<>>
    /\ pc \in {"solution", "mutants"} => Len(log["baseline"]) = 1 /\ Len(log["reference"]) = 1
    /\ pc \in {"next", "baseline", "reference", "solution"} => log["mutant"] = <<>>
    /\ pc \in {"next", "baseline", "reference", "solution", "mutants"} =>
         ~cert.baseline_fails /\ ~cert.reference_passes
    /\ cert.deterministic => pc \in {"judged", "raised"}

\* The counters of run_mutation_test.
CounterInv ==
    pc # "raised" =>
        /\ cert.killed = Count("mutant", Results \ {"passed", "skipped"})
        /\ cert.mutant_total = cert.killed + Count("mutant", {"passed"})

\* What the first verdicts and the repetitions rest on.
VerdictsInv ==
    /\ cert.baseline_fails => Len(log["baseline"]) >= 1 /\ log["baseline"][1] \in Genuine
    /\ cert.reference_passes => Len(log["reference"]) >= 1 /\ log["reference"][1] = "passed"
    /\ pc = "repeat_baseline" =>
         /\ runs >= 2 /\ Len(log["baseline"]) <= runs /\ Always("baseline", Genuine)
         /\ Len(log["reference"]) = 1 /\ Always("reference", {"passed"})
         /\ cert.baseline_fails
    /\ pc = "repeat_reference" =>
         /\ runs >= 2 /\ Len(log["baseline"]) = runs + 1 /\ Always("baseline", Genuine)
         /\ Len(log["reference"]) <= runs /\ Always("reference", {"passed"})
    /\ cert.deterministic =>
         /\ runs >= 2
         /\ Len(log["baseline"]) = runs + 1 /\ Always("baseline", Genuine)
         /\ Len(log["reference"]) = runs + 1 /\ Always("reference", {"passed"})

DoneInv == pc = "done" => intact /\ Len(finished) = NumCases

CertifyInv == CertifyTypeOK /\ ProgressInv /\ CounterInv /\ VerdictsInv /\ DoneInv

-----------------------------------------------------------------------------
(* The operators. *)

\* One more execution in a log.
LEMMA AppendFact ==
    ASSUME NEW T, NEW s \in Seq(T), NEW e \in T
    PROVE  /\ Append(s, e) \in Seq(T)
           /\ Len(s) \in Nat /\ Len(Append(s, e)) = Len(s) + 1
           /\ \A n \in 1..Len(s) : Append(s, e)[n] = s[n]
           /\ Append(s, e)[Len(s) + 1] = e
OBVIOUS

Hits(q, set) == {n \in 1..Len(q) : q[n] \in set}

\* Counting goes up by one with a result of the set, and not with another.
LEMMA CountAppend ==
    ASSUME NEW T, NEW s \in Seq(T), NEW e \in T, NEW set
    PROVE  /\ IsFiniteSet(Hits(s, set)) /\ Cardinality(Hits(s, set)) \in Nat
           /\ Cardinality(Hits(Append(s, e), set)) =
                IF e \in set THEN Cardinality(Hits(s, set)) + 1 ELSE Cardinality(Hits(s, set))
<1>1. /\ Len(s) \in Nat /\ Len(Append(s, e)) = Len(s) + 1
      /\ \A n \in 1..Len(s) : Append(s, e)[n] = s[n]
      /\ Append(s, e)[Len(s) + 1] = e
  BY AppendFact
<1>2. IsFiniteSet(1..Len(s))
  BY <1>1, FS_Interval
<1>3. IsFiniteSet(Hits(s, set)) /\ Cardinality(Hits(s, set)) \in Nat
  <2>1. Hits(s, set) \in SUBSET (1..Len(s))
    BY DEF Hits
  <2> QED
    BY <1>2, <2>1, FS_Subset, FS_CardinalityType
<1>4. Len(s) + 1 \notin Hits(s, set)
  BY <1>1 DEF Hits
<1>5. CASE e \in set
  <2>1. Hits(Append(s, e), set) = Hits(s, set) \cup {Len(s) + 1}
    BY <1>1, <1>5 DEF Hits
  <2> QED
    BY <1>3, <1>4, <1>5, <2>1, FS_AddElement
<1>6. CASE e \notin set
  <2>1. Hits(Append(s, e), set) = Hits(s, set)
    BY <1>1, <1>6 DEF Hits
  <2> QED
    BY <1>3, <1>6, <2>1
<1> QED
  BY <1>3, <1>5, <1>6

\* The ladder.
LEMMA RankFact ==
    Rank("draft") = 1 /\ Rank("development") = 2 /\ Rank("certified") = 3 /\ Rank("verified") = 4
<1>1. Len(Levels) = 4
  BY DEF Levels
<1>2. Levels[1] = "draft" /\ Levels[2] = "development" /\ Levels[3] = "certified" /\ Levels[4] = "verified"
  BY DEF Levels
<1>3. \A n \in 1..4 : n = 1 \/ n = 2 \/ n = 3 \/ n = 4
  OBVIOUS
<1> HIDE DEF Levels
<1> QED
  BY <1>1, <1>2, <1>3 DEF Rank

\* Nothing was counted, nothing is.
LEMMA EmptyCount == ASSUME log["mutant"] = <<>> PROVE \A set : Count("mutant", set) = 0
<1>1. DOMAIN log["mutant"] = {}
  OBVIOUS
<1> QED
  BY <1>1, FS_EmptySet DEF Count

LEMMA SameCount ==
    ASSUME log'["mutant"] = log["mutant"]
    PROVE  \A set : Count("mutant", set)' = Count("mutant", set)
  BY DEF Count

LEMMA CountIs ==
    ASSUME CertifyTypeOK, NEW kind \in Kinds, NEW set
    PROVE  Count(kind, set) = Cardinality(Hits(log[kind], set)) /\ Count(kind, set) \in Nat
<1>1. log[kind] \in Seq(OnSolution)
  BY DEF CertifyTypeOK
<1>2. DOMAIN log[kind] = 1..Len(log[kind])
  BY <1>1
<1>3. Count(kind, set) = Cardinality(Hits(log[kind], set))
  BY <1>2 DEF Count, Hits
<1>4. "passed" \in OnSolution
  BY DEF OnSolution, Results
<1> QED
  BY <1>1, <1>3, <1>4, CountAppend

\* What an execution does to the log.
LEMMA RanFact ==
    ASSUME CertifyTypeOK, NEW kind \in Kinds, NEW result \in OnSolution, Ran(kind, result)
    PROVE  /\ log' \in [Kinds -> Seq(OnSolution)]
           /\ \A k \in Kinds \ {kind} : log'[k] = log[k]
           /\ Len(log[kind]) \in Nat /\ Len(log'[kind]) = Len(log[kind]) + 1
           /\ \A n \in 1..Len(log[kind]) : log'[kind][n] = log[kind][n]
           /\ log'[kind][Len(log[kind]) + 1] = result
           /\ log'[kind] = Append(log[kind], result)
<1>1. log \in [Kinds -> Seq(OnSolution)] /\ log' = [log EXCEPT ![kind] = Append(log[kind], result)]
  BY DEF CertifyTypeOK, Ran
<1>2. log[kind] \in Seq(OnSolution)
  BY <1>1
<1>3. /\ Append(log[kind], result) \in Seq(OnSolution)
      /\ Len(log[kind]) \in Nat /\ Len(Append(log[kind], result)) = Len(log[kind]) + 1
      /\ \A n \in 1..Len(log[kind]) : Append(log[kind], result)[n] = log[kind][n]
      /\ Append(log[kind], result)[Len(log[kind]) + 1] = result
  BY <1>2, AppendFact
<1>4. log'[kind] = Append(log[kind], result) /\ \A k \in Kinds \ {kind} : log'[k] = log[k]
  BY <1>1
<1>5. log' \in [Kinds -> Seq(OnSolution)]
  BY <1>1, <1>3
<1> QED
  BY <1>3, <1>4, <1>5

\* One more result of the set keeps a log in it.
LEMMA AlwaysGrows ==
    ASSUME CertifyTypeOK, NEW kind \in Kinds, NEW result \in OnSolution, Ran(kind, result),
           NEW set, Always(kind, set), result \in set
    PROVE  \A n \in 1..Len(log'[kind]) : log'[kind][n] \in set
<1>1. /\ Len(log[kind]) \in Nat /\ Len(log'[kind]) = Len(log[kind]) + 1
      /\ \A n \in 1..Len(log[kind]) : log'[kind][n] = log[kind][n]
      /\ log'[kind][Len(log[kind]) + 1] = result
  BY RanFact
<1> SUFFICES ASSUME NEW n \in 1..Len(log'[kind]) PROVE log'[kind][n] \in set
  OBVIOUS
<1>2. n \in 1..Len(log[kind]) \/ n = Len(log[kind]) + 1
  BY <1>1
<1> QED
  BY <1>1, <1>2 DEF Always

\* A case that has not been run yet has earned nothing.
LEMMA FreshCase ==
    ASSUME log = NoLog, ~cert.baseline_fails, ~cert.reference_passes, ~cert.deterministic,
           cert.killed = 0, cert.mutant_total = 0, pc \in {"next", "baseline", "judged"}
    PROVE  ProgressInv /\ CounterInv /\ VerdictsInv /\ DoneInv
<1>1. \A kind \in Kinds : log[kind] = <<>>
  BY DEF NoLog, Kinds
<1>2. \A set : Count("mutant", set) = 0
  BY <1>1, EmptyCount DEF Kinds
<1>3. ProgressInv
  BY <1>1 DEF ProgressInv, Kinds
<1>4. CounterInv
  BY <1>2 DEF CounterInv
<1> QED
  BY <1>3, <1>4 DEF VerdictsInv, DoneInv

LEMMA DraftFact ==
    /\ Draft \in Verdicts /\ NoCase \in CaseFacts /\ NoLog \in [Kinds -> Seq(OnSolution)]
    /\ ~Draft.baseline_fails /\ ~Draft.reference_passes /\ ~Draft.deterministic
    /\ Draft.killed = 0 /\ Draft.mutant_total = 0
<1>1. NoLog \in [Kinds -> Seq(OnSolution)]
  BY DEF NoLog, Kinds
<1> QED
  BY <1>1 DEF Draft, Verdicts, NoCase, CaseFacts

LEMMA CertifyStart == CertifyInit => CertifyInv
<1> SUFFICES ASSUME CertifyInit PROVE CertifyInv
  OBVIOUS
<1>1. CertifyTypeOK
  BY DraftFact, CertificationAssumption DEF CertifyInit, CertifyTypeOK, CertificationAssumption
<1>2. ProgressInv /\ CounterInv /\ VerdictsInv /\ DoneInv
  BY DraftFact, FreshCase DEF CertifyInit
<1> QED
  BY <1>1, <1>2 DEF CertifyInv

LEMMA StartCaseStep == ASSUME CertifyInv, StartCase PROVE CertifyInv'
<1>1. PICK c \in [executable : BOOLEAN, pytest : BOOLEAN, mutants : 0..MaxMutants] :
        /\ case' = c
        /\ pc' = IF c.executable THEN "baseline" ELSE "judged"
        /\ cert' = [Draft EXCEPT !.executable = c.executable]
  BY DEF StartCase
<1>2. log' = NoLog /\ UNCHANGED <<runs, finished, intact>>
  BY DEF StartCase
<1>3. /\ cert' \in Verdicts
      /\ ~cert'.baseline_fails /\ ~cert'.reference_passes /\ ~cert'.deterministic
      /\ cert'.killed = 0 /\ cert'.mutant_total = 0
  BY <1>1 DEF Draft, Verdicts
<1>4. case' \in CaseFacts
  BY <1>1, CertificationAssumption DEF CertificationAssumption, CaseFacts
<1>5. CertifyTypeOK'
  BY <1>1, <1>2, <1>3, <1>4, DraftFact DEF CertifyInv, CertifyTypeOK
<1>6. \A kind \in Kinds : log'[kind] = <<>>
  BY <1>2 DEF NoLog, Kinds
<1>7. \A set : Count("mutant", set)' = 0
  <2>1. DOMAIN log'["mutant"] = {}
    BY <1>6 DEF Kinds
  <2> QED
    BY <2>1, FS_EmptySet DEF Count
<1>8. ProgressInv'
  BY <1>1, <1>3, <1>6 DEF ProgressInv, Kinds
<1>9. CounterInv'
  BY <1>3, <1>7 DEF CounterInv
<1>10. VerdictsInv' /\ DoneInv'
  BY <1>1, <1>3 DEF VerdictsInv, DoneInv
<1> QED
  BY <1>5, <1>8, <1>9, <1>10 DEF CertifyInv

LEMMA NextCaseStep == ASSUME CertifyInv, NextCase PROVE CertifyInv'
<1>1. /\ pc = "judged" /\ pc' = "next" /\ finished' = Append(finished, cert) /\ case' = NoCase
      /\ log' = NoLog /\ cert' = Draft /\ UNCHANGED <<runs, intact>>
  BY DEF NextCase
<1>2. CertifyTypeOK'
  BY <1>1, DraftFact DEF CertifyInv, CertifyTypeOK
<1>3. \A kind \in Kinds : log'[kind] = <<>>
  BY <1>1 DEF NoLog, Kinds
<1>4. \A set : Count("mutant", set)' = 0
  <2>1. DOMAIN log'["mutant"] = {}
    BY <1>3 DEF Kinds
  <2> QED
    BY <2>1, FS_EmptySet DEF Count
<1>5. ProgressInv'
  BY <1>1, <1>3, DraftFact DEF ProgressInv, Kinds
<1>6. CounterInv'
  BY <1>1, <1>4, DraftFact DEF CounterInv
<1>7. VerdictsInv' /\ DoneInv'
  BY <1>1, DraftFact DEF VerdictsInv, DoneInv
<1> QED
  BY <1>2, <1>5, <1>6, <1>7 DEF CertifyInv

LEMMA BaselineStep ==
    ASSUME CertifyInv, NEW result \in Results, Baseline(result) PROVE CertifyInv'
<1>1. /\ pc = "baseline" /\ pc' = IF result = "skipped" THEN "judged" ELSE "reference"
      /\ Ran("baseline", result) /\ UNCHANGED <<runs, case, cert, finished, intact>>
  BY DEF Baseline
<1>2. "baseline" \in Kinds /\ "reference" \in Kinds /\ "mutant" \in Kinds /\ result \in OnSolution
  BY DEF Kinds, OnSolution
<1>3. /\ log' \in [Kinds -> Seq(OnSolution)] /\ log'["mutant"] = log["mutant"]
      /\ log'["reference"] = log["reference"] /\ Len(log'["baseline"]) = Len(log["baseline"]) + 1
  BY <1>1, <1>2, RanFact DEF CertifyInv
<1>4. CertifyTypeOK'
  BY <1>1, <1>3 DEF CertifyInv, CertifyTypeOK
<1>5. /\ Len(log["baseline"]) = 0 /\ log["reference"] = <<>> /\ log["mutant"] = <<>>
      /\ ~cert.baseline_fails /\ ~cert.reference_passes /\ ~cert.deterministic
  BY <1>1, <1>2 DEF CertifyInv, ProgressInv
<1>6. ProgressInv'
  BY <1>1, <1>3, <1>5 DEF ProgressInv
<1>7. CounterInv'
  BY <1>1, <1>3, SameCount DEF CertifyInv, CounterInv
<1>8. VerdictsInv' /\ DoneInv'
  BY <1>1, <1>5 DEF VerdictsInv, DoneInv
<1> QED
  BY <1>4, <1>6, <1>7, <1>8 DEF CertifyInv

LEMMA ReferenceStep ==
    ASSUME CertifyInv, NEW result \in OnSolution, Reference(result) PROVE CertifyInv'
<1>1. /\ pc = "reference" /\ pc' = "solution"
      /\ Ran("reference", result) /\ UNCHANGED <<runs, case, cert, finished, intact>>
  BY DEF Reference
<1>2. "baseline" \in Kinds /\ "reference" \in Kinds /\ "mutant" \in Kinds
  BY DEF Kinds
<1>3. /\ log' \in [Kinds -> Seq(OnSolution)] /\ log'["mutant"] = log["mutant"]
      /\ log'["baseline"] = log["baseline"] /\ Len(log'["reference"]) = Len(log["reference"]) + 1
  BY <1>1, <1>2, RanFact DEF CertifyInv
<1>4. CertifyTypeOK'
  BY <1>1, <1>3 DEF CertifyInv, CertifyTypeOK
<1>5. /\ Len(log["baseline"]) = 1 /\ Len(log["reference"]) = 0 /\ log["mutant"] = <<>>
      /\ ~cert.baseline_fails /\ ~cert.reference_passes /\ ~cert.deterministic
  BY <1>1 DEF CertifyInv, ProgressInv
<1>6. ProgressInv'
  BY <1>1, <1>3, <1>5 DEF ProgressInv
<1>7. CounterInv'
  BY <1>1, <1>3, SameCount DEF CertifyInv, CounterInv
<1>8. VerdictsInv' /\ DoneInv'
  BY <1>1, <1>5 DEF VerdictsInv, DoneInv
<1> QED
  BY <1>4, <1>6, <1>7, <1>8 DEF CertifyInv

LEMMA SolutionStep ==
    ASSUME CertifyInv, NEW built \in BOOLEAN, Solution(built) PROVE CertifyInv'
<1>1. /\ pc = "solution" /\ pc' = "mutants" /\ UNCHANGED <<runs, log, cert, finished, intact>>
      /\ case' = IF built THEN case ELSE [case EXCEPT !.mutants = 0]
  BY DEF Solution
<1>2. case' \in CaseFacts
  BY <1>1 DEF CertifyInv, CertifyTypeOK, CaseFacts
<1>3. CertifyTypeOK'
  BY <1>1, <1>2 DEF CertifyInv, CertifyTypeOK
<1>4. ProgressInv'
  BY <1>1 DEF CertifyInv, ProgressInv
<1>5. CounterInv'
  BY <1>1, SameCount DEF CertifyInv, CounterInv
<1>6. ~cert.baseline_fails /\ ~cert.reference_passes /\ ~cert.deterministic
  BY <1>1 DEF CertifyInv, ProgressInv
<1>7. VerdictsInv' /\ DoneInv'
  BY <1>1, <1>6 DEF VerdictsInv, DoneInv
<1> QED
  BY <1>3, <1>4, <1>5, <1>7 DEF CertifyInv

LEMMA CountersFit ==
    ASSUME NEW c \in Verdicts, NEW a \in Nat, NEW b \in Nat
    PROVE  [c EXCEPT !.mutant_total = a, !.killed = b] \in Verdicts
  BY DEF Verdicts

\* A mutant that was executed is counted, and as killed unless the tests passed.
LEMMA MutantStep ==
    ASSUME CertifyInv, NEW result \in Results, Mutant(result) PROVE CertifyInv'
<1>1. /\ pc = "mutants" /\ Ran("mutant", result) /\ UNCHANGED <<runs, pc, case, finished, intact>>
      /\ cert' = IF result = "skipped" THEN cert
                 ELSE [cert EXCEPT !.mutant_total = @ + 1,
                                   !.killed = IF result = "passed" THEN @ ELSE @ + 1]
  BY DEF Mutant
<1>2. "baseline" \in Kinds /\ "reference" \in Kinds /\ "mutant" \in Kinds /\ result \in OnSolution
  BY DEF Kinds, OnSolution
<1>3. /\ log' \in [Kinds -> Seq(OnSolution)] /\ log'["baseline"] = log["baseline"]
      /\ log'["reference"] = log["reference"] /\ log'["mutant"] = Append(log["mutant"], result)
  BY <1>1, <1>2, RanFact DEF CertifyInv
<1>4. cert \in Verdicts /\ cert.killed \in Nat /\ cert.mutant_total \in Nat
  BY DEF CertifyInv, CertifyTypeOK, Verdicts
<1>5. /\ cert' \in Verdicts
      /\ cert'.baseline_fails = cert.baseline_fails
      /\ cert'.reference_passes = cert.reference_passes
      /\ cert'.deterministic = cert.deterministic
      /\ cert'.mutant_total = IF result = "skipped" THEN cert.mutant_total ELSE cert.mutant_total + 1
      /\ cert'.killed = IF result \in {"skipped", "passed"} THEN cert.killed ELSE cert.killed + 1
  <2>1. CASE result = "skipped"
    BY <1>1, <1>4, <2>1
  <2>2. CASE result = "passed"
    <3>1. cert' = [cert EXCEPT !.mutant_total = cert.mutant_total + 1, !.killed = cert.killed]
      BY <1>1, <2>2
    <3>2. /\ cert'.baseline_fails = cert.baseline_fails
          /\ cert'.reference_passes = cert.reference_passes
          /\ cert'.deterministic = cert.deterministic
          /\ cert'.mutant_total = cert.mutant_total + 1
          /\ cert'.killed = cert.killed
      BY <1>4, <3>1 DEF Verdicts
    <3>3. cert.mutant_total + 1 \in Nat /\ cert.killed \in Nat
      BY <1>4
    <3>4. cert' \in Verdicts
      BY <1>4, <3>1, <3>3, CountersFit
    <3> QED
      BY <2>2, <3>2, <3>4
  <2>3. CASE result \notin {"skipped", "passed"}
    <3>1. cert' = [cert EXCEPT !.mutant_total = cert.mutant_total + 1, !.killed = cert.killed + 1]
      BY <1>1, <2>3
    <3>2. /\ cert'.baseline_fails = cert.baseline_fails
          /\ cert'.reference_passes = cert.reference_passes
          /\ cert'.deterministic = cert.deterministic
          /\ cert'.mutant_total = cert.mutant_total + 1
          /\ cert'.killed = cert.killed + 1
      BY <1>4, <3>1 DEF Verdicts
    <3>3. cert.mutant_total + 1 \in Nat /\ cert.killed + 1 \in Nat
      BY <1>4
    <3>4. cert' \in Verdicts
      BY <1>4, <3>1, <3>3, CountersFit
    <3> QED
      BY <2>3, <3>2, <3>4
  <2> QED
    BY <2>1, <2>2, <2>3
<1>6. CertifyTypeOK'
  BY <1>1, <1>3, <1>5 DEF CertifyInv, CertifyTypeOK
<1>7. ~cert.baseline_fails /\ ~cert.reference_passes /\ ~cert.deterministic
  BY <1>1 DEF CertifyInv, ProgressInv
<1>8. ProgressInv'
  BY <1>1, <1>3, <1>5, <1>7 DEF CertifyInv, ProgressInv
<1>9. ASSUME NEW set
      PROVE  /\ Count("mutant", set) \in Nat
             /\ Count("mutant", set)' = IF result \in set THEN Count("mutant", set) + 1
                                        ELSE Count("mutant", set)
  <2>1. log["mutant"] \in Seq(OnSolution) /\ log'["mutant"] \in Seq(OnSolution)
    BY <1>2, <1>3 DEF CertifyInv, CertifyTypeOK
  <2>2. Count("mutant", set) = Cardinality(Hits(log["mutant"], set))
    BY <1>2, CountIs DEF CertifyInv
  <2>3. DOMAIN log'["mutant"] = 1..Len(log'["mutant"])
    BY <2>1
  <2>4. Count("mutant", set)' = Cardinality(Hits(log'["mutant"], set))
    BY <2>3 DEF Count, Hits
  <2>5. /\ Cardinality(Hits(log["mutant"], set)) \in Nat
        /\ Cardinality(Hits(Append(log["mutant"], result), set)) =
             IF result \in set THEN Cardinality(Hits(log["mutant"], set)) + 1
             ELSE Cardinality(Hits(log["mutant"], set))
    BY <1>2, <2>1, CountAppend
  <2> QED
    BY <1>3, <2>2, <2>4, <2>5
<1>10. CounterInv'
  <2>1. /\ cert.killed = Count("mutant", Results \ {"passed", "skipped"})
        /\ cert.mutant_total = cert.killed + Count("mutant", {"passed"})
    BY <1>1 DEF CertifyInv, CounterInv
  <2>2. /\ Count("mutant", Results \ {"passed", "skipped"})' = cert'.killed
        /\ Count("mutant", {"passed"})' =
             IF result = "passed" THEN Count("mutant", {"passed"}) + 1 ELSE Count("mutant", {"passed"})
        /\ Count("mutant", {"passed"}) \in Nat
    BY <1>5, <1>9, <2>1
  <2> QED
    BY <1>4, <1>5, <2>1, <2>2 DEF CounterInv
<1>11. VerdictsInv' /\ DoneInv'
  BY <1>1, <1>5, <1>7 DEF VerdictsInv, DoneInv
<1> QED
  BY <1>6, <1>8, <1>10, <1>11 DEF CertifyInv

LEMMA GatesFit ==
    ASSUME NEW c \in Verdicts, NEW a \in BOOLEAN, NEW b \in BOOLEAN
    PROVE  [c EXCEPT !.baseline_fails = a, !.reference_passes = b] \in Verdicts
  BY DEF Verdicts

LEMMA CertifyStep == ASSUME CertifyInv, Certify PROVE CertifyInv'
<1> DEFINE a == BaselineFails(log["baseline"][1])
           b == ReferencePasses(log["reference"][1])
<1>1. /\ pc = "mutants" /\ cert' = [cert EXCEPT !.baseline_fails = a, !.reference_passes = b]
      /\ pc' = IF Certified(cert') /\ runs >= 2 THEN "repeat_baseline" ELSE "judged"
      /\ UNCHANGED <<runs, case, log, finished, intact>>
  BY DEF Certify
<1>2. /\ a \in BOOLEAN /\ b \in BOOLEAN
      /\ a <=> log["baseline"][1] \in Genuine
      /\ b <=> log["reference"][1] = "passed"
  BY DEF BaselineFails, ReferencePasses, Genuine
<1> HIDE DEF a, b
<1>3. /\ cert' \in Verdicts /\ cert'.baseline_fails = a /\ cert'.reference_passes = b
      /\ cert'.deterministic = cert.deterministic
      /\ cert'.killed = cert.killed /\ cert'.mutant_total = cert.mutant_total
  <2>1. cert \in Verdicts
    BY DEF CertifyInv, CertifyTypeOK
  <2>2. /\ cert'.baseline_fails = a /\ cert'.reference_passes = b
        /\ cert'.deterministic = cert.deterministic
        /\ cert'.killed = cert.killed /\ cert'.mutant_total = cert.mutant_total
    BY <1>1, <2>1 DEF Verdicts
  <2>3. [cert EXCEPT !.baseline_fails = a, !.reference_passes = b] \in Verdicts
    BY <1>2, <2>1, GatesFit
  <2> QED
    BY <1>1, <2>2, <2>3
<1>4. CertifyTypeOK'
  BY <1>1, <1>3 DEF CertifyInv, CertifyTypeOK
<1>5. Len(log["baseline"]) = 1 /\ Len(log["reference"]) = 1 /\ ~cert.deterministic
  BY <1>1 DEF CertifyInv, ProgressInv
<1>6. ProgressInv'
  BY <1>1, <1>3, <1>5 DEF ProgressInv
<1>7. CounterInv'
  BY <1>1, <1>3, SameCount DEF CertifyInv, CounterInv
<1>8. VerdictsInv'
  <2>1. Genuine' = Genuine
    BY <1>1 DEF Genuine
  <2>2. 1..1 = {1}
    OBVIOUS
  <2>3. pc' = "repeat_baseline" => runs >= 2 /\ a /\ b
    BY <1>1, <1>3 DEF Certified
  <2>4. pc' = "repeat_baseline" => Always("baseline", Genuine)' /\ Always("reference", {"passed"})'
    BY <1>1, <1>2, <1>5, <2>1, <2>2, <2>3 DEF Always
  <2>5. runs \in Nat
    BY DEF CertifyInv, CertifyTypeOK
  <2>6. pc' # "repeat_reference" /\ 1 >= 1
    BY <1>1
  <2>7. pc' = "repeat_baseline" => Len(log'["baseline"]) <= runs
    BY <1>1, <1>5, <2>3, <2>5
  <2> QED
    BY <1>1, <1>2, <1>3, <1>5, <2>1, <2>3, <2>4, <2>6, <2>7 DEF VerdictsInv
<1>9. DoneInv'
  BY <1>1 DEF DoneInv
<1> QED
  BY <1>4, <1>6, <1>7, <1>8, <1>9 DEF CertifyInv

LEMMA RepeatBaselineStep ==
    ASSUME CertifyInv, NEW result \in Results, RepeatBaseline(result) PROVE CertifyInv'
<1>1. /\ pc = "repeat_baseline" /\ Ran("baseline", result)
      /\ pc' = IF ~BaselineFails(result) THEN "judged"
               ELSE IF Len(log["baseline"]) = runs THEN "repeat_reference" ELSE pc
      /\ UNCHANGED <<runs, case, cert, finished, intact>>
  BY DEF RepeatBaseline
<1>2. "baseline" \in Kinds /\ "reference" \in Kinds /\ "mutant" \in Kinds /\ result \in OnSolution
  BY DEF Kinds, OnSolution
<1>3. /\ log' \in [Kinds -> Seq(OnSolution)] /\ log'["mutant"] = log["mutant"]
      /\ log'["reference"] = log["reference"] /\ Len(log["baseline"]) \in Nat
      /\ Len(log'["baseline"]) = Len(log["baseline"]) + 1
      /\ \A n \in 1..Len(log["baseline"]) : log'["baseline"][n] = log["baseline"][n]
  BY <1>1, <1>2, RanFact DEF CertifyInv
<1>4. CertifyTypeOK'
  BY <1>1, <1>3 DEF CertifyInv, CertifyTypeOK
<1>5. /\ runs \in Nat /\ runs >= 2 /\ Len(log["baseline"]) <= runs /\ Always("baseline", Genuine)
      /\ Len(log["reference"]) = 1 /\ Always("reference", {"passed"}) /\ cert.baseline_fails
      /\ Len(log["baseline"]) >= 1 /\ log["baseline"][1] \in Genuine
  BY <1>1 DEF CertifyInv, CertifyTypeOK, VerdictsInv
<1>6. ~cert.deterministic
  BY <1>1 DEF CertifyInv, ProgressInv
<1>7. ProgressInv'
  BY <1>1, <1>6 DEF ProgressInv
<1>8. CounterInv'
  BY <1>1, <1>3, SameCount DEF CertifyInv, CounterInv
<1>9. VerdictsInv'
  <2>1. Genuine' = Genuine
    BY <1>1 DEF Genuine
  <2>2. log'["baseline"][1] \in Genuine
    BY <1>3, <1>5
  <2>3. pc' # "judged" => Always("baseline", Genuine)'
    <3>1. BaselineFails(result) => result \in Genuine
      BY DEF BaselineFails, Genuine
    <3>2. result \in Genuine => \A n \in 1..Len(log'["baseline"]) : log'["baseline"][n] \in Genuine
      BY <1>1, <1>2, <1>5, AlwaysGrows DEF CertifyInv
    <3> QED
      BY <1>1, <2>1, <3>1, <3>2 DEF Always
  <2>4. Always("reference", {"passed"})'
    BY <1>3, <1>5 DEF Always
  <2>5. /\ pc' = "repeat_baseline" => Len(log'["baseline"]) <= runs
        /\ pc' = "repeat_reference" => Len(log'["baseline"]) = runs + 1
        /\ Len(log'["reference"]) = 1 /\ Len(log'["reference"]) <= runs
        /\ Len(log'["baseline"]) >= 1
    BY <1>1, <1>3, <1>5
  <2>6. cert'.reference_passes => Len(log'["reference"]) >= 1 /\ log'["reference"][1] = "passed"
    BY <1>1, <1>3 DEF CertifyInv, VerdictsInv
  <2> QED
    BY <1>1, <1>5, <1>6, <2>1, <2>2, <2>3, <2>4, <2>5, <2>6 DEF VerdictsInv
<1>10. DoneInv'
  BY <1>1 DEF DoneInv
<1> QED
  BY <1>4, <1>7, <1>8, <1>9, <1>10 DEF CertifyInv

LEMMA RepeatReferenceStep ==
    ASSUME CertifyInv, NEW result \in OnSolution, RepeatReference(result) PROVE CertifyInv'
<1> DEFINE x == ReferencePasses(result) /\ Settled
<1>1. /\ pc = "repeat_reference" /\ Ran("reference", result)
      /\ pc' = IF ~ReferencePasses(result) \/ Settled THEN "judged" ELSE pc
      /\ cert' = [cert EXCEPT !.deterministic = x]
      /\ UNCHANGED <<runs, case, finished, intact>>
  BY DEF RepeatReference
<1>2. "baseline" \in Kinds /\ "reference" \in Kinds /\ "mutant" \in Kinds
  BY DEF Kinds
<1>3. /\ log' \in [Kinds -> Seq(OnSolution)] /\ log'["mutant"] = log["mutant"]
      /\ log'["baseline"] = log["baseline"] /\ Len(log["reference"]) \in Nat
      /\ Len(log'["reference"]) = Len(log["reference"]) + 1
      /\ \A n \in 1..Len(log["reference"]) : log'["reference"][n] = log["reference"][n]
  BY <1>1, <1>2, RanFact DEF CertifyInv
<1>4. /\ x \in BOOLEAN
      /\ x <=> result = "passed" /\ Len(log["reference"]) = runs
  BY DEF ReferencePasses, Settled
<1> HIDE DEF x
<1>5. /\ cert' \in Verdicts /\ cert'.deterministic = x
      /\ cert'.baseline_fails = cert.baseline_fails
      /\ cert'.reference_passes = cert.reference_passes
      /\ cert'.killed = cert.killed /\ cert'.mutant_total = cert.mutant_total
  BY <1>1, <1>4 DEF CertifyInv, CertifyTypeOK, Verdicts
<1>6. CertifyTypeOK'
  BY <1>1, <1>3, <1>5 DEF CertifyInv, CertifyTypeOK
<1>7. /\ runs \in Nat /\ runs >= 2 /\ Len(log["baseline"]) = runs + 1 /\ Always("baseline", Genuine)
      /\ Len(log["reference"]) <= runs /\ Always("reference", {"passed"})
  BY <1>1 DEF CertifyInv, CertifyTypeOK, VerdictsInv
<1>8. pc' \in {"judged", "repeat_reference"} /\ (x => pc' = "judged")
      /\ (pc' = "repeat_reference" => result = "passed" /\ Len(log["reference"]) # runs)
  BY <1>1, <1>4 DEF ReferencePasses, Settled
<1>9. ProgressInv'
  BY <1>5, <1>8 DEF ProgressInv
<1>10. CounterInv'
  BY <1>1, <1>3, <1>5, SameCount DEF CertifyInv, CounterInv
<1>11. VerdictsInv'
  <2>1. Genuine' = Genuine
    BY <1>1 DEF Genuine
  <2>2. Always("baseline", Genuine)'
    BY <1>3, <1>7, <2>1 DEF Always
  <2>3. result = "passed" => Always("reference", {"passed"})'
    <3>1. result = "passed" => \A n \in 1..Len(log'["reference"]) : log'["reference"][n] \in {"passed"}
      BY <1>1, <1>2, <1>7, AlwaysGrows DEF CertifyInv
    <3> QED
      BY <3>1 DEF Always
  <2>4. /\ pc' = "repeat_reference" => Len(log'["reference"]) <= runs
        /\ x => Len(log'["reference"]) = runs + 1
    BY <1>3, <1>4, <1>7, <1>8
  <2>5. cert'.reference_passes => Len(log'["reference"]) >= 1 /\ log'["reference"][1] = "passed"
    <3>1. cert.reference_passes => Len(log["reference"]) >= 1 /\ log["reference"][1] = "passed"
      BY DEF CertifyInv, VerdictsInv
    <3> QED
      BY <1>3, <1>5, <3>1
  <2>6. cert'.baseline_fails => Len(log'["baseline"]) >= 1 /\ log'["baseline"][1] \in Genuine
    BY <1>3, <1>5 DEF CertifyInv, VerdictsInv
  <2>7. pc' # "repeat_baseline"
    BY <1>8
  <2> QED
    BY <1>1, <1>3, <1>4, <1>5, <1>7, <1>8, <2>1, <2>2, <2>3, <2>4, <2>5, <2>6, <2>7 DEF VerdictsInv
<1>12. DoneInv'
  BY <1>8 DEF DoneInv
<1> QED
  BY <1>6, <1>9, <1>10, <1>11, <1>12 DEF CertifyInv

\* The steps of certify_pack, and those of nobody.
LEMMA PackStep ==
    ASSUME CertifyInv, Verify \/ Raise \/ Drift \/ CertifyOver \/ UNCHANGED certifyVars
    PROVE  CertifyInv'
<1>1. UNCHANGED <<runs, case, log, cert, finished>>
  BY DEF Verify, Raise, Drift, CertifyOver, certifyVars
<1>2. /\ pc' = pc \/ pc' = "raised" \/ (pc = "next" /\ pc' = "done" /\ intact /\ Len(finished) = NumCases)
      /\ intact' = intact \/ (~intact' /\ pc # "done" /\ pc' = pc)
      /\ pc' = "done" => intact' = intact
      /\ intact' \in BOOLEAN
  BY DEF Verify, Raise, Drift, CertifyOver, certifyVars, Ended, CertifyInv, CertifyTypeOK
<1>3. CertifyTypeOK'
  BY <1>1, <1>2 DEF CertifyInv, CertifyTypeOK
<1>4. ProgressInv'
  BY <1>1, <1>2 DEF CertifyInv, ProgressInv
<1>5. CounterInv'
  BY <1>1, <1>2, SameCount DEF CertifyInv, CounterInv
<1>6. VerdictsInv'
  <2>1. \A kind, set : Always(kind, set)' <=> Always(kind, set)
    BY <1>1 DEF Always
  <2>2. Genuine' = Genuine
    BY <1>1 DEF Genuine
  <2> QED
    BY <1>1, <1>2, <2>1, <2>2 DEF CertifyInv, VerdictsInv, Always
<1>7. DoneInv'
  BY <1>1, <1>2 DEF CertifyInv, DoneInv
<1> QED
  BY <1>3, <1>4, <1>5, <1>6, <1>7 DEF CertifyInv

LEMMA CertifyInductive == CertifyInv /\ [CertifyNext]_certifyVars => CertifyInv'
<1> SUFFICES ASSUME CertifyInv, [CertifyNext]_certifyVars PROVE CertifyInv'
  OBVIOUS
<1>1. CASE \E result \in Results : Baseline(result) \/ Mutant(result) \/ RepeatBaseline(result)
  BY <1>1, BaselineStep, MutantStep, RepeatBaselineStep
<1>2. CASE \E result \in OnSolution : Reference(result) \/ RepeatReference(result)
  BY <1>2, ReferenceStep, RepeatReferenceStep
<1>3. CASE \E built \in BOOLEAN : Solution(built)
  BY <1>3, SolutionStep
<1>4. CASE StartCase \/ Certify \/ NextCase
  BY <1>4, StartCaseStep, CertifyStep, NextCaseStep
<1>5. CASE Verify \/ Raise \/ Drift \/ CertifyOver \/ UNCHANGED certifyVars
  BY <1>5, PackStep
<1> QED
  BY <1>1, <1>2, <1>3, <1>4, <1>5 DEF CertifyNext

LEMMA CertifyAlways == CertifySpec => []CertifyInv
<1>1. CertifyInit => CertifyInv
  BY CertifyStart
<1>2. CertifyInv /\ [CertifyNext]_certifyVars => CertifyInv'
  BY CertifyInductive
<1> QED
  BY <1>1, <1>2, PTL DEF CertifySpec

-----------------------------------------------------------------------------

LEMMA AllCounted ==
    ASSUME CertifyTypeOK, NEW kind \in Kinds, NEW set, Always(kind, set)
    PROVE  All(kind, set)
<1>1. log[kind] \in Seq(OnSolution) /\ Len(log[kind]) \in Nat
  BY DEF CertifyTypeOK
<1>2. Hits(log[kind], set) = 1..Len(log[kind])
  BY DEF Hits, Always
<1>3. Cardinality(1..Len(log[kind])) = Len(log[kind])
  <2> DEFINE b == Len(log[kind])
  <2>1. b \in Nat
    BY <1>1
  <2> HIDE DEF b
  <2>2. Cardinality(1..b) = IF 1 > b THEN 0 ELSE b - 1 + 1
    BY <2>1, FS_Interval
  <2>3. Cardinality(1..b) = b
    BY <2>1, <2>2
  <2> QED
    BY <2>3 DEF b
<1> QED
  BY <1>2, <1>3, CountIs DEF All

LEMMA LevelFact ==
    ASSUME NEW c \in Verdicts
    PROVE  /\ Level(c) \in {"draft", "development", "certified", "verified"}
           /\ c.executable => Level(c) # "draft"
           /\ Rank(Level(c)) \in 1..4
           /\ Rank(Level(c)) >= 3 => Certified(c)
           /\ Level(c) = "verified" => c.deterministic
<1>1. /\ Level(c) \in {"draft", "development", "certified", "verified"}
      /\ c.executable => Level(c) # "draft"
      /\ Level(c) \in {"certified", "verified"} => Certified(c)
      /\ Level(c) = "verified" => c.deterministic
  BY DEF Level
<1>2. Rank(Level(c)) \in 1..4 /\ (Rank(Level(c)) >= 3 => Level(c) \in {"certified", "verified"})
  BY <1>1, RankFact
<1> QED
  BY <1>1, <1>2

\* A pack has the level of its weakest case with tests.
LEMMA WeakestCase ==
    ASSUME finished \in Seq(Verdicts)
    PROVE  \A n \in Executable : Rank(PackLevel) <= Rank(Level(finished[n]))
<1> DEFINE reached == {Level(finished[n]) : n \in Executable}
<1>1. ASSUME NEW n \in Executable
      PROVE  finished[n] \in Verdicts /\ Level(finished[n]) \in {"development", "certified", "verified"}
  <2>1. n \in 1..Len(finished) /\ finished[n].executable
    BY DEF Executable
  <2>2. finished[n] \in Verdicts
    BY <2>1
  <2> QED
    BY <2>1, <2>2, LevelFact
<1>2. reached \subseteq {"development", "certified", "verified"}
  BY <1>1
<1>3. CASE Executable = {}
  BY <1>3
<1>4. CASE Executable # {}
  <2>1. reached # {}
    BY <1>4
  <2>2. \E level \in reached : \A other \in reached : Rank(level) <= Rank(other)
    <3> HIDE DEF reached
    <3>1. CASE "development" \in reached
      BY <1>2, <3>1, RankFact
    <3>2. CASE "development" \notin reached /\ "certified" \in reached
      BY <1>2, <3>2, RankFact
    <3>3. CASE "development" \notin reached /\ "certified" \notin reached
      <4>1. reached = {"verified"}
        BY <1>2, <2>1, <3>3
      <4> QED
        BY <4>1, RankFact
    <3> QED
      BY <3>1, <3>2, <3>3
  <2>3. \E level \in reached : \A n \in Executable : Rank(level) <= Rank(Level(finished[n]))
    <3>1. \A n \in Executable : Level(finished[n]) \in reached
      OBVIOUS
    <3> HIDE DEF reached
    <3> QED
      BY <2>2, <3>1, Zenon
  <2> QED
    BY <1>4, <2>3 DEF PackLevel
<1> QED
  BY <1>3, <1>4

\* The state of certify_pack is well typed for any pack, any number of mutants
\* and any determinism_runs.
THEOREM CertifyTypeCorrect == CertifySpec => []CertifyTypeOK
<1>1. CertifyInv => CertifyTypeOK
  BY DEF CertifyInv
<1> QED
  BY <1>1, CertifyAlways, PTL

\* However flaky a suite and its backend are, a rung of the ladder of certify_pack
\* is backed by the executions that were made, and a pack has the rung of its
\* weakest case with tests, for packs of any size, any number of mutants and any
\* determinism_runs.
THEOREM EveryRungIsEarned == CertifySpec => []RungsAreEarned
<1>1. CertifyInv => RungsAreEarned
  <2> SUFFICES ASSUME CertifyInv PROVE RungsAreEarned
    OBVIOUS
  <2>1. CertifyTypeOK /\ cert \in Verdicts /\ finished \in Seq(Verdicts) /\ runs \in Nat
    BY DEF CertifyInv, CertifyTypeOK
  <2>2. "baseline" \in Kinds /\ "reference" \in Kinds /\ "mutant" \in Kinds
    BY DEF Kinds
  <2>3. ASSUME pc = "judged", Rank(Level(cert)) >= 3
        PROVE  /\ log["baseline"][1] \in Genuine
               /\ log["reference"][1] = "passed"
               /\ Count("mutant", {"passed"}) <= Count("mutant", Results \ {"passed", "skipped"})
    <3>1. Certified(cert)
      BY <2>1, <2>3, LevelFact
    <3>2. log["baseline"][1] \in Genuine /\ log["reference"][1] = "passed"
      BY <3>1 DEF Certified, CertifyInv, VerdictsInv
    <3>3. /\ cert.killed = Count("mutant", Results \ {"passed", "skipped"})
          /\ cert.mutant_total = cert.killed + Count("mutant", {"passed"})
      BY <2>3 DEF CertifyInv, CounterInv
    <3>4. Count("mutant", {"passed"}) \in Nat /\ cert.killed \in Nat
      BY <2>1, <2>2, CountIs DEF Verdicts
    <3>5. cert.mutant_total = 0 \/ 2 * cert.killed >= cert.mutant_total
      BY <3>1 DEF Certified, MutationAdequate
    <3>6. Count("mutant", {"passed"}) <= cert.killed
      BY <3>3, <3>4, <3>5
    <3> QED
      BY <3>2, <3>3, <3>6
  <2>4. ASSUME pc = "judged", Level(cert) = "verified"
        PROVE  /\ runs >= 2
               /\ Len(log["baseline"]) = runs + 1 /\ All("baseline", Genuine)
               /\ Len(log["reference"]) = runs + 1 /\ All("reference", {"passed"})
    <3>1. cert.deterministic
      BY <2>1, <2>4, LevelFact
    <3>2. /\ runs >= 2
          /\ Len(log["baseline"]) = runs + 1 /\ Always("baseline", Genuine)
          /\ Len(log["reference"]) = runs + 1 /\ Always("reference", {"passed"})
      BY <3>1 DEF CertifyInv, VerdictsInv
    <3> QED
      BY <2>1, <2>2, <3>2, AllCounted
  <2>5. pc = "done" => /\ intact /\ Len(finished) = NumCases
                       /\ \A n \in Executable : Rank(PackLevel) <= Rank(Level(finished[n]))
    BY <2>1, WeakestCase DEF CertifyInv, DoneInv
  <2> QED
    BY <2>3, <2>4, <2>5 DEF RungsAreEarned, Genuine
<1> QED
  BY <1>1, CertifyAlways, PTL

=============================================================================
