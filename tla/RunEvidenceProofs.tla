-------------------------- MODULE RunEvidenceProofs --------------------------
(***************************************************************************)
(* BundleIsOneRun, EvidencePrecedesPointers and VersionMeansMigrated of    *)
(* RunEvidence for any number of runs, any clock and any list of           *)
(* migrations.                                                             *)
(***************************************************************************)
EXTENDS RunEvidence, FiniteSetTheorems, TLAPS

\* The run has made its directory and is alive, or ended by itself.
Reserved(r) == pc[r] \notin {"start", "reserve", "crashed"}

\* The run is past the sealing of its bundle.
Late == {"latest", "copying", "connect", "script", "info", "alter", "save", "done", "failed"}

\* A candidate is skipped only when it is taken, a directory is the candidate
\* of the run that made it, and no two living runs made the same.
OwnInv ==
    /\ \A r \in Runs : pc[r] = "start" => suffix[r] = 0
    /\ \A r \in Runs : \A k \in 0..(suffix[r] - 1) : <<base[r], k>> \in dirs
    /\ \A d \in dirs : \E r \in Runs : pc[r] \notin {"start", "reserve"} /\ Id(r) = d
    /\ \A r \in Runs : Reserved(r) => Id(r) \in dirs
    /\ \A q, r \in Runs : Reserved(q) /\ Reserved(r) /\ Id(q) = Id(r) => q = r

\* The reports a run has written when it is at a label.
Written(l) ==
    CASE l = "run.json" -> {}
      [] l = "report.md" -> {"run.json"}
      [] l = "report.html" -> {"run.json", "report.md"}
      [] l = "run_manifest.json" -> {"run.json", "report.md", "report.html"}
      [] OTHER -> Artifacts

\* A directory holds reports of the run that made it only, dead or alive, and
\* those it has written stay.
FileInv ==
    /\ \A d \in Ids \ dirs : files[d] = Blank /\ seal[d].state = "absent"
    /\ \A d \in Ids, f \in Artifacts, q \in Runs :
         files[d][f] = q => /\ pc[q] \notin {"start", "reserve"} /\ Id(q) = d
                            /\ \A r \in Runs : Reserved(r) /\ Id(r) = d => r = q
    /\ \A r \in Runs : Reserved(r) => \A f \in Written(pc[r]) : files[Id(r)][f] = r

\* A whole checksums.json is the last write to its directory.
SealInv ==
    /\ \A d \in Ids : seal[d].state = "whole" =>
         /\ seal[d].hashes = files[d]
         /\ \A q \in Runs : Reserved(q) /\ Id(q) = d => pc[q] \in Late
         /\ \E r \in Runs : \A f \in Artifacts : files[d][f] = r
    /\ \A r \in Runs : pc[r] \in Late => seal[Id(r)].state = "whole"

\* What a migration has behind it: the columns of its earlier passes are there,
\* those of the pass it is in are there or still to come.
MigrationInv ==
    /\ cols = {Nil} \/ cols \subseteq Columns
    /\ version = 1 => cols \subseteq Columns /\ V1Columns \subseteq cols
    /\ \A r \in Runs :
         /\ pc[r] \notin {"info", "alter", "save", "done", "failed", "crashed"} => pass[r] = 1
         /\ pc[r] \in {"info", "alter"} =>
              /\ cols \subseteq Columns
              /\ \A n \in 1..(pass[r] - 1) : Passes[n] \subseteq cols
         /\ pc[r] = "alter" => Passes[pass[r]] \subseteq cols \cup missing[r]
         /\ pc[r] = "save" => version = SCHEMA_VERSION

IInv ==
    /\ TypeOK /\ OwnInv /\ FileInv /\ SealInv /\ MigrationInv
    /\ EvidencePrecedesPointers /\ VersionMeansMigrated

-----------------------------------------------------------------------------

LEMMA InitIInv == Init => IInv
<1> SUFFICES ASSUME Init PROVE IInv
  OBVIOUS
<1> USE EvidenceAssumption DEF Init
<1>0. V1Columns \subseteq Columns
  BY DEF V1Columns, Columns
<1>1. Cardinality(Runs) \in Nat
  BY FS_CardinalityType
<1>2. Blank \in Contents
  BY DEF Blank, Contents
<1>3. TypeOK
  <2>1. files \in [Ids -> Contents] /\ dirs \subseteq Ids
    BY <1>2
  <2>2. seal \in [Ids -> [state : {"absent", "torn", "whole"}, hashes : Contents]]
    BY <1>2 DEF Unsealed
  <2>3. pc \in [Runs -> Labels] /\ missing \in [Runs -> SUBSET Columns]
    BY DEF Labels
  <2>4. /\ cols \subseteq Columns \cup {Nil} /\ old_row \in {Nil, "unset", "legacy"}
        /\ version \in 0..(SCHEMA_VERSION + 1)
    BY <1>0 DEF SCHEMA_VERSION
  <2>5. suffix \in [Runs -> 0..Cardinality(Runs)] /\ base \in [Runs -> 0..MaxSecond]
    BY <1>1
  <2> QED
    BY <2>1, <2>2, <2>3, <2>4, <2>5 DEF TypeOK
<1>4. OwnInv
  BY DEF OwnInv, Reserved
<1>5. FileInv
  BY DEF FileInv, Reserved, Blank, Unsealed
<1>6. SealInv
  BY DEF SealInv, Late, Unsealed
<1>7. MigrationInv
  <2>1. version = 1 => cols = V1Columns
    BY DEF SCHEMA_VERSION
  <2>2. cols = {Nil} \/ cols \subseteq Columns
    BY <1>0
  <2> QED
    BY <1>0, <2>1, <2>2 DEF MigrationInv
<1>8. EvidencePrecedesPointers /\ VersionMeansMigrated
  BY DEF EvidencePrecedesPointers, VersionMeansMigrated, SCHEMA_VERSION
<1> QED
  BY <1>3, <1>4, <1>5, <1>6, <1>7, <1>8 DEF IInv

\* The pointers keep naming sealed bundles as long as bundles stay sealed.
LEMMA PointersStay ==
    ASSUME IInv, \A q \in Runs : Sealed(q) => Sealed(q)',
           \A q \in Runs : Sealed(q) => Id(q)' = Id(q),
           \A q \in Runs : pc'[q] = "done" => pc[q] = "done",
           UNCHANGED <<latest, rows>>
    PROVE  EvidencePrecedesPointers'
<1> USE EvidenceAssumption DEF IInv, TypeOK
<1>1. \A q \in {latest'.head, latest'.tail} \ {Nil} : Sealed(q)'
  BY DEF EvidencePrecedesPointers
<1>2. \A d \in Ids : rows'[d] # Nil => Id(rows[d])' = d /\ Sealed(rows[d])'
  BY DEF EvidencePrecedesPointers
<1>3. \A q \in Runs : pc'[q] = "done" => rows'[Id(q)'] = q
  <2> SUFFICES ASSUME NEW q \in Runs, pc'[q] = "done" PROVE rows'[Id(q)'] = q
    OBVIOUS
  <2>1. pc[q] = "done" /\ rows[Id(q)] = q
    BY DEF EvidencePrecedesPointers
  <2>2. Id(q) \in Ids
    BY DEF Id, Ids
  <2>3. Sealed(q)
    BY <2>1, <2>2 DEF EvidencePrecedesPointers
  <2> QED
    BY <2>1, <2>3
<1> QED
  BY <1>1, <1>2, <1>3 DEF EvidencePrecedesPointers

\* A step of a run past the sealing, or the death of any run, touches no
\* directory.
LEMMA MoveOn ==
    ASSUME IInv, NEW r \in Runs, NEW l \in Late \cup {"crashed"},
           pc' = [pc EXCEPT ![r] = l], pc[r] \in Late \/ l = "crashed",
           UNCHANGED <<base, suffix, dirs, files, seal>>
    PROVE  /\ pc' \in [Runs -> Labels]
           /\ OwnInv' /\ FileInv' /\ SealInv'
           /\ \A q \in Runs : Id(q)' = Id(q) /\ (Sealed(q) => Sealed(q)')
<1> USE EvidenceAssumption DEF IInv, TypeOK
<1>1. pc' \in [Runs -> Labels]
  BY DEF Labels, Late
<1>2. \A q \in Runs : Id(q)' = Id(q)
  BY DEF Id
<1>3. \A q \in Runs : /\ Reserved(q)' => Reserved(q)
                      /\ pc[q] \notin {"start", "reserve"} => pc'[q] \notin {"start", "reserve"}
                      /\ pc'[q] \in Late => pc[q] \in Late
                      /\ pc[q] \in Late /\ Reserved(q)' => pc'[q] \in Late
  BY DEF Reserved, Late
<1>4. OwnInv'
  <2>1. \A q \in Runs : pc'[q] = "start" => pc[q] = "start"
    BY DEF Late
  <2> QED
    BY <1>2, <1>3, <2>1 DEF OwnInv
<1>5. FileInv'
  <2>1. \A q \in Runs : Reserved(q)' => \A f \in Written(pc'[q]) : f \in Written(pc[q])
    <3>1. \A q \in Runs : q # r => pc'[q] = pc[q]
      OBVIOUS
    <3>2. Reserved(r)' => pc'[r] \in Late /\ pc[r] \in Late
      BY DEF Reserved
    <3>3. \A k \in Late : Written(k) = Artifacts
      BY DEF Late, Written
    <3> QED
      BY <3>1, <3>2, <3>3
  <2>2. FileInv
    OBVIOUS
  <2> HIDE EvidenceAssumption DEF IInv, TypeOK
  <2>3. \A d \in Ids \ dirs' : files'[d] = Blank /\ seal'[d].state = "absent"
    BY <2>2 DEF FileInv
  <2>4. ASSUME NEW d \in Ids, NEW f \in Artifacts, NEW q \in Runs, files'[d][f] = q
        PROVE  /\ pc'[q] \notin {"start", "reserve"} /\ Id(q)' = d
               /\ \A s \in Runs : Reserved(s)' /\ Id(s)' = d => s = q
    <3>1. files[d][f] = q
      BY <2>4
    <3>2. /\ pc[q] \notin {"start", "reserve"} /\ Id(q) = d
          /\ \A s \in Runs : Reserved(s) /\ Id(s) = d => s = q
      BY <2>2, <3>1 DEF FileInv
    <3> QED
      BY <1>2, <1>3, <3>2
  <2>5. \A q \in Runs : Reserved(q)' => \A f \in Written(pc'[q]) : files'[Id(q)'][f] = q
    <3>1. \A q \in Runs : Reserved(q) => \A f \in Written(pc[q]) : files[Id(q)][f] = q
      BY <2>2 DEF FileInv
    <3> QED
      BY <1>2, <1>3, <2>1, <3>1
  <2> QED
    BY <2>3, <2>4, <2>5 DEF FileInv
<1>6. SealInv'
  BY <1>2, <1>3 DEF SealInv
<1>7. \A q \in Runs : Sealed(q) => Sealed(q)'
  BY <1>2 DEF Sealed, VerifyBundle
<1> QED
  BY <1>1, <1>2, <1>4, <1>5, <1>6, <1>7

\* What holds of the owner of a sealed bundle.
LEMMA SealedOwner ==
    ASSUME IInv, NEW q \in Runs, Sealed(q)
    PROVE  /\ Id(q) \in Ids
           /\ pc[q] \notin {"start", "reserve"}
           /\ \A r \in Runs : Reserved(r) /\ Id(r) = Id(q) => r = q /\ pc[r] \in Late
<1> USE EvidenceAssumption DEF IInv, TypeOK
<1>1. Id(q) \in Ids
  BY DEF Id, Ids
<1>2. files[Id(q)]["run.json"] = q /\ seal[Id(q)].state = "whole"
  BY DEF Sealed, VerifyBundle, Artifacts
<1>3. pc[q] \notin {"start", "reserve"} /\ \A r \in Runs : Reserved(r) /\ Id(r) = Id(q) => r = q
  BY <1>1, <1>2 DEF FileInv, Artifacts
<1>4. \A r \in Runs : Reserved(r) /\ Id(r) = Id(q) => pc[r] \in Late
  BY <1>1, <1>2 DEF SealInv
<1> QED
  BY <1>1, <1>3, <1>4

-----------------------------------------------------------------------------
(* The run directory. *)

LEMMA StartStep ==
    ASSUME IInv, NEW r \in Runs, Start(r) PROVE IInv'
<1> USE EvidenceAssumption DEF IInv, Start, Goto, disk, db, migration
<1>1. TypeOK'
  BY DEF TypeOK, Labels
<1>2. \A q \in Runs \ {r} : Id(q)' = Id(q) /\ pc'[q] = pc[q]
  BY DEF Id, TypeOK
<1>3. pc[r] = "start" /\ pc'[r] = "reserve" /\ suffix'[r] = 0
  BY DEF TypeOK, OwnInv
<1>4. \A q \in Runs : Reserved(q)' <=> Reserved(q) /\ q # r
  BY <1>2, <1>3 DEF Reserved
<1>5. OwnInv'
  <2>1. \A q \in Runs : \A k \in 0..(suffix'[q] - 1) : <<base'[q], k>> \in dirs'
    BY <1>3 DEF OwnInv, TypeOK
  <2>2. \A d \in dirs' : \E q \in Runs : pc'[q] \notin {"start", "reserve"} /\ Id(q)' = d
    <3> TAKE d \in dirs'
    <3>1. PICK q \in Runs : pc[q] \notin {"start", "reserve"} /\ Id(q) = d
      BY DEF OwnInv
    <3> QED
      BY <1>2, <1>3, <3>1
  <2>3. \A q \in Runs : Reserved(q)' => Id(q)' \in dirs'
    BY <1>2, <1>4 DEF OwnInv
  <2>4. \A p, q \in Runs : Reserved(p)' /\ Reserved(q)' /\ Id(p)' = Id(q)' => p = q
    BY <1>2, <1>4 DEF OwnInv
  <2>5. \A q \in Runs : pc'[q] = "start" => suffix'[q] = 0
    BY <1>2, <1>3 DEF OwnInv
  <2> QED
    BY <2>1, <2>2, <2>3, <2>4, <2>5 DEF OwnInv
<1>6. FileInv'
  BY <1>2, <1>3, <1>4 DEF FileInv, Reserved
<1>7. SealInv'
  <2>1. \A q \in Runs : pc'[q] \in Late => q # r
    BY <1>3 DEF Late
  <2> QED
    BY <1>2, <1>4, <2>1 DEF SealInv
<1>8. \A q \in Runs : Sealed(q) => q # r
  BY <1>3, SealedOwner
<1>9. EvidencePrecedesPointers'
  <2>1. \A q \in Runs : Sealed(q) => Sealed(q)'
    BY <1>2, <1>8 DEF Sealed, VerifyBundle
  <2>2. \A q \in Runs : pc'[q] = "done" => pc[q] = "done"
    BY <1>2, <1>3
  <2> QED
    BY <1>2, <1>8, <2>1, <2>2, PointersStay
<1>10. MigrationInv' /\ VersionMeansMigrated'
  BY <1>2, <1>3 DEF MigrationInv, VersionMeansMigrated
<1> QED
  BY <1>1, <1>5, <1>6, <1>7, <1>9, <1>10

\* Every candidate a run has skipped is another run's: there are never more
\* candidates than runs.
LEMMA SuffixBound ==
    ASSUME IInv, NEW r \in Runs, pc[r] = "reserve", Taken(r)
    PROVE  suffix[r] + 1 \in 0..Cardinality(Runs)
<1> USE EvidenceAssumption DEF IInv, TypeOK
<1> DEFINE T == 0..suffix[r]
           S == {q \in Runs \ {r} : suffix[q] \in T}
           f == [q \in S |-> suffix[q]]
<1>1. Cardinality(Runs) \in Nat /\ suffix[r] \in Nat
  BY FS_CardinalityType
<1>2. \A k \in T : <<base[r], k>> \in dirs
  <2>1. \A k \in 0..(suffix[r] - 1) : <<base[r], k>> \in dirs
    BY DEF OwnInv
  <2>2. <<base[r], suffix[r]>> \in dirs
    BY DEF Taken, Id
  <2>3. \A k \in T : k \in 0..(suffix[r] - 1) \/ k = suffix[r]
    BY <1>1
  <2> QED
    BY <2>1, <2>2, <2>3
<1>3. \A k \in T : \E q \in S : f[q] = k
  <2> TAKE k \in T
  <2>1. PICK q \in Runs : pc[q] \notin {"start", "reserve"} /\ Id(q) = <<base[r], k>>
    BY <1>2 DEF OwnInv
  <2>2. q \in S /\ suffix[q] = k
    BY <2>1 DEF Id
  <2> QED
    BY <2>2
<1>4. f \in Surjection(S, T)
  BY <1>3 DEF Surjection
<1>5. IsFiniteSet(Runs \ {r}) /\ Cardinality(Runs \ {r}) = Cardinality(Runs) - 1
  BY FS_RemoveElement
<1>6. IsFiniteSet(S) /\ Cardinality(S) <= Cardinality(Runs) - 1
  <2>1. S \in SUBSET (Runs \ {r})
    OBVIOUS
  <2> HIDE DEF S
  <2> QED
    BY <1>5, <2>1, FS_Subset
<1>7. Cardinality(T) <= Cardinality(S)
  <2> HIDE DEF S, T, f
  <2> QED
    BY <1>4, <1>6, FS_Surjection
<1>8. Cardinality(T) = suffix[r] + 1
  <2>1. \A n \in Nat : Cardinality(0..n) = n + 1
    BY FS_Interval
  <2> QED
    BY <1>1, <2>1
<1>9. Cardinality(S) \in Nat
  BY <1>6, FS_CardinalityType
<1> HIDE DEF S, T
<1>10. suffix[r] + 1 <= Cardinality(Runs) - 1
  BY <1>1, <1>6, <1>7, <1>8, <1>9
<1> QED
  BY <1>1, <1>10

LEMMA ReserveStep ==
    ASSUME IInv, NEW r \in Runs, Reserve(r) PROVE IInv'
<1> USE EvidenceAssumption DEF IInv, Reserve, Goto, db, migration
<1>1. Id(r) \in Ids /\ pc[r] = "reserve"
  BY DEF Id, Ids, TypeOK
<1>2. \A q \in Runs \ {r} : Id(q)' = Id(q) /\ pc'[q] = pc[q]
  BY DEF Id, TypeOK
<1>3. pc'[r] \in {"reserve", "run.json"}
  BY <1>1 DEF TypeOK
<1>4. EvidencePrecedesPointers'
  <2>1. \A q \in Runs : Sealed(q) => q # r
    BY <1>1, SealedOwner
  <2>2. \A q \in Runs : Sealed(q) => Sealed(q)'
    BY <1>2, <2>1 DEF Sealed, VerifyBundle
  <2>3. \A q \in Runs : pc'[q] = "done" => pc[q] = "done"
    BY <1>2, <1>3
  <2> QED
    BY <1>2, <2>1, <2>2, <2>3, PointersStay
<1>5. MigrationInv' /\ VersionMeansMigrated'
  BY <1>1, <1>2, <1>3 DEF MigrationInv, VersionMeansMigrated
<1>6. CASE Taken(r)
  <2>1. suffix' = [suffix EXCEPT ![r] = @ + 1] /\ UNCHANGED <<pc, dirs>>
    BY <1>6
  <2>2. TypeOK'
    BY <1>1, <1>6, <2>1, SuffixBound DEF TypeOK
  <2>3. \A q \in Runs : Reserved(q)' <=> Reserved(q) /\ q # r
    BY <1>1, <2>1 DEF Reserved
  <2>4. OwnInv'
    <3>1. \A q \in Runs : \A k \in 0..(suffix'[q] - 1) : <<base'[q], k>> \in dirs'
      <4>1. \A q \in Runs \ {r} : suffix'[q] = suffix[q]
        BY <2>1 DEF TypeOK
      <4>2. suffix'[r] = suffix[r] + 1 /\ suffix[r] \in Nat
        BY <2>1 DEF TypeOK
      <4>3. \A k \in 0..(suffix'[r] - 1) : k \in 0..(suffix[r] - 1) \/ k = suffix[r]
        BY <4>2
      <4>4. <<base[r], suffix[r]>> \in dirs
        BY <1>6 DEF Taken, Id
      <4>5. \A q \in Runs : \A k \in 0..(suffix[q] - 1) : <<base[q], k>> \in dirs
        BY DEF OwnInv
      <4> QED
        BY <2>1, <4>1, <4>3, <4>4, <4>5
    <3>2. \A d \in dirs' : \E q \in Runs : pc'[q] \notin {"start", "reserve"} /\ Id(q)' = d
      <4> TAKE d \in dirs'
      <4>1. PICK q \in Runs : pc[q] \notin {"start", "reserve"} /\ Id(q) = d
        BY <2>1 DEF OwnInv
      <4> QED
        BY <1>1, <1>2, <4>1
    <3>3. \A q \in Runs : Reserved(q)' => Id(q)' \in dirs'
      BY <1>2, <2>1, <2>3 DEF OwnInv
    <3>4. \A p, q \in Runs : Reserved(p)' /\ Reserved(q)' /\ Id(p)' = Id(q)' => p = q
      BY <1>2, <2>3 DEF OwnInv
    <3>5. \A q \in Runs : pc'[q] = "start" => suffix'[q] = 0
      BY <1>1, <2>1 DEF OwnInv, TypeOK
    <3> QED
      BY <3>1, <3>2, <3>3, <3>4, <3>5 DEF OwnInv
  <2>5. FileInv'
    BY <1>1, <1>2, <2>1, <2>3 DEF FileInv
  <2>6. SealInv'
    <3>1. \A q \in Runs : pc'[q] \in Late => q # r
      BY <1>1, <2>1 DEF Late
    <3> QED
      BY <1>2, <2>1, <2>3, <3>1 DEF SealInv
  <2> QED
    BY <1>4, <1>5, <2>2, <2>4, <2>5, <2>6
<1>7. CASE ~Taken(r)
  <2>1. dirs' = dirs \cup {Id(r)} /\ pc' = [pc EXCEPT ![r] = "run.json"] /\ suffix' = suffix
    BY <1>7
  <2>2. Id(r) \notin dirs /\ pc'[r] = "run.json" /\ Id(r)' = Id(r)
    BY <1>7, <2>1 DEF Taken, TypeOK, Id
  <2>3. TypeOK'
    BY <1>1, <2>1 DEF TypeOK, Labels, Artifacts
  <2>4. \A q \in Runs : Reserved(q)' <=> Reserved(q) \/ q = r
    BY <1>2, <2>2 DEF Reserved
  <2>5. \A q \in Runs : Reserved(q) => Id(q) # Id(r)
    BY <2>2 DEF OwnInv
  <2>6. OwnInv'
    <3>1. \A q \in Runs : \A k \in 0..(suffix'[q] - 1) : <<base'[q], k>> \in dirs'
      BY <2>1 DEF OwnInv
    <3>2. \A d \in dirs' : \E q \in Runs : pc'[q] \notin {"start", "reserve"} /\ Id(q)' = d
      <4> TAKE d \in dirs'
      <4>1. CASE d = Id(r)
        BY <2>2, <4>1
      <4>2. CASE d \in dirs
        <5>1. PICK q \in Runs : pc[q] \notin {"start", "reserve"} /\ Id(q) = d
          BY <4>2 DEF OwnInv
        <5> QED
          BY <1>1, <1>2, <5>1
      <4> QED
        BY <2>1, <4>1, <4>2
    <3>3. \A q \in Runs : Reserved(q)' => Id(q)' \in dirs'
      BY <1>2, <2>1, <2>2, <2>4 DEF OwnInv
    <3>4. \A p, q \in Runs : Reserved(p)' /\ Reserved(q)' /\ Id(p)' = Id(q)' => p = q
      BY <1>2, <2>2, <2>4, <2>5 DEF OwnInv
    <3>5. \A q \in Runs : pc'[q] = "start" => suffix'[q] = 0
      BY <1>2, <2>1, <2>2 DEF OwnInv
    <3> QED
      BY <3>1, <3>2, <3>3, <3>4, <3>5 DEF OwnInv
  <2>7. FileInv'
    <3>1. files[Id(r)] = Blank
      BY <1>1, <2>2 DEF FileInv
    <3>2. \A d \in Ids, f \in Artifacts, q \in Runs : files'[d][f] = q => d # Id(r)
      BY <3>1 DEF Blank
    <3>3. \A d \in Ids, f \in Artifacts, q \in Runs :
            files'[d][f] = q => /\ pc'[q] \notin {"start", "reserve"} /\ Id(q)' = d
                                /\ \A p \in Runs : Reserved(p)' /\ Id(p)' = d => p = q
      BY <1>1, <1>2, <2>2, <2>4, <3>2 DEF FileInv
    <3>4. Written("run.json") = {}
      BY DEF Written
    <3>5. \A q \in Runs : Reserved(q)' => \A f \in Written(pc'[q]) : files'[Id(q)'][f] = q
      BY <1>2, <2>2, <2>4, <3>4 DEF FileInv
    <3> QED
      BY <2>1, <3>3, <3>5 DEF FileInv
  <2>8. SealInv'
    <3>1. seal[Id(r)].state = "absent"
      BY <1>1, <2>2 DEF FileInv
    <3>2. \A q \in Runs : pc'[q] \in Late => q # r
      BY <2>2 DEF Late
    <3>3. \A d \in Ids : seal'[d].state = "whole" => d # Id(r)
      BY <3>1
    <3> QED
      BY <1>2, <2>1, <2>2, <2>4, <3>2, <3>3 DEF SealInv
  <2> QED
    BY <1>4, <1>5, <2>3, <2>6, <2>7, <2>8
<1> QED
  BY <1>6, <1>7

-----------------------------------------------------------------------------
(* The bundle. *)

LEMMA FollowingFact ==
    ASSUME NEW a \in Artifacts
    PROVE  /\ Following(a) \in (Artifacts \cup {"seal"})
           /\ a \notin Written(a)
           /\ Written(Following(a)) \subseteq Written(a) \cup {a}
BY DEF Following, Written, Artifacts

\* A run that is not past the sealing is no owner of a sealed bundle, and
\* writes into no directory with one.
LEMMA NotSealed ==
    ASSUME IInv, NEW r \in Runs, Reserved(r), pc[r] \notin Late
    PROVE  /\ Id(r) \in Ids /\ Id(r) \in dirs
           /\ seal[Id(r)].state # "whole"
           /\ \A q \in Runs : Sealed(q) => Id(q) # Id(r)
           /\ \A q \in Runs : pc[q] \in Late => Id(q) # Id(r)
<1> USE DEF IInv, TypeOK
<1>1. Id(r) \in Ids /\ Id(r) \in dirs
  BY DEF Id, Ids, OwnInv
<1>2. seal[Id(r)].state # "whole"
  BY <1>1 DEF SealInv
<1>3. \A q \in Runs : Sealed(q) => Id(q) # Id(r)
  BY SealedOwner
<1>4. \A q \in Runs : pc[q] \in Late => Id(q) # Id(r)
  BY <1>2 DEF SealInv
<1> QED
  BY <1>1, <1>2, <1>3, <1>4

LEMMA WriteReportStep ==
    ASSUME IInv, NEW r \in Runs, WriteReport(r) PROVE IInv'
<1> USE EvidenceAssumption DEF IInv, WriteReport, Goto, db, migration
<1> DEFINE d == Id(r)
           a == pc[r]
<1>1. a \in Artifacts /\ Reserved(r) /\ a \notin Late
  BY DEF Artifacts, Reserved, Late
<1>2. d \in Ids /\ d \in dirs /\ seal[d].state # "whole"
      /\ \A q \in Runs : Sealed(q) \/ pc[q] \in Late => Id(q) # d
  BY <1>1, NotSealed
<1>3. PICK v \in {"torn", r} :
         /\ files' = [files EXCEPT ![d][a] = v]
         /\ \/ v = r /\ pc' = [pc EXCEPT ![r] = Following(a)]
            \/ v = "torn" /\ pc' = pc
  OBVIOUS
<1>4. /\ \A e \in Ids \ {d} : files'[e] = files[e]
      /\ \A f \in Artifacts \ {a} : files'[d][f] = files[d][f]
      /\ files'[d][a] = v
  BY <1>1, <1>2, <1>3 DEF TypeOK, Contents
<1>5. \A q \in Runs : Id(q)' = Id(q) /\ (q # r => pc'[q] = pc[q])
  BY <1>3 DEF Id, TypeOK
<1>6. pc'[r] \in Artifacts \cup {"seal"} /\ (v = "torn" => pc'[r] = a) /\ (v = r => pc'[r] = Following(a))
  BY <1>1, <1>3, FollowingFact DEF TypeOK
<1>7. pc'[r] \notin {"start", "reserve", "crashed", "done"} \cup Late
  BY <1>6 DEF Artifacts, Late
<1>8. \A q \in Runs : Reserved(q)' <=> Reserved(q)
  BY <1>1, <1>5, <1>7 DEF Reserved
<1>9. TypeOK'
  <2>1. files' \in [Ids -> Contents]
    <3>1. files[d] \in Contents
      BY <1>2 DEF TypeOK
    <3>2. [files[d] EXCEPT ![a] = v] \in Contents
      BY <1>1, <3>1 DEF Contents
    <3> QED
      BY <1>2, <1>3, <3>2 DEF TypeOK
  <2>2. pc' \in [Runs -> Labels]
    <3>1. pc'[r] \in Labels
      BY <1>6 DEF Labels
    <3> QED
      BY <1>3, <3>1 DEF TypeOK
  <2> QED
    BY <2>1, <2>2 DEF TypeOK
<1>10. OwnInv'
  <2>1. \A q \in Runs : pc'[q] \in {"start", "reserve"} => pc'[q] = pc[q]
    BY <1>5, <1>7
  <2>2. \A q \in Runs : pc[q] \notin {"start", "reserve"} => pc'[q] \notin {"start", "reserve"}
    BY <1>5, <1>7
  <2> QED
    BY <1>5, <1>8, <2>1, <2>2 DEF OwnInv
<1>11. FileInv'
  <2>1. \A e \in Ids \ dirs' : files'[e] = Blank /\ seal'[e].state = "absent"
    BY <1>2, <1>4 DEF FileInv
  <2>2. \A e \in Ids, f \in Artifacts, q \in Runs :
          files'[e][f] = q => /\ pc'[q] \notin {"start", "reserve"} /\ Id(q)' = e
                              /\ \A p \in Runs : Reserved(p)' /\ Id(p)' = e => p = q
    <3> SUFFICES ASSUME NEW e \in Ids, NEW f \in Artifacts, NEW q \in Runs, files'[e][f] = q
                 PROVE  /\ pc'[q] \notin {"start", "reserve"} /\ Id(q)' = e
                        /\ \A p \in Runs : Reserved(p)' /\ Id(p)' = e => p = q
      OBVIOUS
    <3>1. CASE e = d /\ f = a
      <4>1. q = r
        BY <1>4, <3>1
      <4> QED
        BY <1>1, <1>5, <1>7, <1>8, <3>1, <4>1 DEF OwnInv
    <3>2. CASE ~(e = d /\ f = a)
      <4>1. files[e][f] = q
        BY <1>4, <3>2
      <4>2. /\ pc[q] \notin {"start", "reserve"} /\ Id(q) = e
            /\ \A p \in Runs : Reserved(p) /\ Id(p) = e => p = q
        BY <4>1 DEF FileInv
      <4> QED
        BY <1>5, <1>7, <1>8, <4>2
    <3> QED
      BY <3>1, <3>2
  <2>3. \A q \in Runs : Reserved(q)' => \A f \in Written(pc'[q]) : files'[Id(q)'][f] = q
    <3> SUFFICES ASSUME NEW q \in Runs, Reserved(q), NEW f \in Written(pc'[q])
                 PROVE  files'[Id(q)][f] = q
      BY <1>5, <1>8
    <3>1. CASE q = r
      <4>1. (f = a /\ v = r) \/ (f \in Written(a) /\ f # a)
        <5>1. a \notin Written(a) /\ Written(Following(a)) \subseteq Written(a) \cup {a}
          BY <1>1, FollowingFact
        <5>2. CASE v = r
          BY <1>6, <3>1, <5>1, <5>2
        <5>3. CASE v = "torn"
          BY <1>6, <3>1, <5>1, <5>3
        <5> QED
          BY <5>2, <5>3
      <4>2. f \in Artifacts
        BY <1>1, <4>1 DEF Written, Artifacts
      <4>3. f \in Written(a) => files[d][f] = r
        BY <1>1 DEF FileInv
      <4> QED
        BY <1>4, <3>1, <4>1, <4>2, <4>3
    <3>2. CASE q # r
      <4>1. Id(q) # d /\ Id(q) \in Ids
        BY <1>1, <3>2 DEF OwnInv, TypeOK
      <4>2. files[Id(q)][f] = q
        BY <1>5, <3>2 DEF FileInv
      <4> QED
        BY <1>4, <4>1, <4>2
    <3> QED
      BY <3>1, <3>2
  <2> QED
    BY <2>1, <2>2, <2>3 DEF FileInv
<1>12. SealInv'
  <2>1. \A q \in Runs : pc'[q] \in Late <=> pc[q] \in Late
    BY <1>1, <1>5, <1>7
  <2> QED
    BY <1>2, <1>4, <1>5, <1>8, <2>1 DEF SealInv
<1>13. EvidencePrecedesPointers'
  <2>1. \A q \in Runs : Id(q) \in Ids
    BY DEF Id, Ids, TypeOK
  <2>2. \A q \in Runs : Sealed(q) => Sealed(q)'
    BY <1>2, <1>4, <1>5, <2>1 DEF Sealed, VerifyBundle
  <2>3. \A q \in Runs : pc'[q] = "done" => pc[q] = "done"
    BY <1>5, <1>7
  <2> QED
    BY <1>5, <2>2, <2>3, PointersStay
<1>14. MigrationInv' /\ VersionMeansMigrated'
  <2>1. a \notin {"info", "alter", "save", "done", "failed", "crashed"}
    BY <1>1 DEF Artifacts
  <2>2. pc'[r] \notin {"info", "alter", "save", "done", "failed", "crashed"}
    BY <1>7 DEF Late
  <2> QED
    BY <1>5, <2>1, <2>2 DEF MigrationInv, VersionMeansMigrated
<1> QED
  BY <1>9, <1>10, <1>11, <1>12, <1>13, <1>14

LEMMA SealStep ==
    ASSUME IInv, NEW r \in Runs, Seal(r) PROVE IInv'
<1> USE EvidenceAssumption DEF IInv, Seal, Goto, db, migration
<1> DEFINE d == Id(r)
<1>1. pc[r] = "seal" /\ Reserved(r) /\ pc[r] \notin Late
  BY DEF Reserved, Late
<1>2. d \in Ids /\ d \in dirs /\ seal[d].state # "whole"
      /\ \A q \in Runs : Sealed(q) \/ pc[q] \in Late => Id(q) # d
  BY <1>1, NotSealed
<1>3. PICK s \in {Unsealed("torn"), [state |-> "whole", hashes |-> files[d]]} :
         /\ seal' = [seal EXCEPT ![d] = s]
         /\ \/ s.state = "whole" /\ s.hashes = files[d] /\ pc' = [pc EXCEPT ![r] = "latest"]
            \/ s.state = "torn" /\ pc' = pc
  BY DEF Unsealed
<1>4. (\A e \in Ids \ {d} : seal'[e] = seal[e]) /\ seal'[d] = s
  BY <1>2, <1>3 DEF TypeOK
<1>5. \A q \in Runs : Id(q)' = Id(q) /\ (q # r => pc'[q] = pc[q])
  BY <1>3 DEF Id, TypeOK
<1>6. (s.state = "whole" /\ pc'[r] = "latest") \/ (s.state = "torn" /\ pc'[r] = "seal")
  <2>1. pc' = [pc EXCEPT ![r] = "latest"] => pc'[r] = "latest"
    BY DEF TypeOK
  <2>2. pc' = pc => pc'[r] = "seal"
    BY <1>1
  <2> QED
    BY <1>3, <2>1, <2>2
<1>7. \A q \in Runs : Reserved(q)' <=> Reserved(q)
  BY <1>1, <1>5, <1>6 DEF Reserved
<1>8. TypeOK'
  <2>1. Blank \in Contents /\ files[d] \in Contents
    BY <1>2 DEF Blank, Contents, TypeOK
  <2>2. s \in [state : {"absent", "torn", "whole"}, hashes : Contents]
    BY <2>1 DEF Unsealed
  <2>3. pc' \in [Runs -> Labels]
    BY <1>3 DEF TypeOK, Labels
  <2> QED
    BY <1>2, <1>3, <2>2, <2>3 DEF TypeOK
<1>9. OwnInv'
  <2>1. \A q \in Runs : pc'[q] \in {"start", "reserve"} => pc'[q] = pc[q]
    BY <1>5, <1>6
  <2>2. \A q \in Runs : pc[q] \notin {"start", "reserve"} => pc'[q] \notin {"start", "reserve"}
    BY <1>5, <1>6
  <2> QED
    BY <1>5, <1>7, <2>1, <2>2 DEF OwnInv
<1>10. \A f \in Artifacts : files[d][f] = r
  <2>1. Written("seal") = Artifacts
    BY DEF Written
  <2> QED
    BY <1>1, <2>1 DEF FileInv
<1>11. FileInv'
  <2>1. \A e \in Ids \ dirs' : files'[e] = Blank /\ seal'[e].state = "absent"
    BY <1>2, <1>4 DEF FileInv
  <2>2. \A e \in Ids, f \in Artifacts, q \in Runs :
          files'[e][f] = q => /\ pc'[q] \notin {"start", "reserve"} /\ Id(q)' = e
                              /\ \A p \in Runs : Reserved(p)' /\ Id(p)' = e => p = q
    BY <1>5, <1>6, <1>7 DEF FileInv
  <2>3. \A q \in Runs : \A f \in Written(pc'[q]) : q # r \/ f \in Artifacts
    BY <1>6 DEF Written
  <2>4. \A q \in Runs : Reserved(q)' => \A f \in Written(pc'[q]) : files'[Id(q)'][f] = q
    BY <1>5, <1>7, <1>10, <2>3 DEF FileInv
  <2> QED
    BY <2>1, <2>2, <2>4 DEF FileInv
<1>12. SealInv'
  <2>1. \A q \in Runs : pc'[q] \in Late => pc[q] \in Late \/ (q = r /\ s.state = "whole")
    <3>1. "seal" \notin Late
      BY DEF Late
    <3> QED
      BY <1>5, <1>6, <3>1
  <2>2. \A q \in Runs : pc[q] \in Late => pc'[q] \in Late
    BY <1>1, <1>5
  <2>3. \A e \in Ids : seal'[e].state = "whole" =>
          /\ seal'[e].hashes = files'[e]
          /\ \A q \in Runs : Reserved(q)' /\ Id(q)' = e => pc'[q] \in Late
          /\ \E q \in Runs : \A f \in Artifacts : files'[e][f] = q
    <3> SUFFICES ASSUME NEW e \in Ids, seal'[e].state = "whole"
                 PROVE  /\ seal'[e].hashes = files'[e]
                        /\ \A q \in Runs : Reserved(q)' /\ Id(q)' = e => pc'[q] \in Late
                        /\ \E q \in Runs : \A f \in Artifacts : files'[e][f] = q
      OBVIOUS
    <3>1. CASE e = d
      <4>1. s.state = "whole" /\ s.hashes = files[d] /\ pc'[r] = "latest"
        BY <1>3, <1>4, <1>6, <3>1
      <4>2. \A q \in Runs : Reserved(q) /\ Id(q) = d => q = r
        BY <1>1 DEF OwnInv
      <4> QED
        BY <1>4, <1>5, <1>7, <1>10, <3>1, <4>1, <4>2 DEF Late
    <3>2. CASE e # d
      BY <1>4, <1>5, <1>7, <2>2, <3>2 DEF SealInv
    <3> QED
      BY <3>1, <3>2
  <2>4. \A q \in Runs : Id(q) \in Ids
    BY DEF Id, Ids, TypeOK
  <2>5. \A q \in Runs : pc'[q] \in Late => seal'[Id(q)'].state = "whole"
    BY <1>2, <1>4, <1>5, <2>1, <2>4 DEF SealInv
  <2> QED
    BY <2>3, <2>5 DEF SealInv
<1>13. EvidencePrecedesPointers'
  <2>1. \A q \in Runs : Id(q) \in Ids
    BY DEF Id, Ids, TypeOK
  <2>2. \A q \in Runs : Sealed(q) => Sealed(q)'
    BY <1>2, <1>4, <1>5, <2>1 DEF Sealed, VerifyBundle
  <2>3. \A q \in Runs : pc'[q] = "done" => pc[q] = "done"
    BY <1>5, <1>6
  <2> QED
    BY <1>5, <2>2, <2>3, PointersStay
<1>14. MigrationInv' /\ VersionMeansMigrated'
  BY <1>1, <1>5, <1>6 DEF MigrationInv, VersionMeansMigrated
<1> QED
  BY <1>8, <1>9, <1>11, <1>12, <1>13, <1>14

-----------------------------------------------------------------------------
(* latest.json and the database. *)

LEMMA LateSealed ==
    ASSUME IInv, NEW r \in Runs, pc[r] \in Late PROVE Sealed(r)
<1> USE DEF IInv, TypeOK
<1>1. Id(r) \in Ids
  BY DEF Id, Ids
<1>2. Reserved(r) /\ Written(pc[r]) = Artifacts
  BY DEF Reserved, Late, Written
<1>3. seal[Id(r)].state = "whole" /\ seal[Id(r)].hashes = files[Id(r)]
  BY <1>1 DEF SealInv
<1>4. \A f \in Artifacts : files[Id(r)][f] = r
  BY <1>2 DEF FileInv
<1> QED
  BY <1>3, <1>4 DEF Sealed, VerifyBundle

LEMMA CopyLatestStep ==
    ASSUME IInv, NEW r \in Runs, CopyLatest(r) PROVE IInv'
<1> USE EvidenceAssumption DEF IInv, CopyLatest, Goto, db, migration
<1>1. PICK l \in {"copying", "connect"} : pc' = [pc EXCEPT ![r] = l]
  OBVIOUS
<1>2. pc[r] \in Late /\ l \in Late \cup {"crashed"}
  BY DEF Late
<1>3. /\ pc' \in [Runs -> Labels]
      /\ OwnInv' /\ FileInv' /\ SealInv'
      /\ \A q \in Runs : Id(q)' = Id(q) /\ (Sealed(q) => Sealed(q)')
  BY <1>1, <1>2, MoveOn
<1>4. Sealed(r)'
  BY <1>2, <1>3, LateSealed
<1>5. TypeOK'
  <2>1. latest' \in [head : Runs \cup {Nil}, tail : Runs \cup {Nil}]
    BY DEF TypeOK
  <2> QED
    BY <1>3, <2>1 DEF TypeOK
<1>6. EvidencePrecedesPointers'
  <2>1. latest'.head \in {Nil, r} /\ latest'.tail \in {Nil, r, latest.tail}
    BY DEF TypeOK
  <2>2. latest.tail \in Runs \cup {Nil}
    BY DEF TypeOK
  <2>3. \A q \in {latest'.head, latest'.tail} \ {Nil} : Sealed(q)'
    BY <1>3, <1>4, <2>1, <2>2 DEF EvidencePrecedesPointers
  <2>4. \A q \in Runs : pc'[q] = "done" => pc[q] = "done"
    BY <1>1 DEF TypeOK
  <2>5. \A e \in Ids : rows'[e] # Nil => Id(rows[e])' = e /\ Sealed(rows[e])'
    BY <1>3 DEF EvidencePrecedesPointers, TypeOK
  <2>6. \A q \in Runs : pc'[q] = "done" => rows'[Id(q)'] = q
    BY <1>3, <2>4 DEF EvidencePrecedesPointers
  <2> QED
    BY <2>3, <2>5, <2>6 DEF EvidencePrecedesPointers
<1>7. MigrationInv' /\ VersionMeansMigrated'
  <2>1. pc[r] \in {"latest", "copying"} /\ pc'[r] \in {"copying", "connect"}
    BY <1>1 DEF TypeOK
  <2>2. \A q \in Runs \ {r} : pc'[q] = pc[q]
    BY <1>1 DEF TypeOK
  <2> QED
    BY <2>1, <2>2 DEF MigrationInv, VersionMeansMigrated
<1> QED
  BY <1>3, <1>5, <1>6, <1>7

LEMMA CrashStep ==
    ASSUME IInv, NEW r \in Runs, Crash(r) PROVE IInv'
<1> USE EvidenceAssumption DEF IInv, Crash, Goto, disk, db, migration
<1>1. /\ pc' \in [Runs -> Labels]
      /\ OwnInv' /\ FileInv' /\ SealInv'
      /\ \A q \in Runs : Id(q)' = Id(q) /\ (Sealed(q) => Sealed(q)')
  BY MoveOn
<1>2. TypeOK'
  BY <1>1 DEF TypeOK
<1>3. pc'[r] = "crashed" /\ \A q \in Runs \ {r} : pc'[q] = pc[q]
  BY DEF TypeOK
<1>4. EvidencePrecedesPointers'
  <2>1. \A q \in Runs : pc'[q] = "done" => pc[q] = "done"
    BY <1>3
  <2> QED
    BY <1>1, <2>1, PointersStay
<1>5. MigrationInv' /\ VersionMeansMigrated'
  BY <1>3 DEF MigrationInv, VersionMeansMigrated
<1> QED
  BY <1>1, <1>2, <1>4, <1>5

LEMMA ConnectStep ==
    ASSUME IInv, NEW r \in Runs, Connect(r) PROVE IInv'
<1> USE EvidenceAssumption DEF IInv, Connect, Goto, disk, db, migration
<1>1. PICK l \in {"save", "failed", "script", "info"} :
         /\ pc' = [pc EXCEPT ![r] = l] /\ (l = "save" => version = SCHEMA_VERSION)
         /\ l = "info" => version = 1 /\ pass' = [pass EXCEPT ![r] = V2Pass]
         /\ l # "info" => pass' = pass
  OBVIOUS
<1>2. pc[r] \in Late /\ l \in Late \cup {"crashed"}
  BY DEF Late
<1>3. /\ pc' \in [Runs -> Labels]
      /\ OwnInv' /\ FileInv' /\ SealInv'
      /\ \A q \in Runs : Id(q)' = Id(q) /\ (Sealed(q) => Sealed(q)')
  BY <1>1, <1>2, MoveOn
<1>4. TypeOK'
  <2>1. pass' \in [Runs -> 1..Len(Passes)]
    <3>1. pass \in [Runs -> 1..Len(Passes)] /\ V2Pass \in 1..Len(Passes)
      BY DEF TypeOK
    <3>2. pass' \in {pass, [pass EXCEPT ![r] = V2Pass]}
      BY <1>1
    <3> HIDE EvidenceAssumption DEF IInv, Connect, Goto, disk, db, migration
    <3> QED
      BY <3>1, <3>2
  <2> QED
    BY <1>3, <2>1 DEF TypeOK
<1>5. pc[r] = "connect" /\ pc'[r] = l /\ \A q \in Runs \ {r} : pc'[q] = pc[q]
  BY <1>1 DEF TypeOK
<1>6. EvidencePrecedesPointers'
  <2>1. \A q \in Runs : pc'[q] = "done" => pc[q] = "done"
    BY <1>5
  <2> QED
    BY <1>3, <2>1, PointersStay
<1>7. MigrationInv' /\ VersionMeansMigrated'
  <2>1. \A q \in Runs : q # r \/ l # "info" => pass'[q] = pass[q]
    BY <1>1 DEF TypeOK
  <2>2. l = "info" =>
          /\ cols \subseteq Columns /\ pass'[r] = V2Pass
          /\ \A n \in 1..(V2Pass - 1) : Passes[n] \subseteq cols
    BY <1>1 DEF MigrationInv, V1Columns, TypeOK
  <2>3. UNCHANGED <<version, cols, old_row, rows, missing>>
    OBVIOUS
  <2>4. VersionMeansMigrated'
    BY <2>3 DEF VersionMeansMigrated
  <2>5. ASSUME NEW q \in Runs
        PROVE  /\ pc'[q] \notin {"info", "alter", "save", "done", "failed", "crashed"} => pass'[q] = 1
               /\ pc'[q] \in {"info", "alter"} =>
                    cols \subseteq Columns /\ \A n \in 1..(pass'[q] - 1) : Passes[n] \subseteq cols
               /\ pc'[q] = "alter" => Passes[pass'[q]] \subseteq cols \cup missing[q]
               /\ pc'[q] = "save" => version = SCHEMA_VERSION
    <3>1. CASE q = r
      BY <1>1, <1>5, <2>1, <2>2, <3>1 DEF MigrationInv
    <3>2. CASE q # r
      BY <1>5, <2>1, <3>2 DEF MigrationInv
    <3> QED
      BY <3>1, <3>2
  <2> QED
    BY <2>3, <2>4, <2>5 DEF MigrationInv
<1> QED
  BY <1>3, <1>4, <1>6, <1>7

\* The steps between connect and save: bundles, pointers and rows stay, and no
\* column goes.
LEMMA MigrationStep ==
    ASSUME IInv, NEW r \in Runs, Script(r) \/ TableInfo(r) \/ Alter(r) \/ NextPass(r)
    PROVE  IInv'
<1> USE EvidenceAssumption, SchemaAssumption DEF IInv
<1>1. PICK l \in {"info", "alter", "failed"} :
         pc[r] \in {"script", "info", "alter"} /\ pc' = [pc EXCEPT ![r] = l]
  <2>1. CASE Alter(r)
    <3>1. pc' = pc => pc' = [pc EXCEPT ![r] = "alter"]
      BY <2>1 DEF TypeOK, Alter
    <3> QED
      BY <2>1, <3>1 DEF Alter, Goto
  <2> QED
    BY <2>1 DEF Script, TableInfo, NextPass, Goto
<1>2. pc[r] \in Late /\ l \in Late \cup {"crashed"}
  BY <1>1 DEF Late
<1>3. UNCHANGED <<second, base, suffix, disk, version, old_row, rows>>
  BY DEF Script, TableInfo, Alter, NextPass, db, migration
<1>4. UNCHANGED <<dirs, files, seal, latest>>
  BY <1>3 DEF disk
<1>5. /\ pc' \in [Runs -> Labels]
      /\ OwnInv' /\ FileInv' /\ SealInv'
      /\ \A q \in Runs : Id(q)' = Id(q) /\ (Sealed(q) => Sealed(q)')
  BY <1>1, <1>2, <1>3, <1>4, MoveOn
<1>6. pc'[r] = l /\ \A q \in Runs \ {r} : pc'[q] = pc[q]
  BY <1>1 DEF TypeOK
<1>7. EvidencePrecedesPointers'
  <2>1. \A q \in Runs : pc'[q] = "done" => pc[q] = "done"
    BY <1>1, <1>6
  <2> QED
    BY <1>3, <1>4, <1>5, <2>1, PointersStay
<1>8. \A n \in 1..Len(Passes) : Passes[n] \subseteq Columns
  BY DEF Columns
<1>9. CASE Script(r)
  <2>1. cols' = (IF cols = {Nil} THEN Base ELSE cols) /\ UNCHANGED <<pass, missing>>
        /\ pc[r] = "script" /\ pc'[r] = "info"
    BY <1>9 DEF Script, Goto, migration, TypeOK
  <2>2. cols' \subseteq Columns
    BY <2>1 DEF MigrationInv
  <2>3. pass[r] = 1
    BY <2>1 DEF MigrationInv
  <2>4. cols = {Nil} \/ cols' = cols
    BY <2>1
  <2>5. cols = {Nil} => ~(cols \subseteq Columns)
    OBVIOUS
  <2>6. TypeOK'
    BY <1>3, <1>4, <1>5, <2>1, <2>2 DEF TypeOK
  <2>7. MigrationInv'
    <3>1. \A q \in Runs \ {r} : pc'[q] \in {"info", "alter"} => cols' = cols
      BY <1>6, <2>4, <2>5 DEF MigrationInv
    <3> QED
      BY <1>3, <1>6, <2>1, <2>2, <2>3, <3>1 DEF MigrationInv
  <2>8. VersionMeansMigrated'
    BY <1>3, <2>4, <2>5 DEF VersionMeansMigrated
  <2> QED
    BY <1>5, <1>7, <2>6, <2>7, <2>8
<1>10. CASE TableInfo(r)
  <2>1. UNCHANGED <<cols, pass>> /\ missing' = [missing EXCEPT ![r] = Passes[pass[r]] \ cols]
        /\ pc[r] = "info" /\ pc'[r] = "alter"
    BY <1>10 DEF TableInfo, Goto, db, TypeOK, Missing
  <2>2. TypeOK'
    <3>1. Passes[pass[r]] \ cols \in SUBSET Columns
      BY <1>8 DEF TypeOK
    <3> QED
      BY <1>3, <1>4, <1>5, <2>1, <3>1 DEF TypeOK
  <2>3. MigrationInv'
    <3>1. missing'[r] = Passes[pass[r]] \ cols /\ \A q \in Runs \ {r} : missing'[q] = missing[q]
      BY <2>1 DEF TypeOK
    <3> QED
      BY <1>3, <1>6, <2>1, <3>1 DEF MigrationInv
  <2>4. VersionMeansMigrated'
    BY <1>3, <2>1 DEF VersionMeansMigrated
  <2> QED
    BY <1>5, <1>7, <2>2, <2>3, <2>4
<1>11. CASE Alter(r)
  <2>1. PICK c \in missing[r] :
           IF c \in cols
           THEN Goto(r, "failed") /\ UNCHANGED <<cols, missing>>
           ELSE /\ cols' = cols \cup {c}
                /\ missing' = [missing EXCEPT ![r] = @ \ {c}]
                /\ pc' = pc
    BY <1>11 DEF Alter
  <2>2. pc[r] = "alter" /\ pass' = pass /\ c \in Columns /\ cols \subseteq Columns
    BY <1>11, <2>1 DEF Alter, TypeOK, MigrationInv
  <2>3. cols' = cols \cup {c} /\ cols' \subseteq Columns /\ cols \subseteq cols'
    BY <2>1, <2>2
  <2>4. \A q \in Runs : missing[q] \subseteq missing'[q] \cup {c}
    <3>1. CASE missing' = missing
      BY <3>1
    <3>2. CASE missing' = [missing EXCEPT ![r] = @ \ {c}]
      <4>1. missing'[r] = missing[r] \ {c} /\ \A q \in Runs \ {r} : missing'[q] = missing[q]
        BY <3>2 DEF TypeOK
      <4> QED
        BY <4>1
    <3> QED
      BY <2>1, <3>1, <3>2
  <2>5. TypeOK'
    <3>1. missing' \in [Runs -> SUBSET Columns]
      <4>1. missing \in [Runs -> SUBSET Columns]
        BY DEF TypeOK
      <4>2. missing' = missing \/ missing' = [missing EXCEPT ![r] = missing[r] \ {c}]
        BY <2>1
      <4>3. missing[r] \ {c} \in SUBSET Columns
        BY <4>1
      <4> QED
        BY <4>1, <4>2, <4>3
    <3> QED
      BY <1>3, <1>4, <1>5, <2>2, <2>3, <3>1 DEF TypeOK
  <2>6. MigrationInv'
    <3>1. \A q \in Runs : pc'[q] \in {"info", "alter"} => pc'[q] = pc[q]
      BY <1>6, <2>1, <2>2 DEF Goto, TypeOK
    <3>2. \A q \in Runs : pc'[q] \in {"info", "alter"} =>
            \A n \in 1..(pass'[q] - 1) : Passes[n] \subseteq cols'
      BY <2>2, <2>3, <3>1 DEF MigrationInv
    <3>3. \A q \in Runs : pc'[q] = "alter" => Passes[pass'[q]] \subseteq cols' \cup missing'[q]
      BY <2>2, <2>3, <2>4, <3>1 DEF MigrationInv
    <3>4. \A q \in Runs :
            /\ pc'[q] \notin {"info", "alter", "save", "done", "failed", "crashed"} => pass'[q] = 1
            /\ pc'[q] = "save" => version' = SCHEMA_VERSION
      BY <1>1, <1>3, <1>6, <2>2 DEF MigrationInv
    <3>5. version' = 1 => cols' \subseteq Columns /\ V1Columns \subseteq cols'
      BY <1>3, <2>3 DEF MigrationInv
    <3> QED
      BY <2>3, <3>2, <3>3, <3>4, <3>5 DEF MigrationInv
  <2>7. VersionMeansMigrated'
    BY <1>3, <2>3 DEF VersionMeansMigrated
  <2> QED
    BY <1>5, <1>7, <2>5, <2>6, <2>7
<1>12. CASE NextPass(r)
  <2>1. UNCHANGED <<cols, missing>> /\ pass' = [pass EXCEPT ![r] = @ + 1] /\ pass[r] < Len(Passes)
        /\ pc[r] = "alter" /\ pc'[r] = "info" /\ missing[r] = {}
    BY <1>12 DEF NextPass, Goto, db, TypeOK
  <2>2. pass[r] \in 1..Len(Passes) /\ pass'[r] = pass[r] + 1 /\ \A q \in Runs \ {r} : pass'[q] = pass[q]
    BY <2>1 DEF TypeOK
  <2>3. TypeOK'
    <3>1. pass' \in [Runs -> 1..Len(Passes)]
      <4>1. pass \in [Runs -> 1..Len(Passes)] /\ Len(Passes) \in Nat
        BY EvidenceAssumption DEF EvidenceAssumption, TypeOK
      <4>2. pass[r] + 1 \in 1..Len(Passes)
        BY <2>1, <2>2, <4>1
      <4> QED
        BY <2>1, <4>1, <4>2
    <3>2. UNCHANGED <<cols, missing>>
      BY <2>1
    <3> QED
      BY <1>3, <1>4, <1>5, <3>1, <3>2 DEF TypeOK
  <2>4. MigrationInv'
    <3>1. \A n \in 1..pass[r] : Passes[n] \subseteq cols
      <4>1. \A n \in 1..(pass[r] - 1) : Passes[n] \subseteq cols
        BY <2>1 DEF MigrationInv
      <4>2. Passes[pass[r]] \subseteq cols
        BY <2>1 DEF MigrationInv
      <4>3. \A n \in 1..pass[r] : n \in 1..(pass[r] - 1) \/ n = pass[r]
        BY <2>2
      <4> QED
        BY <4>1, <4>2, <4>3
    <3>2. 1..(pass'[r] - 1) = 1..pass[r]
      BY <2>2
    <3> QED
      BY <1>3, <1>6, <2>1, <2>2, <3>1, <3>2 DEF MigrationInv
  <2>5. VersionMeansMigrated'
    BY <1>3, <2>1 DEF VersionMeansMigrated
  <2> QED
    BY <1>5, <1>7, <2>3, <2>4, <2>5
<1> QED
  BY <1>9, <1>10, <1>11, <1>12

LEMMA StampStep ==
    ASSUME IInv, NEW r \in Runs, Stamp(r) PROVE IInv'
<1> USE EvidenceAssumption, SchemaAssumption DEF IInv, Stamp, Migrated, Goto, disk, migration
<1>1. pc[r] \in Late /\ "save" \in Late
  BY DEF Late
<1>2. /\ pc' \in [Runs -> Labels]
      /\ OwnInv' /\ FileInv' /\ SealInv'
      /\ \A q \in Runs : Id(q)' = Id(q) /\ (Sealed(q) => Sealed(q)')
  BY <1>1, MoveOn
<1>3. pc'[r] = "save" /\ \A q \in Runs \ {r} : pc'[q] = pc[q]
  BY DEF TypeOK
<1>4. TypeOK'
  <2>1. version' \in 0..(SCHEMA_VERSION + 1)
    BY DEF SCHEMA_VERSION
  <2>2. old_row' \in {Nil, "unset", "legacy"}
    BY DEF TypeOK
  <2> QED
    BY <1>2, <2>1, <2>2 DEF TypeOK
<1>5. EvidencePrecedesPointers'
  <2>1. \A q \in Runs : pc'[q] = "done" => pc[q] = "done"
    BY <1>3
  <2> QED
    BY <1>2, <2>1, PointersStay
<1>6. MigrationInv'
  <2>1. version' # 1
    BY DEF SCHEMA_VERSION
  <2> QED
    BY <1>3, <2>1 DEF MigrationInv
<1>7. VersionMeansMigrated'
  <2>1. pass[r] = Len(Passes) /\ pass[r] \in Nat
    BY DEF TypeOK
  <2>2. \A n \in 1..(pass[r] - 1) : Passes[n] \subseteq cols
    BY DEF MigrationInv
  <2>3. Passes[pass[r]] \subseteq cols /\ cols \subseteq Columns
    BY DEF MigrationInv
  <2>4. \A n \in 1..Len(Passes) : n \in 1..(pass[r] - 1) \/ n = pass[r]
    BY <2>1
  <2>5. \A n \in 1..Len(Passes) : Passes[n] \subseteq cols
    BY <2>2, <2>3, <2>4
  <2>6. cols' = Columns
    BY <2>3, <2>5 DEF Columns
  <2>7. old_row' \in {Nil, "legacy"}
    BY DEF TypeOK
  <2> QED
    BY <2>6, <2>7 DEF VersionMeansMigrated
<1> QED
  BY <1>2, <1>4, <1>5, <1>6, <1>7

LEMMA SaveStep ==
    ASSUME IInv, NEW r \in Runs, Save(r) PROVE IInv'
<1> USE EvidenceAssumption DEF IInv, Save, Goto, disk, migration
<1>1. pc[r] \in Late /\ "done" \in Late
  BY DEF Late
<1>2. /\ pc' \in [Runs -> Labels]
      /\ OwnInv' /\ FileInv' /\ SealInv'
      /\ \A q \in Runs : Id(q)' = Id(q) /\ (Sealed(q) => Sealed(q)')
  BY <1>1, MoveOn
<1>3. pc'[r] = "done" /\ \A q \in Runs \ {r} : pc'[q] = pc[q]
  BY DEF TypeOK
<1>4. \A q \in Runs : Id(q) \in Ids
  BY DEF Id, Ids, TypeOK
<1>5. rows'[Id(r)] = r /\ \A d \in Ids \ {Id(r)} : rows'[d] = rows[d]
  BY <1>4 DEF TypeOK
<1>6. TypeOK'
  BY <1>2 DEF TypeOK
<1>7. EvidencePrecedesPointers'
  <2>1. Sealed(r)
    BY <1>1, LateSealed
  <2>2. \A q \in {latest'.head, latest'.tail} \ {Nil} : Sealed(q)'
    BY <1>2 DEF EvidencePrecedesPointers, TypeOK
  <2>3. \A d \in Ids : rows'[d] # Nil => Id(rows[d])' = d /\ Sealed(rows[d])'
    <3> SUFFICES ASSUME NEW d \in Ids, rows'[d] # Nil PROVE Id(rows[d])' = d /\ Sealed(rows[d])'
      OBVIOUS
    <3>1. CASE d = Id(r)
      BY <1>2, <1>5, <2>1, <3>1
    <3>2. CASE d # Id(r)
      <4>1. rows'[d] = rows[d] /\ rows[d] \in Runs /\ Id(rows[d]) = d /\ Sealed(rows[d])
        BY <1>5, <3>2 DEF EvidencePrecedesPointers, TypeOK
      <4> QED
        BY <1>2, <4>1
    <3> QED
      BY <3>1, <3>2
  <2>4. \A q \in Runs : pc'[q] = "done" => rows'[Id(q)'] = q
    <3> SUFFICES ASSUME NEW q \in Runs, pc'[q] = "done" PROVE rows'[Id(q)] = q
      BY <1>2
    <3>1. CASE q = r
      BY <1>5, <3>1
    <3>2. CASE q # r
      <4>1. rows[Id(q)] = q /\ pc[q] = "done"
        BY <1>3, <3>2 DEF EvidencePrecedesPointers
      <4>2. Id(q) # Id(r)
        BY <3>2, <4>1 DEF OwnInv, Reserved
      <4> QED
        BY <1>4, <1>5, <4>1, <4>2
    <3> QED
      BY <3>1, <3>2
  <2> QED
    BY <2>2, <2>3, <2>4 DEF EvidencePrecedesPointers
<1>8. MigrationInv'
  BY <1>3 DEF MigrationInv
<1>9. VersionMeansMigrated'
  <2>1. version = SCHEMA_VERSION
    BY DEF MigrationInv
  <2> QED
    BY <2>1 DEF VersionMeansMigrated
<1> QED
  BY <1>2, <1>6, <1>7, <1>8, <1>9

-----------------------------------------------------------------------------

LEMMA TickStep ==
    ASSUME IInv, Tick \/ UNCHANGED vars PROVE IInv'
<1> USE EvidenceAssumption
<1>1. UNCHANGED <<pc, base, suffix, dirs, files, seal, latest, version, cols, old_row, rows,
                  pass, missing>>
  BY DEF Tick, vars, disk, db, migration
<1>2. second' \in 0..MaxSecond
  <2>1. second \in 0..MaxSecond
    BY DEF IInv, TypeOK
  <2> QED
    BY <2>1 DEF Tick, vars
<1>3. TypeOK'
  BY <1>1, <1>2 DEF IInv, TypeOK
<1>4. \A q \in Runs : Id(q)' = Id(q) /\ (Reserved(q)' <=> Reserved(q))
  BY <1>1 DEF Id, Reserved
<1>5. OwnInv'
  BY <1>1, <1>4 DEF IInv, OwnInv
<1>6. FileInv'
  BY <1>1, <1>4 DEF IInv, FileInv
<1>7. SealInv'
  BY <1>1, <1>4 DEF IInv, SealInv
<1>8. MigrationInv'
  BY <1>1 DEF IInv, MigrationInv
<1>9. EvidencePrecedesPointers'
  <2>1. \A q \in Runs : Sealed(q) => Sealed(q)'
    BY <1>1, <1>4 DEF Sealed, VerifyBundle
  <2> QED
    BY <1>1, <1>4, <2>1, PointersStay
<1>10. VersionMeansMigrated'
  BY <1>1 DEF IInv, VersionMeansMigrated
<1> QED
  BY <1>3, <1>5, <1>6, <1>7, <1>8, <1>9, <1>10 DEF IInv

LEMMA NextIInv == IInv /\ [Next]_vars => IInv'
<1> SUFFICES ASSUME IInv, [Next]_vars PROVE IInv'
  OBVIOUS
<1>1. CASE \E r \in Runs : Step(r) \/ Crash(r)
  BY <1>1, StartStep, ReserveStep, WriteReportStep, SealStep, CopyLatestStep, ConnectStep,
     MigrationStep, StampStep, SaveStep, CrashStep DEF Step
<1>2. CASE Tick \/ UNCHANGED vars
  BY <1>2, TickStep
<1>3. CASE AllEnded
  BY <1>3, TickStep DEF AllEnded
<1> QED
  BY <1>1, <1>2, <1>3 DEF Next

LEMMA SpecIInv == Spec => []IInv
BY InitIInv, NextIInv, PTL DEF Spec

\* The values a run's labels, directories, bundles and rows can have.  That a
\* suffix never exceeds the number of runs is what bounds the loop of
\* _reserve_run_dir: a candidate is skipped only when another run has made it.
THEOREM EvidenceTypeCorrect == Spec => []TypeOK
<1>1. IInv => TypeOK
  BY DEF IInv
<1> QED
  BY <1>1, SpecIInv, PTL

\* A bundle that verifies is the whole evidence of one run, and a run past
\* write_bundle_checksums has such a bundle from then on, however many runs
\* _reserve_run_dir lets start in one second and wherever they die.
THEOREM BundlesAreWhole == Spec => []BundleIsOneRun
<1>1. IInv => BundleIsOneRun
  <2> SUFFICES ASSUME IInv PROVE BundleIsOneRun
    OBVIOUS
  <2> USE DEF IInv
  <2>1. \A d \in dirs : VerifyBundle(d) => \E r \in Runs : Id(r) = d /\ Sealed(r)
    <3> SUFFICES ASSUME NEW d \in dirs, VerifyBundle(d) PROVE \E r \in Runs : Id(r) = d /\ Sealed(r)
      OBVIOUS
    <3>1. d \in Ids
      BY DEF TypeOK
    <3>2. PICK r \in Runs : \A f \in Artifacts : files[d][f] = r
      BY <3>1 DEF VerifyBundle, SealInv
    <3>3. Id(r) = d
      BY <3>1, <3>2 DEF FileInv, Artifacts
    <3> QED
      BY <3>2, <3>3 DEF Sealed
  <2>2. \A r \in Runs : pc[r] \in Late => Sealed(r)
    BY LateSealed
  <2> QED
    BY <2>1, <2>2 DEF BundleIsOneRun, Late
<1> QED
  BY <1>1, SpecIInv, PTL

\* latest.json and the rows of the database hold nothing of a run whose bundle
\* is not sealed, and the row that save has written stays its run's.
THEOREM PointersFollowEvidence == Spec => []EvidencePrecedesPointers
<1>1. IInv => EvidencePrecedesPointers
  BY DEF IInv
<1> QED
  BY <1>1, SpecIInv, PTL

\* user_version is set only when every column of every pass of _add_columns is
\* there and old rows are marked, whichever processes migrate at the same time
\* and die in it; and save writes only into such a database.
THEOREM MigrationIsComplete == Spec => []VersionMeansMigrated
<1>1. IInv => VersionMeansMigrated
  BY DEF IInv
<1> QED
  BY <1>1, SpecIInv, PTL

=============================================================================
