---------------------- MODULE FindingAssignmentProofs ----------------------
(***************************************************************************)
(* _hungarian_min_cost keeps the certificate of optimality its result      *)
(* needs (PotentialsCertifyTheMatching), what _max_weight_matching makes   *)
(* of it is a maximum-weight one-to-one matching (MaximumWeight), and ties *)
(* resolve to the first finding (TiesTakeTheFirstFinding), for any number  *)
(* of bugs and findings and any weights.                                   *)
(***************************************************************************)
EXTENDS FindingAssignment, FiniteSetTheorems, TLAPS

\* The columns that hold a row of their own: while a path is handed back, all
\* but the one whose row was just handed on.
Live ==
    IF pc = "scan" THEN AllCols
    ELSE IF pc = "augment" THEN AllCols \ {j0}
    ELSE AllCols \ {0}

\* The rows up to i have a column, and no column is shared.
SlotInv ==
    /\ \A c \in AllCols \ {0} : c \notin Col => p[c] = 0
    /\ \A c \in AllCols : p[c] <= i
    /\ \A c, d \in Live : p[c] = p[d] /\ p[c] # 0 => c = d
    /\ \A r \in 1..i : \E c \in Live : p[c] = r
    /\ pc \in {"scan", "augment"} => i \in Row
    /\ pc = "scan" => p[0] = i

\* The path: it begins in the virtual column, and all its columns but the last
\* are matched.
PathInv ==
    /\ pc \in {"scan", "augment"} =>
         /\ used \subseteq Col \cup {0}
         /\ \A c \in used : p[c] # 0
    /\ pc = "scan" =>
         /\ j0 \in Col \cup {0} /\ j0 \notin used /\ p[j0] # 0
         /\ used = {} => j0 = 0
         /\ used # {} => 0 \in used
    /\ pc = "augment" => j0 \in Col

\* The slack of a column is its smallest reduced cost from a row on the path,
\* attained in the row `way` names, or it still is the infinity it began with,
\* less what the potentials have moved.
SlackInv ==
    pc = "scan" =>
        \A c \in Col \ used :
            /\ \A k \in used : minv[c] <= Reduced(p[k], c)
            /\ used # {} => minv[c] >= 0
            /\ \/ minv[c] = Inf - u[i]
               \/ way[c] \in used /\ minv[c] = Reduced(p[way[c]], c)

\* No unmatched column before c costs row r the same, unless c has a price.
TieFree(r, c) ==
    v[c] = 0 => \A d \in Col : d < c /\ p[d] = 0 => Cost(r, d) # Cost(r, c)

\* The columns of the path can be ranked so that `way` leads from each to an
\* earlier one along a pair without slack, the first of those that tie.
Ranked(rank) ==
    /\ \A c \in (used \cup {j0}) \ {0} :
         rank[c] <= rank[j0] =>
            /\ way[c] \in used /\ rank[way[c]] < rank[c]
            /\ Reduced(p[way[c]], c) = 0 /\ TieFree(p[way[c]], c)
    /\ pc = "scan" => \A c \in used : rank[c] < rank[j0]

WayInv ==
    pc \in {"scan", "augment"} => \E rank \in [AllCols -> Nat] : Ranked(rank)

DualInv ==
    /\ PotentialsCertifyTheMatching
    /\ \A r \in Row \ Covered : u[r] = 0

\* Rows are matched to the first of the columns that tie.
TieInv == \A c \in Col : p[c] # 0 => TieFree(p[c], c)

\* The loop over the rows runs to its end, if there is anything to match.
EndInv == pc = "done" => Columns = {} \/ i = Bugs

IInv == TypeOK /\ SlotInv /\ PathInv /\ SlackInv /\ WayInv /\ DualInv /\ TieInv /\ EndInv

-----------------------------------------------------------------------------
(* The operators. *)

\* Every nonempty set of naturals has a least element.
LEMMA LeastNatural ==
    ASSUME NEW S \in SUBSET Nat, S # {}
    PROVE  \E m \in S : \A n \in S : m <= n
<1>1. PICK m \in S : \A n \in S : ~(<<n, m>> \in OpToRel(<, Nat))
  BY NatLessThanWellFounded, WFMin
<1>2. \A n \in S : ~(n < m)
  BY <1>1 DEF OpToRel
<1> QED
  BY <1>2

\* There is a cheapest column: the slacks are bounded from below.
LEMMA CheapestFact ==
    ASSUME NEW free \in SUBSET Nat, free # {}, NEW slack, NEW low \in Nat,
           \A c \in free : slack[c] \in Int /\ slack[c] >= 0 - low
    PROVE  /\ Cheapest(slack, free) \in free
           /\ \A d \in free :
                /\ slack[Cheapest(slack, free)] <= slack[d]
                /\ slack[Cheapest(slack, free)] = slack[d] => Cheapest(slack, free) <= d
<1> DEFINE S == {slack[c] + low : c \in free}
<1>1. S \in SUBSET Nat /\ S # {}
  <2>1. ASSUME NEW c \in free PROVE slack[c] + low \in Nat
    <3>1. slack[c] \in Int /\ slack[c] >= 0 - low
      OBVIOUS
    <3> QED
      BY <3>1
  <2> QED
    BY <2>1
<1> HIDE DEF S
<1>2. PICK m \in S : \A n \in S : m <= n
  BY <1>1, LeastNatural
<1>3. \E c \in free : slack[c] + low = m
  BY <1>2 DEF S
<1> DEFINE T == {c \in free : slack[c] + low = m}
<1>4. T \in SUBSET Nat /\ T # {}
  BY <1>3
<1>5. PICK c \in T : \A d \in T : c <= d
  BY <1>4, LeastNatural
<1>6. ASSUME NEW d \in free
      PROVE  slack[c] < slack[d] \/ (slack[c] = slack[d] /\ c <= d)
  <2>1. slack[d] + low \in S
    BY <1>6 DEF S
  <2>2. slack[c] <= slack[d]
    BY <1>2, <1>5, <1>6, <2>1
  <2>3. CASE slack[c] = slack[d]
    <3>1. d \in T
      BY <1>5, <2>3
    <3> QED
      BY <1>5, <2>3, <3>1
  <2>4. CASE slack[c] # slack[d]
    BY <1>5, <1>6, <2>2, <2>4
  <2> QED
    BY <2>3, <2>4
<1>7. \E e \in free : \A d \in free : slack[e] < slack[d] \/ (slack[e] = slack[d] /\ e <= d)
  BY <1>5, <1>6
<1>8. /\ Cheapest(slack, free) \in free
      /\ \A d \in free : \/ slack[Cheapest(slack, free)] < slack[d]
                         \/ /\ slack[Cheapest(slack, free)] = slack[d]
                            /\ Cheapest(slack, free) <= d
  BY <1>7 DEF Cheapest
<1>9. slack[Cheapest(slack, free)] \in Int
  BY <1>8
<1> QED
  BY <1>8, <1>9

LEMMA ColumnsFact ==
    /\ Columns \in SUBSET (1..Findings) /\ IsFiniteSet(Columns)
    /\ real_cols \in 0..Findings
    /\ Col \subseteq AllCols \ {0} /\ Row \subseteq Nat
<1> USE SentinelAssumption DEF SentinelAssumption
<1>1. Columns \in SUBSET (1..Findings)
  BY DEF Columns
<1>2. IsFiniteSet(1..Findings) /\ Cardinality(1..Findings) = Findings
  BY FS_Interval
<1>3. IsFiniteSet(Columns) /\ Cardinality(Columns) \in Nat /\ Cardinality(Columns) <= Findings
  BY <1>1, <1>2, FS_Subset, FS_CardinalityType
<1> QED
  BY <1>1, <1>3 DEF real_cols, Col, AllCols, Row

\* The number of a finding's column: findings keep their order.
Place(f) == Cardinality({g \in Columns : g <= f})

LEMMA PlaceFact ==
    /\ \A f \in Columns : Place(f) \in 1..real_cols
    /\ \A f, g \in Columns : f < g => Place(f) < Place(g)
<1> DEFINE Below(f) == {g \in Columns : g <= f}
<1>1. Columns \in SUBSET (1..Findings) /\ IsFiniteSet(Columns) /\ real_cols \in Nat
  BY ColumnsFact
<1>2. \A f \in Columns : f \in Int
  BY <1>1, SentinelAssumption DEF SentinelAssumption
<1>3. ASSUME NEW f \in Columns
      PROVE  IsFiniteSet(Below(f)) /\ Cardinality(Below(f)) \in 1..real_cols
  <2>1. Below(f) \in SUBSET Columns /\ Below(f) # {}
    BY <1>2
  <2>2. IsFiniteSet(Below(f)) /\ Cardinality(Below(f)) \in Nat /\ Cardinality(Below(f)) <= real_cols
    BY <1>1, <2>1, FS_Subset, FS_CardinalityType DEF real_cols
  <2>3. Cardinality(Below(f)) # 0
    BY <2>1, <2>2, FS_EmptySet
  <2> QED
    BY <1>1, <2>2, <2>3
<1>4. ASSUME NEW f \in Columns, NEW g \in Columns, f < g
      PROVE  Cardinality(Below(f)) < Cardinality(Below(g))
  <2>1. Below(f) \in SUBSET (Below(g) \ {g}) /\ g \in Below(g)
    BY <1>2, <1>4
  <2>2. /\ IsFiniteSet(Below(g) \ {g})
        /\ Cardinality(Below(g) \ {g}) = Cardinality(Below(g)) - 1
    BY <1>3, <2>1, FS_RemoveElement
  <2>3. Cardinality(Below(f)) <= Cardinality(Below(g) \ {g})
    BY <2>1, <2>2, FS_Subset
  <2>4. Cardinality(Below(f)) \in Nat /\ Cardinality(Below(g)) \in Nat
    BY <1>3
  <2> QED
    BY <2>2, <2>3, <2>4
<1> QED
  BY <1>3, <1>4 DEF Place

\* The columns number the eligible findings: there is one finding for each.
LEMMA FindingFact ==
    /\ \A c \in 1..real_cols : FindingOf(c) \in Columns /\ Place(FindingOf(c)) = c
    /\ \A f \in Columns : FindingOf(Place(f)) = f
<1> DEFINE place == [f \in Columns |-> Place(f)]
<1>1. Columns \in SUBSET (1..Findings) /\ IsFiniteSet(Columns) /\ real_cols \in Nat
  BY ColumnsFact
<1>2. ASSUME NEW f \in Columns, NEW g \in Columns, Place(f) = Place(g) PROVE f = g
  <2>1. f \in Int /\ g \in Int
    BY <1>1, SentinelAssumption DEF SentinelAssumption
  <2>2. Place(f) \in Int /\ (f < g => Place(f) < Place(g)) /\ (g < f => Place(g) < Place(f))
    BY <1>1, PlaceFact
  <2> QED
    BY <1>2, <2>1, <2>2
<1>3. place \in Injection(Columns, 1..real_cols)
  BY <1>2, PlaceFact DEF Injection, IsInjective
<1>4. place \in Surjection(Columns, 1..real_cols)
  <2>1. IsFiniteSet(1..real_cols) /\ Cardinality(1..real_cols) = real_cols
    BY <1>1, FS_Interval
  <2>2. Cardinality(Columns) = Cardinality(1..real_cols)
    BY <2>1 DEF real_cols
  <2> QED
    BY <1>1, <1>3, <2>1, <2>2, FS_Injection
<1>5. ASSUME NEW c \in 1..real_cols
      PROVE  FindingOf(c) \in Columns /\ Place(FindingOf(c)) = c
  <2>1. \E f \in Columns : Place(f) = c
    BY <1>4 DEF Surjection
  <2> QED
    BY <2>1 DEF FindingOf, Place
<1>6. ASSUME NEW f \in Columns PROVE FindingOf(Place(f)) = f
  BY <1>2, <1>5, PlaceFact
<1> QED
  BY <1>5, <1>6

LEMMA CostFact ==
    ASSUME TypeOK
    PROVE  \A r \in Row, c \in Col :
             /\ Cost(r, c) \in Int
             /\ Cost(r, c) >= 0 - Forbidden
             /\ c > real_cols => Cost(r, c) = 0
<1> USE SentinelAssumption DEF SentinelAssumption
<1> SUFFICES ASSUME NEW r \in Row, NEW c \in Col
             PROVE  /\ Cost(r, c) \in Int
                    /\ Cost(r, c) >= 0 - Forbidden
                    /\ c > real_cols => Cost(r, c) = 0
  OBVIOUS
<1>1. real_cols \in Nat /\ c \in Nat /\ c >= 1
  BY ColumnsFact DEF Col
<1>2. CASE c > real_cols
  BY <1>2 DEF Cost
<1>3. CASE ~(c > real_cols)
  <2>1. FindingOf(c) \in 1..Findings
    <3>1. c \in 1..real_cols
      BY <1>1, <1>3
    <3>2. FindingOf(c) \in Columns
      BY <3>1, FindingFact
    <3> QED
      BY <3>2, ColumnsFact
  <2>2. weights[r][FindingOf(c)] \in Values \cup {None}
    BY <2>1 DEF TypeOK
  <2>3. ASSUME NEW w \in Values PROVE w \in Nat /\ w < Forbidden
    <3>1. w \in Nat /\ Bugs * w < Forbidden
      OBVIOUS
    <3>2. Bugs * w >= w
      BY <3>1
    <3> QED
      BY <3>1, <3>2
  <2>4. CASE weights[r][FindingOf(c)] = None
    BY <1>3, <2>4 DEF Cost
  <2>5. CASE weights[r][FindingOf(c)] # None
    <3> DEFINE w == weights[r][FindingOf(c)]
    <3>1. w \in Nat /\ w < Forbidden
      BY <2>2, <2>3, <2>5
    <3>2. Cost(r, c) = -w
      BY <1>3, <2>5 DEF Cost
    <3> HIDE DEF w
    <3> QED
      BY <1>3, <3>1, <3>2
  <2> QED
    BY <2>4, <2>5
<1> QED
  BY <1>2, <1>3

-----------------------------------------------------------------------------
(* The steps. *)

LEMMA InitIInv == Init => IInv
<1> SUFFICES ASSUME Init PROVE IInv
  OBVIOUS
<1> USE SentinelAssumption DEF SentinelAssumption, Init
<1>1. 0 \in AllCols /\ 0 \in 0..Bugs
  BY DEF AllCols
<1>2. TypeOK
  BY <1>1 DEF TypeOK
<1>3. SlotInv
  <2>1. i = 0 /\ \A c \in AllCols : p[c] = 0
    OBVIOUS
  <2>2. Live \in SUBSET AllCols /\ pc \notin {"scan", "augment"}
    BY DEF Live
  <2>3. 1..i = {}
    BY <2>1
  <2> QED
    BY <2>1, <2>2, <2>3 DEF SlotInv
<1>4. PathInv /\ SlackInv /\ WayInv
  BY DEF PathInv, SlackInv, WayInv
<1>5. DualInv
  <2>1. Covered = {}
    BY DEF Covered
  <2>2. \A c \in Col : v[c] = 0 /\ p[c] = 0
    BY ColumnsFact
  <2>3. \A r \in Row : u[r] = 0
    OBVIOUS
  <2> QED
    BY <2>1, <2>2, <2>3 DEF DualInv, PotentialsCertifyTheMatching
<1>6. TieInv /\ EndInv
  BY ColumnsFact DEF TieInv, EndInv
<1> QED
  BY <1>2, <1>3, <1>4, <1>5, <1>6 DEF IInv

\* The costs and the columns depend on the weights alone.
LEMMA SameCosts ==
    ASSUME UNCHANGED weights
    PROVE  /\ UNCHANGED <<Columns, real_cols, Col>>
           /\ \A r, c : Cost(r, c)' = Cost(r, c)
<1>1. UNCHANGED <<Columns, real_cols, Col>>
  BY DEF Columns, real_cols, Col
<1> QED
  BY <1>1 DEF Cost, FindingOf

\* Tie-freedom survives when prices fall and columns get matched.
LEMMA TieFreeKept ==
    ASSUME NEW r, NEW c, TieFree(r, c), UNCHANGED weights,
           v'[c] = 0 => v[c] = 0, \A d \in Col : p'[d] = 0 => p[d] = 0
    PROVE  /\ v'[c] = 0 => \A d \in Col : d < c /\ p'[d] = 0 => Cost(r, d) # Cost(r, c)
           /\ TieFree(r, c)'
<1>1. Col' = Col /\ \A d : Cost(r, d)' = Cost(r, d)
  BY SameCosts
<1>2. v'[c] = 0 => \A d \in Col : d < c /\ p'[d] = 0 => Cost(r, d) # Cost(r, c)
  BY DEF TieFree
<1> QED
  BY <1>1, <1>2 DEF TieFree

\* What the certificate says of the pairs, and that it is of integers.
LEMMA DualFact ==
    ASSUME IInv, NEW c \in Col
    PROVE  /\ c \in AllCols /\ c # 0 /\ v[c] \in Int /\ p[c] \in 0..Bugs
           /\ \A r \in Row : u[r] \in Int /\ Cost(r, c) \in Int /\ Reduced(r, c) \in Int
           /\ \A r \in Covered : Reduced(r, c) >= 0
           /\ p[c] # 0 => p[c] \in Row /\ Reduced(p[c], c) = 0
           /\ v[c] <= 0
           /\ p[c] = 0 => v[c] = 0
<1>1. c \in AllCols /\ c # 0
  BY ColumnsFact
<1>2. v[c] \in Int /\ p[c] \in 0..Bugs /\ \A r \in Row : u[r] \in Int
  BY <1>1 DEF IInv, TypeOK
<1>3. \A r \in Row : Cost(r, c) \in Int
  BY CostFact DEF IInv
<1>4. \A r \in Row : Reduced(r, c) \in Int
  BY <1>2, <1>3 DEF Reduced
<1>5. p[c] # 0 => p[c] \in Row
  BY <1>2, SentinelAssumption DEF SentinelAssumption, Row
<1> QED
  BY <1>1, <1>2, <1>3, <1>4, <1>5 DEF IInv, DualInv, PotentialsCertifyTheMatching

LEMMA StartRowStep == ASSUME IInv, StartRow PROVE IInv'
<1> USE SentinelAssumption DEF SentinelAssumption
<1>1. /\ pc = "row" /\ i < Bugs /\ i' = i + 1 /\ pc' = "scan" /\ j0' = 0 /\ used' = {}
      /\ p' = [p EXCEPT ![0] = i + 1] /\ minv' = [c \in AllCols |-> Inf]
      /\ UNCHANGED <<weights, u, v, way>>
  BY DEF StartRow
<1>2. 0 \in AllCols /\ i \in Nat /\ i' \in Row /\ p \in [AllCols -> 0..Bugs]
  <2>1. i \in 0..Bugs /\ p \in [AllCols -> 0..Bugs]
    BY DEF IInv, TypeOK
  <2>2. 0 \in AllCols
    BY DEF AllCols
  <2>3. i \in Nat /\ i + 1 \in 1..Bugs
    BY <1>1, <2>1
  <2> QED
    BY <1>1, <2>1, <2>2, <2>3 DEF Row
<1>3. p'[0] = i' /\ \A c \in AllCols \ {0} : p'[c] = p[c]
  BY <1>1, <1>2
<1>4. Col' = Col /\ \A r, c : Cost(r, c)' = Cost(r, c)
  BY <1>1, SameCosts
<1>5. Covered = 1..i /\ Covered' = 1..i
  BY <1>1, <1>2 DEF Covered
<1>6. TypeOK'
  <2>1. p' \in [AllCols -> 0..Bugs]
    BY <1>1, <1>2
  <2>2. minv' \in [AllCols -> Int]
    BY <1>1
  <2> QED
    BY <1>1, <1>2, <2>1, <2>2 DEF IInv, TypeOK
<1>7. SlotInv'
  <2>1. Live = AllCols \ {0} /\ Live' = AllCols
    BY <1>1 DEF Live
  <2>2. \A c \in AllCols : p'[c] <= i' /\ p'[c] \in Nat
    BY <1>1, <1>2, <1>3 DEF IInv, SlotInv
  <2>3. \A c, d \in AllCols : p'[c] = p'[d] /\ p'[c] # 0 => c = d
    BY <1>1, <1>2, <1>3, <2>1 DEF IInv, SlotInv
  <2>4. \A r \in 1..i' : \E c \in AllCols : p'[c] = r
    <3> SUFFICES ASSUME NEW r \in 1..i' PROVE \E c \in AllCols : p'[c] = r
      OBVIOUS
    <3>1. CASE r = i'
      BY <1>2, <1>3, <3>1
    <3>2. CASE r # i'
      <4>1. r \in 1..i
        BY <1>1, <1>2, <3>2
      <4>2. PICK c \in AllCols \ {0} : p[c] = r
        BY <2>1, <4>1 DEF IInv, SlotInv
      <4> QED
        BY <1>3, <4>2
    <3> QED
      BY <3>1, <3>2
  <2>5. \A c \in AllCols \ {0} : c \notin Col => p'[c] = 0
    BY <1>3 DEF IInv, SlotInv
  <2> QED
    BY <1>1, <1>2, <1>3, <1>4, <2>1, <2>2, <2>3, <2>4, <2>5 DEF SlotInv
<1>8. PathInv'
  BY <1>1, <1>2, <1>3 DEF PathInv, Row
<1>9. SlackInv'
  <2>1. u'[i'] = 0
    BY <1>1, <1>2, <1>5 DEF IInv, DualInv
  <2>2. \A c \in Col : minv'[c] = Inf - u'[i']
    BY <1>1, <2>1, ColumnsFact
  <2> QED
    BY <1>1, <1>4, <2>2 DEF SlackInv
<1>10. WayInv'
  <2>1. [c \in AllCols |-> 0] \in [AllCols -> Nat]
    OBVIOUS
  <2>2. Ranked([c \in AllCols |-> 0])'
    BY <1>1 DEF Ranked
  <2> QED
    BY <2>1, <2>2 DEF WayInv
<1>11. DualInv'
  <2>1. \A r, c : Reduced(r, c)' = Reduced(r, c)
    BY <1>1, <1>4 DEF Reduced
  <2>2. ASSUME NEW c \in Col
        PROVE  /\ \A r \in Covered : Reduced(r, c)' >= 0
               /\ p'[c] # 0 => Reduced(p[c], c)' = 0
               /\ v'[c] <= 0
               /\ p'[c] = 0 => v'[c] = 0
               /\ p'[c] = p[c]
    <3>1. p'[c] = p[c]
      BY <1>3, DualFact
    <3> QED
      BY <1>1, <2>1, <3>1, DualFact
  <2>3. PotentialsCertifyTheMatching'
    BY <1>4, <1>5, <2>2 DEF PotentialsCertifyTheMatching, Reduced
  <2> QED
    BY <1>1, <1>5, <2>3 DEF IInv, DualInv
<1>12. TieInv'
  <2>1. \A c \in Col : p'[c] = p[c]
    BY <1>3, ColumnsFact
  <2>2. ASSUME NEW c \in Col, p[c] # 0 PROVE TieFree(p[c], c)'
    <3>1. TieFree(p[c], c)
      BY <2>2 DEF IInv, TieInv
    <3> QED
      BY <1>1, <2>1, <3>1, TieFreeKept
  <2> QED
    BY <1>4, <2>1, <2>2 DEF TieInv
<1>13. EndInv'
  BY <1>1 DEF EndInv
<1> QED
  BY <1>6, <1>7, <1>8, <1>9, <1>10, <1>11, <1>12, <1>13 DEF IInv

LEMMA AssignedStep == ASSUME IInv, Assigned PROVE IInv'
<1>1. /\ pc = "row" /\ pc' = "done"
      /\ UNCHANGED <<weights, i, j0, u, v, p, way, minv, used>>
  BY DEF Assigned
<1>2. Col' = Col /\ Covered' = Covered /\ Live' = Live
  BY <1>1, SameCosts DEF Covered, Live
<1>3. \A r, c : Cost(r, c)' = Cost(r, c)
  BY <1>1, SameCosts
<1>4. TypeOK' /\ SlotInv'
  BY <1>1, <1>2 DEF IInv, TypeOK, SlotInv
<1>5. PathInv' /\ SlackInv' /\ WayInv'
  BY <1>1 DEF PathInv, SlackInv, WayInv
<1>6. DualInv'
  BY <1>1, <1>2, <1>3 DEF IInv, DualInv, PotentialsCertifyTheMatching, Reduced
<1>7. TieInv' /\ EndInv'
  BY <1>1, <1>2, <1>3 DEF Assigned, IInv, TieInv, TieFree, EndInv
<1> QED
  BY <1>4, <1>5, <1>6, <1>7 DEF IInv

LEMMA StutterStep == ASSUME IInv, UNCHANGED vars PROVE IInv'
<1>1. UNCHANGED <<weights, pc, i, j0, u, v, p, way, minv, used>>
  BY DEF vars
<1>2. Col' = Col /\ Covered' = Covered /\ Live' = Live
  BY <1>1, SameCosts DEF Covered, Live
<1>3. \A r, c : Cost(r, c)' = Cost(r, c)
  BY <1>1, SameCosts
<1>4. TypeOK' /\ SlotInv' /\ PathInv'
  BY <1>1, <1>2 DEF IInv, TypeOK, SlotInv, PathInv
<1>5. SlackInv'
  BY <1>1, <1>2, <1>3 DEF IInv, SlackInv, Reduced
<1>6. WayInv'
  BY <1>1, <1>2, <1>3 DEF IInv, WayInv, Ranked, Reduced, TieFree
<1>7. DualInv'
  BY <1>1, <1>2, <1>3 DEF IInv, DualInv, PotentialsCertifyTheMatching, Reduced
<1>8. TieInv' /\ EndInv'
  BY <1>1, <1>2, <1>3, SameCosts DEF IInv, TieInv, TieFree, EndInv
<1> QED
  BY <1>4, <1>5, <1>6, <1>7, <1>8 DEF IInv

LEMMA DoneStep == ASSUME IInv, Done PROVE IInv'
  BY StutterStep DEF Done

-----------------------------------------------------------------------------
(* The inner loop. *)

\* There are as many unmatched slots as bugs, so while a row sits elsewhere one
\* of them is left.
LEMMA FreeDummy ==
    ASSUME IInv, pc # "augment", NEW e \in Live, e <= real_cols, p[e] # 0
    PROVE  \E c \in Col : c > real_cols /\ p[c] = 0
<1> USE SentinelAssumption DEF SentinelAssumption
<1> DEFINE Slots == (real_cols + 1)..(real_cols + Bugs)
           Rows == Row \ {p[e]}
<1>1. /\ real_cols \in Nat /\ Col \subseteq AllCols \ {0} /\ Bugs \in Nat \ {0}
      /\ Col = 1..(real_cols + Bugs)
  <2>1. Bugs \in Nat \ {0}
    OBVIOUS
  <2> QED
    BY <2>1, ColumnsFact DEF Col
<1>2. Slots \subseteq Col /\ \A c \in Slots : c > real_cols
  BY <1>1
<1>3. Slots \subseteq Live /\ Live \subseteq AllCols
  <2>1. AllCols \ {0} \subseteq Live /\ Live \subseteq AllCols
    BY DEF Live
  <2> QED
    BY <1>1, <1>2, <2>1
<1>4. \A c \in Live : p[c] \in 0..Bugs
  BY <1>3 DEF IInv, TypeOK
<1>5. \A c, d \in Live : p[c] = p[d] /\ p[c] # 0 => c = d
  BY DEF IInv, SlotInv
<1> SUFFICES ASSUME \A c \in Slots : p[c] # 0 PROVE FALSE
  BY <1>2
<1> DEFINE f == [c \in Slots |-> p[c]]
<1>6. f \in [Slots -> Rows]
  <2> SUFFICES ASSUME NEW c \in Slots PROVE p[c] \in Row /\ p[c] # p[e]
    OBVIOUS
  <2>1. c \in Live /\ p[c] # 0 /\ p[c] \in 0..Bugs
    BY <1>3, <1>4
  <2>2. c # e
    BY <1>1, <1>2
  <2> QED
    BY <1>5, <2>1, <2>2 DEF Row
<1>7. IsFiniteSet(Slots) /\ Cardinality(Slots) = Bugs
  <2> DEFINE a == real_cols + 1
             b == real_cols + Bugs
  <2>1. a \in Int /\ b \in Int /\ ~(a > b) /\ b - a + 1 = Bugs
    BY <1>1
  <2>2. Slots = a..b
    OBVIOUS
  <2> HIDE DEF a, b, Slots
  <2>3. IsFiniteSet(a..b) /\ Cardinality(a..b) = IF a > b THEN 0 ELSE b - a + 1
    BY <2>1, FS_Interval
  <2> QED
    BY <2>1, <2>2, <2>3
<1>8. IsFiniteSet(Rows) /\ Cardinality(Rows) = Bugs - 1
  <2>1. IsFiniteSet(Row) /\ Cardinality(Row) = Bugs
    BY <1>1, FS_Interval DEF Row
  <2>2. p[e] \in Row
    BY <1>4 DEF Row
  <2> QED
    BY <2>1, <2>2, FS_RemoveElement
<1>9. \E c, d \in Slots : c # d /\ f[c] = f[d]
  <2>1. Cardinality(Rows) < Cardinality(Slots)
    BY <1>1, <1>7, <1>8
  <2> HIDE DEF f, Slots, Rows
  <2> QED
    BY <1>6, <1>7, <1>8, <2>1, FS_PigeonHole
<1> QED
  BY <1>3, <1>5, <1>9

\* A scan keeps the certificate: the potentials move by the smallest slack, which
\* a pair with a row of the path attains, so no reduced cost turns negative and
\* the pairs along the path keep theirs at zero.
LEMMA ScanStep == ASSUME IInv, Scan PROVE IInv'
<1> DEFINE on    == used \cup {j0}
           free  == Col \ on
           slack == [c \in AllCols |->
                       IF c \in free /\ Better(c) THEN Reduced(p[j0], c) ELSE minv[c]]
           j1    == Cheapest(slack, free)
           delta == slack[j1]
           OnPath(r) == \E k \in on : p[k] = r
<1>1. /\ pc = "scan" /\ used' = on /\ j0' = j1
      /\ way' = [c \in AllCols |-> IF c \in free /\ Better(c) THEN j0 ELSE way[c]]
      /\ u' = [r \in Row |-> IF OnPath(r) THEN u[r] + delta ELSE u[r]]
      /\ v' = [c \in AllCols |-> IF c \in on THEN v[c] - delta ELSE v[c]]
      /\ minv' = [c \in AllCols |-> IF c \in free THEN slack[c] - delta ELSE slack[c]]
      /\ pc' = IF p[j1] = 0 THEN "augment" ELSE "scan"
      /\ UNCHANGED <<weights, i, p>>
  BY DEF Scan
<1>2. /\ on \subseteq Col \cup {0} /\ 0 \in on /\ j0 \in on
      /\ \A k \in on : p[k] # 0
      /\ used = {} => on = {0}
  BY <1>1 DEF IInv, PathInv
<1>3. 0 \in AllCols /\ Col \subseteq AllCols \ {0} /\ on \subseteq AllCols
  <2>1. 0 \in AllCols
    BY SentinelAssumption DEF SentinelAssumption, AllCols
  <2> HIDE DEF on
  <2> QED
    BY <1>2, <2>1, ColumnsFact
<1>4. i \in Row /\ p[0] = i /\ i \in Nat /\ Row = 1..Bugs /\ Bugs \in Nat
  <2>1. Row = 1..Bugs /\ Bugs \in Nat
    BY SentinelAssumption DEF SentinelAssumption, Row
  <2>2. i \in Row /\ p[0] = i
    BY <1>1 DEF IInv, SlotInv
  <2> QED
    BY <2>1, <2>2
<1>5. \A k \in on : p[k] \in Row /\ p[k] \in 1..i
  <2> SUFFICES ASSUME NEW k \in on PROVE p[k] \in Row /\ p[k] \in 1..i
    OBVIOUS
  <2>1. p[k] \in 0..Bugs /\ p[k] <= i /\ p[k] # 0
    BY <1>2, <1>3 DEF IInv, TypeOK, SlotInv
  <2> QED
    BY <1>4, <2>1
<1>6. \A c, d \in AllCols : p[c] = p[d] /\ p[c] # 0 => c = d
  BY <1>1 DEF IInv, SlotInv, Live
<1>7. /\ used = {} => u[i] = 0
      /\ used # {} => Covered = 1..i
      /\ 1..(i - 1) \subseteq Covered /\ Covered \subseteq 1..i
  <2>1. used = {} => Covered = 1..(i - 1)
    BY <1>1 DEF Covered
  <2>2. used # {} => Covered = 1..i
    BY DEF Covered
  <2>3. i \notin 1..(i - 1) /\ 1..(i - 1) \subseteq 1..i
    BY <1>4
  <2>4. \A r \in Row \ Covered : u[r] = 0
    BY DEF IInv, DualInv
  <2> QED
    BY <1>4, <2>1, <2>2, <2>3, <2>4
<1>8. u[i] \in Int /\ Forbidden \in Nat /\ Inf \in Nat \ {0}
  BY <1>4, SentinelAssumption DEF SentinelAssumption, IInv, TypeOK
<1>9. ASSUME NEW c \in free
      PROVE  /\ c \in Col /\ c \in AllCols /\ minv[c] \in Int /\ v[c] <= 0 /\ v[c] \in Int
             /\ \A r \in Row : Reduced(r, c) \in Int /\ u[r] \in Int
             /\ \A k \in used : minv[c] <= Reduced(p[k], c)
             /\ used # {} => minv[c] >= 0
             /\ minv[c] = Inf - u[i] \/ (way[c] \in used /\ minv[c] = Reduced(p[way[c]], c))
  <2>1. c \in Col /\ c \in AllCols /\ c \notin used
    BY <1>3
  <2>2. minv[c] \in Int
    BY <2>1 DEF IInv, TypeOK
  <2> HIDE DEF free
  <2>3. \A r \in Row : Reduced(r, c) \in Int /\ u[r] \in Int
    BY <2>1, DualFact
  <2>4. v[c] <= 0 /\ v[c] \in Int
    BY <2>1, DualFact
  <2> QED
    BY <1>1, <2>1, <2>2, <2>3, <2>4 DEF IInv, SlackInv
<1>10. ASSUME NEW c \in free
       PROVE  /\ slack[c] \in Int
              /\ slack[c] = minv[c] \/ slack[c] = Reduced(p[j0], c)
              /\ slack[c] <= minv[c] /\ slack[c] <= Reduced(p[j0], c)
              /\ \/ way'[c] = way[c] /\ slack[c] = minv[c]
                 \/ way'[c] = j0 /\ slack[c] = Reduced(p[j0], c)
  <2>1. c \in AllCols /\ minv[c] \in Int /\ Reduced(p[j0], c) \in Int
    BY <1>2, <1>5, <1>9
  <2>2. CASE Better(c)
    <3>1. slack[c] = Reduced(p[j0], c) /\ way'[c] = j0
      BY <1>1, <1>10, <2>1, <2>2
    <3>2. Reduced(p[j0], c) < minv[c]
      BY <2>2 DEF Better
    <3> HIDE DEF slack
    <3> QED
      BY <2>1, <3>1, <3>2
  <2>3. CASE ~Better(c)
    <3>1. slack[c] = minv[c] /\ way'[c] = way[c]
      BY <1>1, <1>10, <2>1, <2>3
    <3>2. ~(Reduced(p[j0], c) < minv[c])
      BY <2>3 DEF Better
    <3> HIDE DEF slack
    <3> QED
      BY <2>1, <3>1, <3>2
  <2> QED
    BY <2>2, <2>3
<1>11. \A c \in AllCols : slack[c] \in Int
  <2> SUFFICES ASSUME NEW c \in AllCols PROVE slack[c] \in Int
    OBVIOUS
  <2>1. CASE c \in free
    BY <1>10, <2>1
  <2>2. CASE c \notin free
    BY <2>2 DEF IInv, TypeOK
  <2> QED
    BY <2>1, <2>2
<1>12. on = used \cup {j0} /\ free = Col \ on
  OBVIOUS
<1> HIDE DEF slack, free, on
\* What the slacks are of, now that j0 has been scanned.
<1>13. ASSUME NEW c \in free
       PROVE  /\ \A k \in on : slack[c] <= Reduced(p[k], c)
              /\ used # {} => slack[c] >= 0
              /\ slack[c] >= 0 - Forbidden
              /\ slack[c] = Inf - u[i] \/ (way'[c] \in on /\ slack[c] = Reduced(p[way'[c]], c))
  <2>1. \A k \in on : slack[c] <= Reduced(p[k], c)
    <3> SUFFICES ASSUME NEW k \in on PROVE slack[c] <= Reduced(p[k], c)
      OBVIOUS
    <3>1. CASE k = j0
      BY <1>10, <3>1
    <3>2. CASE k # j0
      <4>1. minv[c] <= Reduced(p[k], c) /\ minv[c] \in Int /\ Reduced(p[k], c) \in Int
        BY <1>5, <1>9, <1>12, <3>2
      <4>2. slack[c] <= minv[c] /\ slack[c] \in Int
        BY <1>10
      <4> QED
        BY <4>1, <4>2
    <3> QED
      BY <3>1, <3>2
  <2>2. slack[c] = Inf - u[i] \/ (way'[c] \in on /\ slack[c] = Reduced(p[way'[c]], c))
    BY <1>2, <1>9, <1>10, <1>12
  <2>3. used # {} => slack[c] >= 0
    <3> SUFFICES ASSUME used # {} PROVE slack[c] >= 0
      OBVIOUS
    <3>1. minv[c] >= 0
      BY <1>9
    <3>2. Reduced(p[j0], c) >= 0
      <4>1. p[j0] \in Covered /\ c \in Col
        BY <1>2, <1>5, <1>7, <1>9
      <4> QED
        BY <4>1, DualFact
    <3> QED
      BY <1>10, <3>1, <3>2
  <2>4. slack[c] >= 0 - Forbidden
    <3>1. CASE used # {}
      BY <1>8, <1>10, <2>3, <3>1
    <3>2. CASE used = {}
      <4>1. u[i] = 0 /\ p[j0] = i
        BY <1>2, <1>4, <1>7, <3>2
      <4>2. Cost(i, c) \in Int /\ Cost(i, c) >= 0 - Forbidden
        BY <1>4, <1>9, CostFact DEF IInv
      <4>3. Reduced(p[j0], c) = Cost(i, c) - 0 - v[c]
        BY <4>1 DEF Reduced
      <4>4. Reduced(p[j0], c) >= 0 - Forbidden
        BY <1>8, <1>9, <4>2, <4>3
      <4>5. minv[c] = Inf
        BY <1>8, <1>9, <3>2, <4>1
      <4> QED
        BY <1>8, <1>10, <4>4, <4>5
    <3> QED
      BY <3>1, <3>2
  <2> QED
    BY <2>1, <2>2, <2>3, <2>4
\* An unmatched slot keeps the smallest slack below infinity.
<1>14. PICK c0 \in Col : c0 > real_cols /\ p[c0] = 0
  <2>1. 0 \in Live /\ 0 <= real_cols /\ p[0] # 0
    BY <1>1, <1>2, <1>3, ColumnsFact DEF Live
  <2> QED
    BY <1>1, <2>1, FreeDummy
<1>15. c0 \in free /\ slack[c0] <= 0 - u[i]
  <2>1. c0 \in free
    BY <1>2, <1>12, <1>14
  <2>2. v[c0] = 0 /\ Cost(i, c0) = 0
    BY <1>4, <1>14, DualFact, CostFact DEF IInv
  <2>3. Reduced(p[0], c0) = 0 - u[i] - 0
    BY <1>4, <2>2 DEF Reduced
  <2>4. Reduced(p[0], c0) = 0 - u[i]
    BY <1>8, <2>3
  <2> QED
    BY <1>2, <1>13, <2>1, <2>4
<1>16. j1 \in free /\ \A d \in free : delta <= slack[d] /\ (delta = slack[d] => j1 <= d)
  <2>1. free \in SUBSET Nat
    <3>1. free \subseteq AllCols
      BY <1>9
    <3> QED
      BY <3>1, SentinelAssumption DEF SentinelAssumption, AllCols
  <2>2. free # {}
    BY <1>15
  <2>3. \A c \in free : slack[c] \in Int /\ slack[c] >= 0 - Forbidden
    BY <1>10, <1>13
  <2> QED
    BY <1>8, <2>1, <2>2, <2>3, CheapestFact
<1>17. /\ j1 \in Col /\ j1 \in AllCols /\ j1 \notin on /\ j1 # 0 /\ delta \in Int
       /\ used # {} => delta >= 0
  <2>1. j1 \in Col /\ j1 \in AllCols /\ j1 \notin on
    BY <1>9, <1>12, <1>16
  <2>2. delta \in Int
    BY <1>11, <2>1
  <2>3. j1 # 0
    BY <1>3, <2>1
  <2> QED
    BY <1>13, <1>16, <2>1, <2>2, <2>3
<1>18. delta = Reduced(p[way'[j1]], j1) /\ way'[j1] \in on
  <2>1. slack[c0] \in Int /\ delta <= slack[c0]
    BY <1>15, <1>16, <1>10
  <2>2. delta # Inf - u[i]
    BY <1>8, <1>15, <1>17, <2>1
  <2> QED
    BY <1>13, <1>16, <2>2
<1> HIDE DEF j1, delta, OnPath
<1>19. /\ \A r \in Row : OnPath(r) => u'[r] = u[r] + delta
       /\ \A r \in Row : ~OnPath(r) => u'[r] = u[r]
       /\ \A c \in on : v'[c] = v[c] - delta
       /\ \A c \in free : v'[c] = v[c] /\ minv'[c] = slack[c] - delta
       /\ \A c \in on : way'[c] = way[c]
  <2>1. \A c \in on : c \in AllCols /\ c \notin free
    BY <1>3, <1>12
  <2>2. \A c \in free : c \in AllCols /\ c \notin on
    BY <1>9, <1>12
  <2> QED
    BY <1>1, <2>1, <2>2
<1>20. \A k \in on : OnPath(p[k])
  BY DEF OnPath
<1>21. Col' = Col /\ \A r, c : Cost(r, c)' = Cost(r, c)
  BY <1>1, SameCosts
\* How the reduced costs move.
<1>22. ASSUME NEW r \in Row, NEW c \in Col
       PROVE  /\ Reduced(r, c) \in Int
              /\ OnPath(r) /\ c \in on => Reduced(r, c)' = Reduced(r, c)
              /\ OnPath(r) /\ c \in free => Reduced(r, c)' = Reduced(r, c) - delta
              /\ ~OnPath(r) /\ c \in on => Reduced(r, c)' = Reduced(r, c) + delta
              /\ ~OnPath(r) /\ c \in free => Reduced(r, c)' = Reduced(r, c)
  <2>1. u[r] \in Int /\ v[c] \in Int /\ Cost(r, c) \in Int
    BY DualFact
  <2>2. Reduced(r, c) = Cost(r, c) - u[r] - v[c]
    BY DEF Reduced
  <2>3. Reduced(r, c)' = Cost(r, c) - u'[r] - v'[c]
    BY <1>21 DEF Reduced
  <2> QED
    BY <1>17, <1>19, <2>1, <2>2, <2>3
<1>23. Covered' = 1..i
  <2>1. used' # {}
    BY <1>1, <1>2
  <2> QED
    BY <1>1, <2>1 DEF Covered
<1>24. pc' \in {"scan", "augment"}
  BY <1>1
<1>25. TypeOK'
  <2>1. u' \in [Row -> Int]
    <3>1. u \in [Row -> Int]
      BY DEF IInv, TypeOK
    <3> QED
      BY <1>1, <1>17, <3>1
  <2>2. v' \in [AllCols -> Int]
    <3>1. v \in [AllCols -> Int]
      BY DEF IInv, TypeOK
    <3> QED
      BY <1>1, <1>17, <3>1
  <2>3. minv' \in [AllCols -> Int]
    BY <1>1, <1>11, <1>17
  <2>4. way' \in [AllCols -> AllCols]
    <3>1. way \in [AllCols -> AllCols] /\ j0 \in AllCols
      BY DEF IInv, TypeOK
    <3> QED
      BY <1>1, <3>1
  <2> QED
    BY <1>1, <1>3, <1>17, <1>24, <2>1, <2>2, <2>3, <2>4 DEF IInv, TypeOK
<1>26. SlotInv'
  <2>1. Live = AllCols
    BY <1>1 DEF Live
  <2>2. Live' = AllCols \/ (Live' = AllCols \ {j1} /\ p[j1] = 0)
    BY <1>1 DEF Live
  <2>3. \A r \in 1..i : \E c \in Live' : p[c] = r
    <3> SUFFICES ASSUME NEW r \in 1..i PROVE \E c \in Live' : p[c] = r
      OBVIOUS
    <3>1. PICK c \in AllCols : p[c] = r
      BY <2>1 DEF IInv, SlotInv
    <3>2. r # 0
      OBVIOUS
    <3> QED
      BY <2>2, <3>1, <3>2
  <2>4. \A c, d \in Live' : p[c] = p[d] /\ p[c] # 0 => c = d
    BY <1>6, <2>2
  <2>5. /\ \A c \in AllCols \ {0} : c \notin Col => p[c] = 0
        /\ \A c \in AllCols : p[c] <= i
    BY DEF IInv, SlotInv
  <2> QED
    BY <1>1, <1>4, <1>21, <2>3, <2>4, <2>5 DEF SlotInv
<1>27. PathInv'
  BY <1>1, <1>2, <1>17, <1>21 DEF PathInv
<1>28. SlackInv'
  <2> SUFFICES ASSUME NEW c \in free
               PROVE  /\ \A k \in on : minv'[c] <= Reduced(p[k], c)'
                      /\ minv'[c] >= 0
                      /\ \/ minv'[c] = Inf - u'[i]
                         \/ way'[c] \in on /\ minv'[c] = Reduced(p[way[c]], c)'
    <3>1. (Col \ used)' = free /\ used' = on /\ p' = p /\ i' = i
      BY <1>1, <1>12, <1>21
    <3> QED
      BY <3>1 DEF SlackInv
  <2>1. c \in Col /\ slack[c] \in Int /\ delta \in Int /\ delta <= slack[c]
    BY <1>9, <1>10, <1>16, <1>17
  <2>2. minv'[c] = slack[c] - delta
    BY <1>19
  <2>3. \A k \in on : Reduced(p[k], c)' = Reduced(p[k], c) - delta /\ Reduced(p[k], c) \in Int
    BY <1>1, <1>5, <1>20, <1>22, <2>1
  <2>4. u'[i] = u[i] + delta
    BY <1>2, <1>4, <1>19, <1>20
  <2>5. \A k \in on : minv'[c] <= Reduced(p[k], c)'
    BY <1>13, <2>1, <2>2, <2>3
  <2>6. minv'[c] >= 0
    BY <2>1, <2>2
  <2>7. CASE slack[c] = Inf - u[i]
    BY <1>8, <2>1, <2>2, <2>4, <2>5, <2>6, <2>7
  <2>8. CASE way'[c] \in on /\ slack[c] = Reduced(p[way'[c]], c)
    <3>1. Reduced(p[way[c]], c)' = Reduced(p[way'[c]], c) - delta
      BY <1>1, <1>5, <1>20, <1>22, <2>1, <2>8
    <3> QED
      BY <2>2, <2>5, <2>6, <2>8, <3>1
  <2> QED
    BY <1>13, <2>7, <2>8
\* The lowest of the cheapest columns: an unmatched one before it that costs the
\* same would have a slack as small.
<1>29. ASSUME NEW d \in Col, d < j1, p[d] = 0, v'[j1] = 0
       PROVE  Cost(p[way'[j1]], d) # Cost(p[way'[j1]], j1)
  <2>1. PICK r \in Row : r = p[way'[j1]]
    BY <1>5, <1>18
  <2>2. d \in free
    BY <1>2, <1>12, <1>29
  <2>3. v[d] = 0 /\ v[j1] = 0
    BY <1>16, <1>19, <1>29, DualFact
  <2>4. u[r] \in Int /\ Cost(r, d) \in Int /\ Cost(r, j1) \in Int
    BY <1>17, DualFact
  <2>5. Reduced(r, d) = Cost(r, d) - u[r] /\ delta = Cost(r, j1) - u[r]
    <3>1. Reduced(r, d) = Cost(r, d) - u[r] - 0 /\ delta = Cost(r, j1) - u[r] - 0
      BY <1>18, <2>1, <2>3 DEF Reduced
    <3> QED
      BY <2>4, <3>1
  <2>6. slack[d] <= Reduced(r, d) /\ slack[d] \in Int
    BY <1>10, <1>13, <1>18, <2>1, <2>2
  <2>7. delta <= slack[d] /\ (delta = slack[d] => j1 <= d)
    BY <1>16, <2>2
  <2>8. j1 \in Nat /\ d \in Nat
    BY <1>17, ColumnsFact, SentinelAssumption DEF SentinelAssumption, AllCols
  <2>9. ~(delta = slack[d])
    BY <1>29, <2>7, <2>8
  <2>10. Cost(r, d) # Cost(r, j1)
    BY <1>17, <2>4, <2>5, <2>6, <2>7, <2>9
  <2> QED
    BY <2>1, <2>10
<1>30. \A c \in Col : v'[c] = 0 => v[c] = 0
  <2> SUFFICES ASSUME NEW c \in Col, v'[c] = 0 PROVE v[c] = 0
    OBVIOUS
  <2>1. v[c] \in Int /\ v[c] <= 0
    BY DualFact
  <2>2. CASE c \in on
    <3>1. used # {}
      BY <1>2, <1>3, <2>2
    <3>2. v'[c] = v[c] - delta /\ delta >= 0 /\ delta \in Int
      BY <1>17, <1>19, <2>2, <3>1
    <3> QED
      BY <2>1, <3>2
  <2>3. CASE c \in free
    BY <1>19, <2>3
  <2> QED
    BY <1>12, <2>2, <2>3
<1>31. WayInv'
  <2>1. PICK rank \in [AllCols -> Nat] : Ranked(rank)
    BY <1>1 DEF IInv, WayInv
  <2>2. j0 \in AllCols /\ rank[j0] \in Nat
    BY <1>2, <1>3
  <2>3. PICK next \in [AllCols -> Nat] :
          /\ next[j1] = rank[j0] + 1
          /\ \A c \in on : next[c] = rank[c] /\ rank[c] \in Nat
    <3> DEFINE longer == [c \in AllCols |-> IF c = j1 THEN rank[j0] + 1 ELSE rank[c]]
    <3>1. /\ longer \in [AllCols -> Nat] /\ longer[j1] = rank[j0] + 1
          /\ \A c \in on : longer[c] = rank[c] /\ rank[c] \in Nat
      BY <1>3, <1>17, <2>2
    <3> QED
      BY <3>1
  <2>4. \A c \in on : rank[c] <= rank[j0]
    BY <1>1, <1>12, <2>1, <2>2, <2>3 DEF Ranked
  <2>5. \A c \in on : next[c] < next[j1]
    BY <2>2, <2>3, <2>4
  <2>6. ASSUME NEW c \in (on \cup {j1}) \ {0}
        PROVE  /\ way'[c] \in on /\ next[way'[c]] < next[c]
               /\ Reduced(p[way[c]], c)' = 0 /\ TieFree(p[way[c]], c)'
    <3>1. CASE c = j1
      <4>1. way'[c] \in on /\ delta = Reduced(p[way'[c]], c) /\ c \in free /\ c \in Col
        BY <1>16, <1>17, <1>18, <3>1
      <4>2. Reduced(p[way[c]], c)' = Reduced(p[way'[c]], c) - delta
        BY <1>1, <1>5, <1>20, <1>22, <4>1
      <4>3. TieFree(p[way[c]], c)'
        BY <1>1, <1>21, <1>29, <3>1 DEF TieFree
      <4> QED
        BY <1>17, <2>5, <3>1, <4>1, <4>2, <4>3
    <3>2. CASE c \in on
      <4>1. /\ way[c] \in used /\ rank[way[c]] < rank[c]
            /\ Reduced(p[way[c]], c) = 0 /\ TieFree(p[way[c]], c)
        BY <1>12, <2>1, <2>4, <2>6, <3>2 DEF Ranked
      <4>2. way'[c] = way[c] /\ way[c] \in on /\ c \in Col
        BY <1>2, <1>12, <1>19, <2>6, <3>2, <4>1
      <4>3. next[way'[c]] < next[c]
        BY <2>3, <3>2, <4>1, <4>2
      <4>4. Reduced(p[way[c]], c)' = Reduced(p[way'[c]], c)
        BY <1>1, <1>5, <1>20, <1>22, <3>2, <4>2
      <4>5. TieFree(p[way[c]], c)'
        <5>1. v'[c] = 0 => v[c] = 0
          BY <1>30, <4>2
        <5>2. TieFree(p'[way'[c]], c)
          BY <1>1, <4>1, <4>2
        <5> QED
          BY <1>1, <5>1, <5>2, TieFreeKept
      <4> QED
        BY <4>1, <4>2, <4>3, <4>4, <4>5
    <3> QED
      BY <3>1, <3>2
  <2>7. Ranked(next)'
    BY <1>1, <2>5, <2>6 DEF Ranked
  <2> QED
    BY <2>3, <2>7 DEF WayInv
<1>32. DualInv'
  <2>1. \A c \in Col : c \in on \/ c \in free
    BY <1>12
  <2>2. \A c \in Col : c \in on => used # {}
    BY <1>2, <1>3
  <2>3. ASSUME NEW c \in Col, NEW r \in 1..i PROVE Reduced(r, c)' >= 0
    <3>1. r \in Row
      BY <1>4
    <3>2. CASE c \in on
      <4>1. delta >= 0 /\ r \in Covered
        BY <1>7, <1>17, <2>2, <3>2
      <4>2. Reduced(r, c) >= 0
        BY <4>1, DualFact
      <4> QED
        BY <1>17, <1>22, <3>1, <3>2, <4>1, <4>2
    <3>3. CASE c \in free /\ OnPath(r)
      <4>1. PICK k \in on : p[k] = r
        BY <3>3 DEF OnPath
      <4>2. slack[c] <= Reduced(r, c) /\ delta <= slack[c] /\ slack[c] \in Int
        BY <1>10, <1>13, <1>16, <3>3, <4>1
      <4> QED
        BY <1>17, <1>22, <3>1, <3>3, <4>2
    <3>4. CASE c \in free /\ ~OnPath(r)
      <4>1. r # i
        BY <1>2, <1>4, <1>20, <3>4
      <4>2. r \in 1..(i - 1)
        BY <1>4, <4>1
      <4>3. Reduced(r, c) >= 0
        BY <1>7, <4>2, DualFact
      <4> QED
        BY <1>22, <3>1, <3>4, <4>3
    <3> QED
      BY <2>1, <3>2, <3>3, <3>4
  <2>4. ASSUME NEW c \in Col
        PROVE  /\ p[c] # 0 => Reduced(p[c], c)' = 0
               /\ v'[c] <= 0
               /\ p[c] = 0 => v'[c] = 0
    <3>1. /\ v[c] \in Int /\ v[c] <= 0 /\ (p[c] = 0 => v[c] = 0)
          /\ (p[c] # 0 => p[c] \in Row /\ Reduced(p[c], c) = 0)
      BY DualFact
    <3>2. CASE c \in on
      <4>1. p[c] \in Row /\ p[c] # 0 /\ OnPath(p[c])
        BY <1>2, <1>5, <1>20, <3>2
      <4>2. Reduced(p[c], c)' = Reduced(p[c], c)
        BY <1>1, <1>22, <3>2, <4>1
      <4>3. v'[c] = v[c] - delta /\ delta >= 0
        BY <1>17, <1>19, <2>2, <3>2
      <4> QED
        BY <1>17, <3>1, <4>1, <4>2, <4>3
    <3>3. CASE c \in free
      <4>1. p[c] # 0 => ~OnPath(p[c])
        BY <1>3, <1>6, <1>9, <1>12, <3>3 DEF OnPath
      <4>2. p[c] # 0 => Reduced(p[c], c)' = Reduced(p[c], c)
        BY <1>1, <1>22, <3>1, <3>3, <4>1
      <4> QED
        BY <1>19, <3>1, <3>3, <4>2
    <3> QED
      BY <2>1, <3>2, <3>3
  <2>5. \A r \in Row \ (1..i) : u'[r] = 0
    <3> SUFFICES ASSUME NEW r \in Row \ (1..i) PROVE u'[r] = 0
      OBVIOUS
    <3>1. ~OnPath(r)
      BY <1>5 DEF OnPath
    <3>2. u[r] = 0
      BY <1>7 DEF IInv, DualInv
    <3> QED
      BY <1>19, <3>1, <3>2
  <2>6. PotentialsCertifyTheMatching'
    BY <1>1, <1>21, <1>23, <2>3, <2>4 DEF PotentialsCertifyTheMatching
  <2> QED
    BY <1>23, <2>5, <2>6 DEF DualInv
<1>33. TieInv'
  <2>1. ASSUME NEW c \in Col, p[c] # 0 PROVE TieFree(p[c], c)'
    <3>1. TieFree(p[c], c)
      BY <2>1 DEF IInv, TieInv
    <3> QED
      BY <1>1, <1>30, <3>1, TieFreeKept
  <2> QED
    BY <1>1, <1>21, <2>1 DEF TieInv
<1>34. EndInv'
  BY <1>24 DEF EndInv
<1> QED
  BY <1>25, <1>26, <1>27, <1>28, <1>31, <1>32, <1>33, <1>34 DEF IInv

-----------------------------------------------------------------------------
(* Handing the matches back. *)

LEMMA AugmentStep == ASSUME IInv, Augment PROVE IInv'
<1> DEFINE m == way[j0]
<1>1. /\ pc = "augment" /\ p' = [p EXCEPT ![j0] = p[m]] /\ j0' = m
      /\ pc' = IF m = 0 THEN "row" ELSE "augment"
      /\ UNCHANGED <<weights, i, u, v, way, minv, used>>
  BY DEF Augment
<1>2. PICK rank \in [AllCols -> Nat] : Ranked(rank)
  BY <1>1 DEF IInv, WayInv
<1>3. j0 \in Col /\ j0 \in AllCols /\ j0 # 0
  BY <1>1, ColumnsFact DEF IInv, PathInv
<1>4. used \subseteq Col \cup {0} /\ used \subseteq AllCols /\ \A c \in used : p[c] # 0
  BY <1>1 DEF IInv, PathInv, TypeOK
<1>5. /\ m \in used /\ m \in AllCols /\ rank[m] < rank[j0]
      /\ Reduced(p[m], j0) = 0 /\ TieFree(p[m], j0)
  <2>1. rank[j0] <= rank[j0]
    BY <1>3
  <2> QED
    BY <1>2, <1>3, <1>4, <2>1 DEF Ranked
<1>6. m # j0 /\ p[m] # 0
  BY <1>3, <1>4, <1>5
<1> HIDE DEF m
<1>7. p \in [AllCols -> 0..Bugs]
  BY DEF IInv, TypeOK
<1>8. p'[j0] = p[m] /\ \A c \in AllCols : c # j0 => p'[c] = p[c]
  BY <1>1, <1>3, <1>7
<1>9. Col' = Col /\ \A r, c : Reduced(r, c)' = Reduced(r, c)
  BY <1>1, SameCosts DEF Reduced
<1>10. Live = AllCols \ {j0} /\ Live' = AllCols \ {m} /\ pc' \in {"row", "augment"}
  BY <1>1 DEF Live
<1>11. TypeOK'
  <2>1. p' \in [AllCols -> 0..Bugs]
    BY <1>1, <1>5, <1>7
  <2> QED
    BY <1>1, <1>5, <1>10, <2>1 DEF IInv, TypeOK
<1>12. SlotInv'
  <2>1. \A c \in AllCols \ {0} : c \notin Col => p'[c] = 0
    BY <1>3, <1>8 DEF IInv, SlotInv
  <2>2. \A c \in AllCols : p'[c] <= i
    BY <1>5, <1>8 DEF IInv, SlotInv
  <2>3. \A c, d \in AllCols \ {j0} : p[c] = p[d] /\ p[c] # 0 => c = d
    BY <1>10 DEF IInv, SlotInv
  <2>4. \A c, d \in AllCols \ {m} : p'[c] = p'[d] /\ p'[c] # 0 => c = d
    BY <1>5, <1>6, <1>8, <2>3
  <2>5. \A r \in 1..i : \E c \in AllCols \ {m} : p'[c] = r
    <3> SUFFICES ASSUME NEW r \in 1..i PROVE \E c \in AllCols \ {m} : p'[c] = r
      OBVIOUS
    <3>1. PICK c \in AllCols \ {j0} : p[c] = r
      BY <1>10 DEF IInv, SlotInv
    <3>2. CASE c = m
      BY <1>3, <1>6, <1>8, <3>1, <3>2
    <3>3. CASE c # m
      BY <1>8, <3>1, <3>3
    <3> QED
      BY <3>2, <3>3
  <2>6. i \in Row
    BY <1>1 DEF IInv, SlotInv
  <2> QED
    BY <1>1, <1>9, <1>10, <2>1, <2>2, <2>4, <2>5, <2>6 DEF SlotInv
<1>13. PathInv'
  <2>1. \A c \in used : p'[c] # 0
    BY <1>4, <1>6, <1>8
  <2>2. pc' = "augment" => m \in Col
    BY <1>1, <1>4, <1>5
  <2> QED
    BY <1>1, <1>4, <1>9, <1>10, <2>1, <2>2 DEF PathInv
<1>14. SlackInv'
  BY <1>10 DEF SlackInv
<1>15. \A d \in Col : p'[d] = 0 => p[d] = 0
  BY <1>6, <1>8, ColumnsFact
<1>16. WayInv'
  <2>1. ASSUME NEW c \in (used \cup {m}) \ {0}, rank[c] <= rank[m]
        PROVE  /\ way[c] \in used /\ rank[way[c]] < rank[c]
               /\ Reduced(p'[way[c]], c) = 0 /\ TieFree(p'[way[c]], c)
    <3>1. c \in used /\ c \in AllCols
      BY <1>4, <1>5
    <3>2. rank[c] \in Nat /\ rank[m] \in Nat /\ rank[j0] \in Nat
      BY <1>3, <1>5, <3>1
    <3>3. rank[c] < rank[j0]
      BY <1>5, <2>1, <3>2
    <3>4. /\ way[c] \in used /\ rank[way[c]] < rank[c]
          /\ Reduced(p[way[c]], c) = 0 /\ TieFree(p[way[c]], c)
      BY <1>2, <2>1, <3>1, <3>2, <3>3 DEF Ranked
    <3>5. way[c] \in AllCols /\ rank[way[c]] \in Nat
      BY <1>4, <3>4
    <3>6. way[c] # j0
      BY <3>2, <3>3, <3>4, <3>5
    <3> QED
      BY <1>8, <3>4, <3>5, <3>6
  <2>2. Ranked(rank)'
    <3>1. \A c \in (used \cup {m}) \ {0} : rank[c] <= rank[m] =>
            way[c] \in used /\ rank[way[c]] < rank[c] /\ Reduced(p[way[c]], c)' = 0
      BY <1>1, <1>9, <2>1
    <3>2. \A c \in (used \cup {m}) \ {0} : rank[c] <= rank[m] => TieFree(p[way[c]], c)'
      BY <1>1, <1>15, <2>1, TieFreeKept
    <3> QED
      BY <1>1, <1>10, <3>1, <3>2 DEF Ranked
  <2> QED
    BY <2>2 DEF WayInv
<1>17. DualInv'
  <2>1. Covered' = Covered
    BY <1>1, <1>10 DEF Covered
  <2>2. ASSUME NEW c \in Col
        PROVE  /\ \A r \in Covered : Reduced(r, c) >= 0
               /\ p'[c] # 0 => Reduced(p'[c], c) = 0
               /\ v[c] <= 0
               /\ p'[c] = 0 => v[c] = 0
    <3>1. CASE c = j0
      BY <1>5, <1>6, <1>8, <3>1, DualFact
    <3>2. CASE c # j0
      <4>1. p'[c] = p[c]
        BY <1>8, <3>2, ColumnsFact
      <4> QED
        BY <4>1, DualFact
    <3> QED
      BY <3>1, <3>2
  <2>3. PotentialsCertifyTheMatching'
    BY <1>1, <1>9, <2>1, <2>2 DEF PotentialsCertifyTheMatching
  <2> QED
    BY <1>1, <2>1, <2>3 DEF IInv, DualInv
<1>18. TieInv'
  <2>1. ASSUME NEW c \in Col, p'[c] # 0 PROVE TieFree(p[c], c)'
    <3>1. TieFree(p'[c], c)
      <4>1. CASE c = j0
        BY <1>5, <1>8, <4>1
      <4>2. CASE c # j0
        <5>1. p'[c] = p[c]
          BY <1>8, <4>2, ColumnsFact
        <5> QED
          BY <2>1, <5>1 DEF IInv, TieInv
      <4> QED
        BY <4>1, <4>2
    <3> QED
      BY <1>1, <1>15, <3>1, TieFreeKept
  <2> QED
    BY <1>9, <2>1 DEF TieInv
<1>19. EndInv'
  BY <1>10 DEF EndInv
<1> QED
  BY <1>11, <1>12, <1>13, <1>14, <1>16, <1>17, <1>18, <1>19 DEF IInv

-----------------------------------------------------------------------------
(* Sums over finite sets. *)

\* Induction over the subsets of a finite set, for a set D of subsets: from the
\* sets with one member less, and from a set to one with a member more.
LEMMA RemovalInduction ==
    ASSUME NEW S, IsFiniteSet(S), NEW D,
           \A T \in SUBSET S : (\A x \in T : T \ {x} \in D) => T \in D
    PROVE  \A T \in SUBSET S : T \in D
<1> SUFFICES ASSUME NEW R \in SUBSET S, R \notin D PROVE FALSE
  OBVIOUS
<1> DEFINE B == {Cardinality(T) : T \in (SUBSET S) \ D}
<1>1. \A T \in SUBSET S : IsFiniteSet(T) /\ Cardinality(T) \in Nat
  BY FS_Subset, FS_CardinalityType
<1>2. B \in SUBSET Nat /\ B # {}
  BY <1>1
<1>3. \E n \in B : \A k \in B : n <= k
  <2> HIDE DEF B
  <2> QED
    BY <1>2, LeastNatural
<1>4. PICK T \in (SUBSET S) \ D : \A k \in B : Cardinality(T) <= k
  BY <1>3
<1>5. ASSUME NEW x \in T, T \ {x} \notin D PROVE FALSE
  <2>1. T \ {x} \in SUBSET S /\ Cardinality(T \ {x}) = Cardinality(T) - 1
    BY <1>1, <1>4, FS_RemoveElement
  <2>2. Cardinality(T \ {x}) \in B
    BY <1>5, <2>1
  <2>3. Cardinality(T) \in Nat
    BY <1>1, <1>4
  <2> HIDE DEF B
  <2> QED
    BY <1>4, <2>1, <2>2, <2>3
<1> QED
  BY <1>4, <1>5

LEMMA SubsetInduction ==
    ASSUME NEW S, IsFiniteSet(S), NEW D, {} \in D,
           \A T \in SUBSET S : \A x \in S \ T : T \in D => T \cup {x} \in D
    PROVE  \A T \in SUBSET S : T \in D
<1>1. ASSUME NEW T \in SUBSET S, \A x \in T : T \ {x} \in D PROVE T \in D
  <2>1. CASE T = {}
    BY <2>1
  <2>2. CASE T # {}
    <3>1. PICK x \in T : TRUE
      BY <2>2
    <3>2. T \ {x} \in SUBSET S /\ x \in S \ (T \ {x}) /\ (T \ {x}) \cup {x} = T
      BY <3>1
    <3>3. (T \ {x}) \cup {x} \in D
      BY <1>1, <3>1, <3>2
    <3> QED
      BY <3>2, <3>3
  <2> QED
    BY <2>1, <2>2
<1> QED
  BY <1>1, RemovalInduction

\* s gives for every subset of S the sum of g over it.
Sums(s, S, g) ==
    /\ s \in [SUBSET S -> Int]
    /\ s[{}] = 0
    /\ \A T \in SUBSET S : \A x \in T : s[T] = g[x] + s[T \ {x}]

LEMMA SumsStep ==
    ASSUME NEW S, NEW g, NEW s, Sums(s, S, g), NEW T \in SUBSET S, NEW x \in S \ T
    PROVE  s[T \cup {x}] = g[x] + s[T]
<1>1. (T \cup {x}) \ {x} = T /\ T \cup {x} \in SUBSET S /\ x \in T \cup {x}
  OBVIOUS
<1>2. s[T \cup {x}] = g[x] + s[(T \cup {x}) \ {x}]
  BY <1>1 DEF Sums
<1> QED
  BY <1>1, <1>2

LEMMA SumsExist ==
    ASSUME NEW S, IsFiniteSet(S), NEW g, \A x \in S : g[x] \in Int
    PROVE  \E s : Sums(s, S, g)
<1> DEFINE D == {T \in SUBSET S : \E s : Sums(s, T, g)}
<1>1. {} \in D
  <2>1. Sums([T \in {{}} |-> 0], {}, g)
    <3>1. SUBSET {} = {{}}
      OBVIOUS
    <3> QED
      BY <3>1 DEF Sums
  <2> QED
    BY <2>1
<1>2. ASSUME NEW T \in SUBSET S, NEW y \in S \ T, T \in D PROVE T \cup {y} \in D
  <2>1. PICK s : Sums(s, T, g)
    BY <1>2
  <2>2. g[y] \in Int
    OBVIOUS
  <2> DEFINE t == [R \in SUBSET (T \cup {y}) |-> IF y \in R THEN g[y] + s[R \ {y}] ELSE s[R]]
  <2>3. \A R \in SUBSET T : s[R] \in Int
    BY <2>1 DEF Sums
  <2>4. \A R \in SUBSET (T \cup {y}) : R \ {y} \in SUBSET T /\ (y \notin R => R \in SUBSET T)
    OBVIOUS
  <2>5. t \in [SUBSET (T \cup {y}) -> Int]
    <3> SUFFICES ASSUME NEW R \in SUBSET (T \cup {y})
                 PROVE  (IF y \in R THEN g[y] + s[R \ {y}] ELSE s[R]) \in Int
      BY Zenon
    <3>1. CASE y \in R
      <4>1. s[R \ {y}] \in Int
        BY <2>3, <2>4
      <4> QED
        BY <2>2, <3>1, <4>1
    <3>2. CASE y \notin R
      BY <2>3, <2>4, <3>2
    <3> QED
      BY <3>1, <3>2
  <2>6. t[{}] = 0
    BY <2>1 DEF Sums
  <2>7. ASSUME NEW R \in SUBSET (T \cup {y}), NEW x \in R PROVE t[R] = g[x] + t[R \ {x}]
    <3>1. R \ {x} \in SUBSET (T \cup {y})
      OBVIOUS
    <3>2. /\ y \in R => t[R] = g[y] + s[R \ {y}]
          /\ y \notin R => t[R] = s[R]
      OBVIOUS
    <3>3. /\ y \in R \ {x} => t[R \ {x}] = g[y] + s[(R \ {x}) \ {y}]
          /\ y \notin R \ {x} => t[R \ {x}] = s[R \ {x}]
      BY <3>1
    <3> HIDE DEF t
    <3>4. CASE x = y
      BY <3>2, <3>3, <3>4
    <3>5. CASE x # y /\ y \in R
      <4>1. (R \ {x}) \ {y} = (R \ {y}) \ {x} /\ x \in R \ {y}
        BY <3>5
      <4>2. s[R \ {y}] = g[x] + s[(R \ {y}) \ {x}]
        BY <2>1, <2>4, <4>1 DEF Sums
      <4>3. x \in S /\ (R \ {y}) \ {x} \in SUBSET T
        BY <3>5
      <4>4. g[x] \in Int /\ s[(R \ {y}) \ {x}] \in Int
        BY <2>3, <4>3
      <4>5. y \in R \ {x}
        BY <3>5
      <4>6. t[R] = g[y] + (g[x] + s[(R \ {y}) \ {x}])
        BY <3>2, <3>5, <4>2
      <4>7. t[R \ {x}] = g[y] + s[(R \ {y}) \ {x}]
        BY <3>3, <4>1, <4>5
      <4> QED
        BY <2>2, <4>4, <4>6, <4>7
    <3>6. CASE y \notin R
      BY <2>1, <2>4, <3>2, <3>3, <3>6 DEF Sums
    <3> QED
      BY <3>4, <3>5, <3>6
  <2>8. Sums(t, T \cup {y}, g)
    <3> HIDE DEF t
    <3> QED
      BY <2>5, <2>6, <2>7 DEF Sums
  <2>9. T \cup {y} \in SUBSET S
    OBVIOUS
  <2> QED
    BY <2>8, <2>9
<1>3. \A T \in SUBSET S : T \in D
  <2> HIDE DEF D
  <2> QED
    BY <1>1, <1>2, SubsetInduction
<1> QED
  BY <1>3

\* Larger sets have larger sums, if no term is negative.
LEMMA SumsGrow ==
    ASSUME NEW S, IsFiniteSet(S), NEW g, \A x \in S : g[x] \in Nat, NEW s, Sums(s, S, g),
           NEW Q \in SUBSET S, NEW T \in SUBSET Q
    PROVE  s[T] <= s[Q]
<1> DEFINE D == {R \in SUBSET S : \A U \in SUBSET R : s[U] <= s[R]}
<1>1. \A R \in SUBSET S : s[R] \in Int
  BY DEF Sums
<1>2. {} \in D
  <2>1. {} \in SUBSET S /\ s[{}] \in Int /\ \A U \in SUBSET {} : U = {}
    BY <1>1
  <2> QED
    BY <2>1
<1>3. ASSUME NEW R \in SUBSET S, NEW y \in S \ R, R \in D PROVE R \cup {y} \in D
  <2>1. (R \cup {y}) \ {y} = R /\ R \cup {y} \in SUBSET S
    OBVIOUS
  <2>2. s[R \cup {y}] = g[y] + s[R]
    BY <2>1 DEF Sums
  <2>3. g[y] \in Nat /\ s[R] \in Int
    BY <1>1
  <2>4. ASSUME NEW U \in SUBSET (R \cup {y}) PROVE s[U] <= s[R \cup {y}]
    <3>1. U \in SUBSET S /\ s[U] \in Int
      BY <1>1, <2>1
    <3>2. CASE y \in U
      <4>1. U \ {y} \in SUBSET R /\ U \ {y} \in SUBSET S
        BY <3>1
      <4>2. s[U] = g[y] + s[U \ {y}]
        BY <3>1, <3>2 DEF Sums
      <4>3. s[U \ {y}] <= s[R] /\ s[U \ {y}] \in Int
        BY <1>1, <1>3, <4>1
      <4> QED
        BY <2>2, <2>3, <4>2, <4>3
    <3>3. CASE y \notin U
      <4>1. s[U] <= s[R]
        BY <1>3, <3>3
      <4> QED
        BY <2>2, <2>3, <3>1, <4>1
    <3> QED
      BY <3>2, <3>3
  <2> QED
    BY <2>1, <2>4
<1>4. \A R \in SUBSET S : R \in D
  <2> HIDE DEF D
  <2> QED
    BY <1>2, <1>3, SubsetInduction
<1> QED
  BY <1>4

\* A sum of smaller terms is smaller.
LEMMA SumsCompare ==
    ASSUME NEW S, IsFiniteSet(S), NEW Q \in SUBSET S,
           NEW g, NEW h, \A x \in Q : g[x] \in Int /\ h[x] \in Int /\ g[x] <= h[x],
           NEW s, Sums(s, S, g), NEW t, Sums(t, S, h)
    PROVE  s[Q] <= t[Q]
<1> DEFINE D == {R \in SUBSET Q : s[R] <= t[R]}
<1>1. \A R \in SUBSET S : s[R] \in Int /\ t[R] \in Int
  BY DEF Sums
<1>2. {} \in D
  BY DEF Sums
<1>3. ASSUME NEW R \in SUBSET Q, NEW y \in Q \ R, R \in D PROVE R \cup {y} \in D
  <2>1. R \in SUBSET S /\ y \in S \ R /\ R \cup {y} \in SUBSET Q
    OBVIOUS
  <2>2. s[R \cup {y}] = g[y] + s[R] /\ t[R \cup {y}] = h[y] + t[R]
    BY <2>1, SumsStep
  <2>3. g[y] \in Int /\ h[y] \in Int /\ g[y] <= h[y] /\ s[R] \in Int /\ t[R] \in Int /\ s[R] <= t[R]
    BY <1>1, <1>3, <2>1
  <2>4. s[R \cup {y}] <= t[R \cup {y}]
    BY <2>2, <2>3
  <2> QED
    BY <2>1, <2>4
<1>4. IsFiniteSet(Q)
  BY FS_Subset
<1>5. \A R \in SUBSET Q : R \in D
  <2> HIDE DEF D
  <2> QED
    BY <1>2, <1>3, <1>4, SubsetInduction
<1> QED
  BY <1>5

\* The integers g and h give add up to those of k.
Adds(S, g, h, k) == \A x \in S : g[x] \in Int /\ h[x] \in Int /\ k[x] = g[x] + h[x]

\* The sums of the sum of two functions.
LEMMA SumsAdd ==
    ASSUME NEW S, NEW g, NEW h, NEW k, Adds(S, g, h, k),
           NEW s, Sums(s, S, g), NEW t, Sums(t, S, h)
    PROVE  \E a : Sums(a, S, k) /\ Adds(SUBSET S, s, t, a)
<1> DEFINE a == [T \in SUBSET S |-> s[T] + t[T]]
<1>1. \A T \in SUBSET S : s[T] \in Int /\ t[T] \in Int /\ a[T] = s[T] + t[T]
  BY DEF Sums
<1>2. a \in [SUBSET S -> Int]
  <2>1. ASSUME NEW T \in SUBSET S PROVE s[T] + t[T] \in Int
    <3>1. s[T] \in Int /\ t[T] \in Int
      BY <1>1
    <3> QED
      BY <3>1
  <2> QED
    BY <2>1, Zenon
<1>3. a[{}] = 0
  BY DEF Sums
<1> HIDE DEF a
<1>4. ASSUME NEW T \in SUBSET S, NEW x \in T PROVE a[T] = k[x] + a[T \ {x}]
  <2>1. x \in S /\ T \ {x} \in SUBSET S
    OBVIOUS
  <2>2. s[T] = g[x] + s[T \ {x}] /\ t[T] = h[x] + t[T \ {x}]
    BY DEF Sums
  <2>3. g[x] \in Int /\ h[x] \in Int /\ k[x] = g[x] + h[x]
    BY <2>1 DEF Adds
  <2>4. s[T \ {x}] \in Int /\ t[T \ {x}] \in Int /\ a[T \ {x}] = s[T \ {x}] + t[T \ {x}]
    BY <1>1, <2>1
  <2>5. a[T] = s[T] + t[T]
    BY <1>1
  <2> HIDE DEF a
  <2> QED
    BY <2>2, <2>3, <2>4, <2>5
<1>5. Sums(a, S, k)
  BY <1>2, <1>3, <1>4 DEF Sums
<1>6. Adds(SUBSET S, s, t, a)
  BY <1>1 DEF Adds
<1> QED
  BY <1>5, <1>6

\* What a set of keys is worth: of two sets whose members have distinct keys, the
\* one that has all the keys of a value weighs no less.
LEMMA SumsOfKeys ==
    ASSUME NEW S, IsFiniteSet(S), NEW key, NEW g, \A x \in S : g[x] \in Nat,
           \A x, y \in S : key[x] = key[y] => g[x] = g[y],
           NEW Q \in SUBSET S, \A x, y \in Q : key[x] = key[y] => x = y,
           NEW M \in SUBSET S, \A x, y \in M : key[x] = key[y] => x = y,
           \A x \in Q : g[x] # 0 => \E y \in M : key[y] = key[x],
           NEW s, Sums(s, S, g)
    PROVE  s[Q] <= s[M]
<1> DEFINE N(T) == {y \in M : \E x \in T : key[x] = key[y]}
           D == {T \in SUBSET Q : s[T] <= s[N(T)]}
<1>1. \A T \in SUBSET S : s[T] \in Int
  BY DEF Sums
<1>2. \A T : N(T) \in SUBSET M /\ N(T) \in SUBSET S
  OBVIOUS
<1>3. {} \in D
  <2>1. N({}) = {}
    OBVIOUS
  <2>2. s[{}] = s[N({})] /\ s[{}] \in Int
    BY <1>1, <2>1
  <2> QED
    BY <2>2
<1>4. ASSUME NEW T \in SUBSET Q, NEW x \in Q \ T, T \in D PROVE T \cup {x} \in D
  <2>1. (T \cup {x}) \ {x} = T /\ T \cup {x} \in SUBSET S /\ T \in SUBSET S /\ T \cup {x} \in SUBSET Q
    OBVIOUS
  <2>2. s[T \cup {x}] = g[x] + s[T]
    BY <2>1 DEF Sums
  <2>3. g[x] \in Nat /\ s[T] \in Int /\ s[T] <= s[N(T)]
    BY <1>1, <1>4, <2>1
  <2>4. s[N(T)] \in Int /\ s[N(T \cup {x})] \in Int
    BY <1>1, <1>2
  <2>5. CASE g[x] = 0
    <3>1. N(T) \in SUBSET N(T \cup {x})
      OBVIOUS
    <3> HIDE DEF N
    <3>2. s[N(T)] <= s[N(T \cup {x})]
      BY <1>2, <3>1, SumsGrow
    <3>3. s[T \cup {x}] <= s[N(T \cup {x})]
      BY <2>2, <2>3, <2>4, <2>5, <3>2
    <3> QED
      BY <2>1, <3>3
  <2>6. CASE g[x] # 0
    <3>1. PICK y \in M : key[y] = key[x]
      BY <2>6
    <3>2. y \notin N(T)
      <4>1. \A z \in T : key[z] # key[x]
        BY <1>4
      <4> QED
        BY <3>1, <4>1
    <3>3. N(T \cup {x}) = N(T) \cup {y}
      <4>1. \A z \in M : key[x] = key[z] <=> z = y
        BY <3>1
      <4> QED
        BY <3>1, <4>1
    <3>4. g[y] = g[x]
      BY <3>1
    <3> HIDE DEF N
    <3>5. N(T) \in SUBSET S /\ y \in S \ N(T)
      BY <1>2, <3>1, <3>2
    <3>6. s[N(T) \cup {y}] = g[y] + s[N(T)]
      BY <3>5, SumsStep
    <3>7. s[T \cup {x}] <= s[N(T \cup {x})]
      BY <2>2, <2>3, <2>4, <3>3, <3>4, <3>6
    <3> QED
      BY <2>1, <3>7
  <2> QED
    BY <2>5, <2>6
<1>5. IsFiniteSet(Q)
  BY FS_Subset
<1>6. \A T \in SUBSET Q : T \in D
  <2> HIDE DEF D
  <2> QED
    BY <1>3, <1>4, <1>5, SubsetInduction
<1>7. s[Q] <= s[N(Q)]
  BY <1>6
<1> HIDE DEF N, D
<1>8. s[N(Q)] <= s[M]
  BY <1>2, SumsGrow
<1> QED
  BY <1>1, <1>2, <1>7, <1>8

\* Total of the matching is what Sums says of it.
LEMMA TotalIsSum ==
    ASSUME NEW m, IsFiniteSet(m), NEW g, \A x \in m : g[x] = weights[x[1]][x[2]],
           NEW s, Sums(s, m, g)
    PROVE  Total(m) = s[m]
<1> DEFINE Body(h) == [T \in SUBSET m |->
                         IF T = {} THEN 0
                         ELSE LET x == CHOOSE y \in T : TRUE
                              IN  weights[x[1]][x[2]] + h[T \ {x}]]
           iter == CHOOSE h : h = Body(h)
<1>1. Total(m) = iter[m]
  BY DEF Total, MapThenSumSet, MapThenFoldSet
<1>2. s \in [SUBSET m -> Int] /\ s[{}] = 0
  BY DEF Sums
<1>3. ASSUME NEW T \in SUBSET m, T # {}
      PROVE  \E x \in T : /\ x = CHOOSE y \in T : TRUE
                         /\ s[T] = weights[x[1]][x[2]] + s[T \ {x}]
  <2>1. PICK x \in T : x = CHOOSE y \in T : TRUE
    BY <1>3
  <2>2. g[x] = weights[x[1]][x[2]]
    OBVIOUS
  <2>3. s[T] = g[x] + s[T \ {x}]
    BY DEF Sums
  <2> QED
    BY <2>1, <2>2, <2>3
<1>4. s = Body(s)
  <2>1. ASSUME NEW T \in SUBSET m
        PROVE  s[T] = IF T = {} THEN 0
                      ELSE LET x == CHOOSE y \in T : TRUE
                           IN  weights[x[1]][x[2]] + s[T \ {x}]
    BY <1>2, <1>3
  <2> QED
    BY <1>2, <2>1
<1>5. iter = Body(iter)
  <2> HIDE DEF Body
  <2> QED
    BY <1>4, Zenon
<1> DEFINE D == {T \in SUBSET m : iter[T] = s[T]}
<1>6. ASSUME NEW T \in SUBSET m, \A x \in T : T \ {x} \in D PROVE T \in D
  <2>1. iter[T] = Body(iter)[T]
    BY <1>5
  <2> HIDE DEF iter
  <2>2. CASE T = {}
    BY <1>2, <2>1, <2>2
  <2>3. CASE T # {}
    <3>1. PICK x \in T : /\ x = CHOOSE y \in T : TRUE
                        /\ s[T] = weights[x[1]][x[2]] + s[T \ {x}]
      BY <1>3, <2>3
    <3>2. iter[T] = weights[x[1]][x[2]] + iter[T \ {x}]
      BY <2>1, <2>3, <3>1
    <3>3. iter[T \ {x}] = s[T \ {x}]
      BY <1>6
    <3>4. iter[T] = s[T]
      BY <3>1, <3>2, <3>3
    <3> QED
      BY <3>4
  <2> QED
    BY <2>2, <2>3
<1>7. \A T \in SUBSET m : T \in D
  <2> HIDE DEF D
  <2> QED
    BY <1>6, RemovalInduction
<1>8. m \in D
  BY <1>7
<1> HIDE DEF iter
<1> QED
  BY <1>1, <1>8

\* The sums over the subsets of a subset.
LEMMA SumsRestrict ==
    ASSUME NEW S, NEW g, NEW s, Sums(s, S, g), NEW Q \in SUBSET S
    PROVE  Sums([T \in SUBSET Q |-> s[T]], Q, g)
<1> DEFINE t == [T \in SUBSET Q |-> s[T]]
<1>1. \A T \in SUBSET Q : T \in SUBSET S /\ t[T] = s[T]
  OBVIOUS
<1>2. t \in [SUBSET Q -> Int] /\ t[{}] = 0
  BY DEF Sums
<1> HIDE DEF t
<1>3. ASSUME NEW T \in SUBSET Q, NEW x \in T PROVE t[T] = g[x] + t[T \ {x}]
  <2>1. T \in SUBSET S /\ T \ {x} \in SUBSET Q
    OBVIOUS
  <2>2. s[T] = g[x] + s[T \ {x}]
    BY <2>1 DEF Sums
  <2> QED
    BY <1>1, <2>1, <2>2
<1>4. Sums(t, Q, g)
  BY <1>2, <1>3 DEF Sums
<1> QED
  BY <1>4 DEF t

-----------------------------------------------------------------------------
(* The result. *)

\* What the loops leave when they are done: every bug has a column, and all pairs
\* have the certificate.
LEMMA AllPlaced ==
    ASSUME IInv, pc = "done", Columns # {}
    PROVE  Covered = Row /\ \A r \in Row : \E c \in Col : p[c] = r
<1>1. i = Bugs /\ Covered = Row
  BY DEF IInv, EndInv, Covered, Row
<1>2. ASSUME NEW r \in Row PROVE \E c \in Col : p[c] = r
  <2>1. PICK c \in AllCols \ {0} : p[c] = r
    BY <1>1 DEF IInv, SlotInv, Live, Row
  <2>2. r # 0
    BY DEF Row
  <2> QED
    BY <2>1, <2>2 DEF IInv, SlotInv
<1> QED
  BY <1>1, <1>2

\* While some real column is taken no bug has a positive potential, for there is
\* an unmatched slot left.
LEMMA RowsOweNothing ==
    ASSUME IInv, pc = "done", NEW e \in 1..real_cols, p[e] # 0
    PROVE  \A r \in Row : u[r] \in Int /\ u[r] <= 0
<1>1. e \in Live /\ e <= real_cols /\ real_cols \in Nat
  <2>1. real_cols \in 0..Findings /\ Bugs \in Nat /\ Findings \in Nat
    BY ColumnsFact, SentinelAssumption DEF SentinelAssumption
  <2> QED
    BY <2>1 DEF Live, AllCols
<1>2. PICK c \in Col : c > real_cols /\ p[c] = 0
  BY <1>1, FreeDummy
<1>3. Columns # {} 
  BY FindingFact
<1> SUFFICES ASSUME NEW r \in Row PROVE u[r] \in Int /\ u[r] <= 0
  OBVIOUS
<1>4. v[c] = 0 /\ Cost(r, c) = 0 /\ Reduced(r, c) >= 0 /\ u[r] \in Int
  BY <1>2, <1>3, AllPlaced, DualFact, CostFact DEF IInv
<1>5. 0 - u[r] - 0 >= 0
  BY <1>4 DEF Reduced
<1> QED
  BY <1>4, <1>5

\* The weight of an eligible pair.
LEMMA EligibleWeight ==
    ASSUME IInv, NEW r \in Row, NEW f \in Columns, weights[r][f] # None
    PROVE  weights[r][f] \in Values
<1>1. weights \in [Row -> [1..Findings -> Values \cup {None}]]
  BY DEF IInv, TypeOK
<1>2. f \in 1..Findings
  BY ColumnsFact
<1>3. weights[r] \in [1..Findings -> Values \cup {None}]
  BY <1>1
<1>4. weights[r][f] \in Values \cup {None}
  BY <1>2, <1>3
<1> QED
  BY <1>4

\* A forbidden pair would be dearer than an unmatched slot, so a bug in a real
\* column is matched.
LEMMA RealColumnsMatch ==
    ASSUME IInv, pc = "done", NEW c \in 1..real_cols, p[c] # 0
    PROVE  <<p[c], FindingOf(c)>> \in Matching
<1>1. c \in Col /\ ~(c > real_cols) /\ FindingOf(c) \in Columns
  <2>1. real_cols \in Nat /\ Bugs \in Nat
    BY ColumnsFact, SentinelAssumption DEF SentinelAssumption
  <2>2. c \in Col /\ ~(c > real_cols)
    BY <2>1 DEF Col
  <2> QED
    BY <2>2, FindingFact
<1>2. PICK r \in Row : r = p[c] /\ Reduced(r, c) = 0
  BY <1>1, DualFact
<1>3. u[r] \in Int /\ u[r] <= 0
  BY RowsOweNothing
<1>4. v[c] \in Int /\ v[c] <= 0
  BY <1>1, DualFact
<1>5. Forbidden \in Nat /\ Forbidden > 0
  <2>1. PICK b \in Row : weights[b][FindingOf(c)] # None
    BY <1>1 DEF Columns
  <2>2. weights[b][FindingOf(c)] \in Values
    BY <1>1, <2>1, EligibleWeight
  <2>3. PICK w \in Nat : Bugs * w < Forbidden
    BY <2>2, SentinelAssumption DEF SentinelAssumption
  <2>4. Bugs \in Nat /\ Forbidden \in Nat
    BY SentinelAssumption DEF SentinelAssumption
  <2>5. Bugs * w >= 0
    BY <2>4
  <2> QED
    BY <2>3, <2>4, <2>5
<1>6. weights[r][FindingOf(c)] # None
  <2> SUFFICES ASSUME weights[r][FindingOf(c)] = None PROVE FALSE
    OBVIOUS
  <2>1. Cost(r, c) = Forbidden
    BY <1>1 DEF Cost
  <2>2. Forbidden - u[r] - v[c] = 0
    BY <1>2, <2>1 DEF Reduced
  <2> QED
    BY <1>3, <1>4, <1>5, <2>2
<1> QED
  BY <1>1, <1>2, <1>6 DEF Matching

\* The weight of an eligible pair is what its column costs.
LEMMA EligibleCost ==
    ASSUME IInv, NEW r \in Row, NEW f \in Columns, weights[r][f] # None
    PROVE  /\ weights[r][f] \in Nat /\ Place(f) \in Col /\ Place(f) \in 1..real_cols
           /\ FindingOf(Place(f)) = f /\ Cost(r, Place(f)) = 0 - weights[r][f]
<1>1. weights[r][f] \in Nat
  <2>1. weights[r][f] \in Values
    BY EligibleWeight
  <2> QED
    BY <2>1, SentinelAssumption DEF SentinelAssumption
<1>2. Place(f) \in 1..real_cols /\ FindingOf(Place(f)) = f
  BY PlaceFact, FindingFact
<1>3. Place(f) \in Col /\ ~(Place(f) > real_cols)
  <2>1. real_cols \in Nat /\ Bugs \in Nat
    BY ColumnsFact, SentinelAssumption DEF SentinelAssumption
  <2> QED
    BY <1>2, <2>1 DEF Col
<1>4. Cost(r, Place(f)) = -weights[r][f]
  BY <1>2, <1>3 DEF Cost
<1>5. -weights[r][f] = 0 - weights[r][f]
  BY <1>1
<1> QED
  BY <1>1, <1>2, <1>3, <1>4, <1>5

\* Prices of the bugs and findings that no eligible pair exceeds, which the
\* matched pairs attain and nobody else has.
Prices(a, z) ==
    /\ a \in [Row -> Nat] /\ z \in [Columns -> Nat]
    /\ \A r \in Row, f \in Columns : weights[r][f] # None => weights[r][f] <= a[r] + z[f]
    /\ \A x \in Matching : weights[x[1]][x[2]] = a[x[1]] + z[x[2]]
    /\ \A r \in Row : a[r] # 0 => \E x \in Matching : x[1] = r
    /\ \A f \in Columns : z[f] # 0 => \E x \in Matching : x[2] = f

LEMMA PricesExist ==
    ASSUME IInv, pc = "done"
    PROVE  \E a, z : Prices(a, z)
<1>1. CASE \A c \in 1..real_cols : p[c] = 0
  <2> DEFINE a == [r \in Row |-> 0]
             z == [f \in Columns |-> 0]
  <2>1. Matching = {}
    <3>1. \A r \in Row : r # 0
      BY DEF Row
    <3> QED
      BY <1>1, <3>1 DEF Matching
  <2>2. ASSUME NEW r \in Row, NEW f \in Columns, weights[r][f] # None
        PROVE  weights[r][f] <= 0
    <3>1. /\ weights[r][f] \in Nat /\ Place(f) \in Col /\ Place(f) \in 1..real_cols
          /\ Cost(r, Place(f)) = 0 - weights[r][f]
      BY <2>2, EligibleCost
    <3>2. PICK c \in Col : p[c] = r
      BY AllPlaced
    <3>3. r # 0 /\ c > real_cols
      <4>1. r # 0
        BY DEF Row
      <4>2. c \in Nat /\ c >= 1 /\ real_cols \in Nat
        BY ColumnsFact DEF Col
      <4> QED
        BY <1>1, <3>2, <4>1, <4>2
    <3>4. Reduced(r, c) = 0 /\ v[c] <= 0 /\ v[c] \in Int /\ Cost(r, c) = 0 /\ u[r] \in Int
      BY <3>2, <3>3, DualFact, CostFact DEF IInv
    <3>5. 0 - u[r] - v[c] = 0
      BY <3>4 DEF Reduced
    <3>6. Reduced(r, Place(f)) >= 0 /\ v[Place(f)] = 0
      BY <1>1, <3>1, AllPlaced, DualFact
    <3>7. (0 - weights[r][f]) - u[r] - 0 >= 0
      BY <3>1, <3>6 DEF Reduced
    <3> QED
      BY <3>1, <3>4, <3>5, <3>7
  <2>3. Prices(a, z)
    BY <2>1, <2>2 DEF Prices
  <2> QED
    BY <2>3
<1>2. CASE \E c \in 1..real_cols : p[c] # 0
  <2> DEFINE a == [r \in Row |-> 0 - u[r]]
             z == [f \in Columns |-> 0 - v[Place(f)]]
  <2>1. \A r \in Row : u[r] \in Int /\ u[r] <= 0 /\ a[r] = 0 - u[r] /\ r # 0
    BY <1>2, RowsOweNothing DEF Row
  <2>2. ASSUME NEW f \in Columns
        PROVE  /\ Place(f) \in Col /\ Place(f) \in 1..real_cols /\ FindingOf(Place(f)) = f
               /\ v[Place(f)] \in Int /\ v[Place(f)] <= 0 /\ z[f] = 0 - v[Place(f)]
    <3>1. PICK r \in Row : weights[r][f] # None
      BY DEF Columns
    <3>2. Place(f) \in Col /\ Place(f) \in 1..real_cols /\ FindingOf(Place(f)) = f
      BY <3>1, EligibleCost
    <3> QED
      BY <3>2, DualFact
  <2>3. a \in [Row -> Nat]
    <3>1. ASSUME NEW r \in Row PROVE 0 - u[r] \in Nat
      BY <2>1
    <3> QED
      BY <3>1
  <2>4. z \in [Columns -> Nat]
    <3>1. ASSUME NEW f \in Columns PROVE 0 - v[Place(f)] \in Nat
      BY <2>2
    <3> QED
      BY <3>1
  <2> HIDE DEF a, z
  <2>5. ASSUME NEW r \in Row, NEW f \in Columns, weights[r][f] # None
        PROVE  /\ weights[r][f] \in Nat
               /\ weights[r][f] = a[r] + z[f] - Reduced(r, Place(f))
               /\ Reduced(r, Place(f)) >= 0 /\ Reduced(r, Place(f)) \in Int
    <3>1. weights[r][f] \in Nat /\ Cost(r, Place(f)) = 0 - weights[r][f] /\ Place(f) \in Col
      BY <2>5, EligibleCost
    <3>2. Reduced(r, Place(f)) = (0 - weights[r][f]) - u[r] - v[Place(f)]
      BY <3>1 DEF Reduced
    <3>3. Reduced(r, Place(f)) >= 0 /\ Reduced(r, Place(f)) \in Int
      BY <3>1, AllPlaced, DualFact
    <3> QED
      BY <2>1, <2>2, <3>1, <3>2, <3>3
  <2>6. \A r \in Row, f \in Columns : weights[r][f] # None => weights[r][f] <= a[r] + z[f]
    <3> SUFFICES ASSUME NEW r \in Row, NEW f \in Columns, weights[r][f] # None
                 PROVE  weights[r][f] <= a[r] + z[f]
      OBVIOUS
    <3>1. a[r] \in Nat /\ z[f] \in Nat
      BY <2>3, <2>4
    <3> QED
      BY <2>5, <3>1
  <2>7. ASSUME NEW x \in Matching PROVE weights[x[1]][x[2]] = a[x[1]] + z[x[2]]
    <3>1. PICK r \in Row, f \in Columns, c \in 1..real_cols :
            /\ r = x[1] /\ f = x[2] /\ weights[r][f] # None /\ p[c] = r /\ FindingOf(c) = f
      BY DEF Matching
    <3>2. Place(f) = c /\ c \in Col
      BY <2>2, <3>1, FindingFact
    <3>3. Reduced(r, Place(f)) = 0
      BY <2>1, <3>1, <3>2, DualFact
    <3>4. a[r] \in Nat /\ z[f] \in Nat /\ weights[r][f] = a[r] + z[f] - 0
      BY <2>3, <2>4, <2>5, <3>1, <3>3
    <3> QED
      BY <3>1, <3>4
  <2>8. ASSUME NEW r \in Row, a[r] # 0 PROVE \E x \in Matching : x[1] = r
    <3>1. PICK c \in Col : p[c] = r
      BY <1>2, AllPlaced, FindingFact
    <3>2. p[c] # 0 /\ u[r] \in Int /\ u[r] < 0
      BY <2>1, <2>8, <3>1
    <3>3. Reduced(r, c) = 0 /\ v[c] <= 0 /\ v[c] \in Int
      BY <3>1, <3>2, DualFact
    <3>4. c \in 1..real_cols
      <4>1. SUFFICES ASSUME c > real_cols PROVE FALSE
        <5>1. c \in Nat /\ c >= 1 /\ real_cols \in Nat
          BY ColumnsFact DEF Col
        <5> QED
          BY <5>1
      <4>2. Cost(r, c) = 0
        BY <4>1, CostFact DEF IInv
      <4>3. 0 - u[r] - v[c] = 0
        BY <3>3, <4>2 DEF Reduced
      <4> QED
        BY <3>2, <3>3, <4>3
    <3>5. <<r, FindingOf(c)>> \in Matching
      BY <3>1, <3>2, <3>4, RealColumnsMatch
    <3> QED
      BY <3>5
  <2>9. ASSUME NEW f \in Columns, z[f] # 0 PROVE \E x \in Matching : x[2] = f
    <3>1. v[Place(f)] # 0
      BY <2>2, <2>9
    <3>2. p[Place(f)] # 0
      BY <2>2, <3>1, DualFact
    <3>3. <<p[Place(f)], f>> \in Matching
      BY <2>2, <3>2, RealColumnsMatch
    <3> QED
      BY <3>3
  <2>10. Prices(a, z)
    BY <2>3, <2>4, <2>6, <2>7, <2>8, <2>9 DEF Prices
  <2> QED
    BY <2>10
<1> QED
  BY <1>1, <1>2

LEMMA MatchingOneToOne ==
    ASSUME IInv, pc = "done" PROVE OneToOne(Matching)
<1>1. ASSUME NEW x \in Matching PROVE weights[x[1]][x[2]] # None
  BY DEF Matching
<1>2. ASSUME NEW x \in Matching, NEW y \in Matching, x[1] = y[1] \/ x[2] = y[2]
      PROVE  x = y
  <2>1. x \in Row \X Columns /\ y \in Row \X Columns
    BY DEF Matching
  <2>2. PICK c \in 1..real_cols : p[c] = x[1] /\ FindingOf(c) = x[2]
    BY DEF Matching
  <2>3. PICK d \in 1..real_cols : p[d] = y[1] /\ FindingOf(d) = y[2]
    BY DEF Matching
  <2>4. c \in Live /\ d \in Live
    <3>1. 1..real_cols \subseteq AllCols \ {0}
      BY ColumnsFact, SentinelAssumption DEF SentinelAssumption, AllCols
    <3> QED
      BY <3>1 DEF Live
  <2>5. x[1] # 0
    BY <2>1, SentinelAssumption DEF SentinelAssumption, Row
  <2>6. x[1] = y[1] => c = d
    BY <2>2, <2>3, <2>4, <2>5 DEF IInv, SlotInv
  <2>7. x[2] = y[2] => c = d
    BY <2>2, <2>3, FindingFact
  <2>8. x[1] = y[1] /\ x[2] = y[2]
    BY <1>2, <2>2, <2>3, <2>6, <2>7
  <2> QED
    BY <2>1, <2>8
<1> QED
  BY <1>1, <1>2 DEF OneToOne

\* A matching with such prices has the greatest total: no other takes more than
\* the prices of its bugs and findings, and all the prices are in this one.
LEMMA PricesBound ==
    ASSUME IInv, pc = "done", NEW m \in SUBSET (Row \X Columns), OneToOne(m)
    PROVE  Total(m) <= Total(Matching)
<1> DEFINE X == Row \X Columns
           M == Matching
<1>1. PICK a, z : Prices(a, z)
  BY PricesExist
<1>2. IsFiniteSet(X)
  <2>1. IsFiniteSet(Row)
    BY FS_Interval, SentinelAssumption DEF SentinelAssumption, Row
  <2> QED
    BY <2>1, ColumnsFact, FS_Product
<1>3. M \in SUBSET X /\ OneToOne(M)
  BY MatchingOneToOne DEF Matching
<1> DEFINE W == [x \in X |-> IF weights[x[1]][x[2]] = None THEN 0 ELSE weights[x[1]][x[2]]]
           A == [x \in X |-> a[x[1]]]
           Z == [x \in X |-> z[x[2]]]
           K == [x \in X |-> a[x[1]] + z[x[2]]]
           bug == [x \in X |-> x[1]]
           finding == [x \in X |-> x[2]]
<1>4. ASSUME NEW x \in X
      PROVE  /\ x[1] \in Row /\ x[2] \in Columns
             /\ A[x] = a[x[1]] /\ Z[x] = z[x[2]] /\ K[x] = A[x] + Z[x]
             /\ A[x] \in Nat /\ Z[x] \in Nat /\ K[x] \in Nat /\ W[x] \in Nat
             /\ weights[x[1]][x[2]] # None => W[x] = weights[x[1]][x[2]] /\ W[x] <= K[x]
             /\ bug[x] = x[1] /\ finding[x] = x[2]
  <2>1. x[1] \in Row /\ x[2] \in Columns
    OBVIOUS
  <2>2. a[x[1]] \in Nat /\ z[x[2]] \in Nat
    BY <1>1, <2>1 DEF Prices
  <2>3. A[x] = a[x[1]] /\ Z[x] = z[x[2]] /\ K[x] = a[x[1]] + z[x[2]]
    OBVIOUS
  <2>4. /\ bug[x] = x[1] /\ finding[x] = x[2]
        /\ weights[x[1]][x[2]] = None => W[x] = 0
        /\ weights[x[1]][x[2]] # None => W[x] = weights[x[1]][x[2]]
    OBVIOUS
  <2>5. weights[x[1]][x[2]] # None =>
          weights[x[1]][x[2]] \in Nat /\ weights[x[1]][x[2]] <= a[x[1]] + z[x[2]]
    BY <1>1, <2>1, EligibleCost DEF Prices
  <2> HIDE DEF A, Z, K, W, bug, finding
  <2> QED
    BY <2>1, <2>2, <2>3, <2>4, <2>5
<1>5. \A x \in M : W[x] = weights[x[1]][x[2]] /\ W[x] = K[x]
  <2>1. ASSUME NEW x \in M PROVE W[x] = weights[x[1]][x[2]] /\ W[x] = a[x[1]] + z[x[2]]
    <3>1. x \in X /\ weights[x[1]][x[2]] # None
      BY <1>3 DEF OneToOne
    <3>2. weights[x[1]][x[2]] = a[x[1]] + z[x[2]]
      BY <1>1 DEF Prices
    <3> QED
      BY <1>4, <3>1, <3>2
  <2>2. \A x \in M : K[x] = a[x[1]] + z[x[2]]
    BY <1>3
  <2> HIDE DEF W, K
  <2> QED
    BY <2>1, <2>2
<1>6. \A x \in m : W[x] = weights[x[1]][x[2]] /\ W[x] <= K[x]
  <2>1. \A x \in m : x \in X /\ weights[x[1]][x[2]] # None
    BY DEF OneToOne
  <2> HIDE DEF W, K, X
  <2> QED
    BY <1>4, <2>1
<1>7. m \in SUBSET X
  OBVIOUS
<1> HIDE DEF W, A, Z, K, bug, finding, X
<1>8. PICK sW : Sums(sW, X, W)
  <2>1. \A x \in X : W[x] \in Int
    BY <1>4
  <2> QED
    BY <1>2, <2>1, SumsExist
<1>9. PICK sA : Sums(sA, X, A)
  <2>1. \A x \in X : A[x] \in Int
    BY <1>4
  <2> QED
    BY <1>2, <2>1, SumsExist
<1>10. PICK sZ : Sums(sZ, X, Z)
  <2>1. \A x \in X : Z[x] \in Int
    BY <1>4
  <2> QED
    BY <1>2, <2>1, SumsExist
<1>11. PICK sK : Sums(sK, X, K) /\ Adds(SUBSET X, sA, sZ, sK)
  <2>1. Adds(X, A, Z, K)
    BY <1>4 DEF Adds
  <2> QED
    BY <1>9, <1>10, <2>1, SumsAdd
<1>12. sW[m] <= sK[m]
  <2>1. \A x \in m : W[x] \in Int /\ K[x] \in Int /\ W[x] <= K[x]
    BY <1>4, <1>6, <1>7
  <2> QED
    BY <1>2, <1>7, <1>8, <1>11, <2>1, SumsCompare
<1>13. sK[M] <= sW[M]
  <2>1. \A x \in M : W[x] \in Int /\ K[x] \in Int /\ K[x] <= W[x]
    BY <1>3, <1>4, <1>5
  <2> QED
    BY <1>2, <1>3, <1>8, <1>11, <2>1, SumsCompare
<1>14. sA[m] <= sA[M]
  <2>1. \A x \in X : A[x] \in Nat
    BY <1>4
  <2>2. \A x, y \in X : bug[x] = bug[y] => A[x] = A[y]
    BY <1>4
  <2>3. \A x, y \in m : bug[x] = bug[y] => x = y
    BY <1>4, <1>7 DEF OneToOne
  <2>4. \A x, y \in M : bug[x] = bug[y] => x = y
    BY <1>3, <1>4 DEF OneToOne
  <2>5. \A x \in m : A[x] # 0 => \E y \in M : bug[y] = bug[x]
    BY <1>1, <1>3, <1>4, <1>7 DEF Prices
  <2> HIDE DEF M
  <2> QED
    BY <1>2, <1>3, <1>7, <1>9, <2>1, <2>2, <2>3, <2>4, <2>5, SumsOfKeys
<1>15. sZ[m] <= sZ[M]
  <2>1. \A x \in X : Z[x] \in Nat
    BY <1>4
  <2>2. \A x, y \in X : finding[x] = finding[y] => Z[x] = Z[y]
    BY <1>4
  <2>3. \A x, y \in m : finding[x] = finding[y] => x = y
    BY <1>4, <1>7 DEF OneToOne
  <2>4. \A x, y \in M : finding[x] = finding[y] => x = y
    BY <1>3, <1>4 DEF OneToOne
  <2>5. \A x \in m : Z[x] # 0 => \E y \in M : finding[y] = finding[x]
    BY <1>1, <1>3, <1>4, <1>7 DEF Prices
  <2> HIDE DEF M
  <2> QED
    BY <1>2, <1>3, <1>7, <1>10, <2>1, <2>2, <2>3, <2>4, <2>5, SumsOfKeys
<1>16. \A T \in SUBSET X : sW[T] \in Int /\ sA[T] \in Int /\ sZ[T] \in Int /\ sK[T] \in Int
  BY <1>8, <1>9, <1>10, <1>11 DEF Sums
<1>17. sW[m] <= sW[M]
  BY <1>3, <1>7, <1>11, <1>12, <1>13, <1>14, <1>15, <1>16 DEF Adds
<1>18. ASSUME NEW q \in SUBSET X, \A x \in q : W[x] = weights[x[1]][x[2]]
       PROVE  Total(q) = sW[q]
  <2>1. Sums([T \in SUBSET q |-> sW[T]], q, W)
    BY <1>8, SumsRestrict
  <2>2. IsFiniteSet(q)
    BY <1>2, FS_Subset
  <2>3. Total(q) = [T \in SUBSET q |-> sW[T]][q]
    BY <1>18, <2>1, <2>2, TotalIsSum
  <2> QED
    BY <2>3
<1>19. Total(m) = sW[m] /\ Total(M) = sW[M]
  <2> HIDE DEF M
  <2> QED
    BY <1>3, <1>5, <1>6, <1>7, <1>18
<1> QED
  BY <1>17, <1>19

-----------------------------------------------------------------------------
(* The results. *)

LEMMA NextIInv == IInv /\ [Next]_vars => IInv'
  BY StartRowStep, ScanStep, AugmentStep, AssignedStep, DoneStep, StutterStep DEF Next

LEMMA SpecIInv == Spec => []IInv
<1>1. Init => IInv
  BY InitIInv
<1>2. IInv /\ [Next]_vars => IInv'
  BY NextIInv
<1> QED
  BY <1>1, <1>2, PTL DEF Spec

\* Type correctness of the state of _hungarian_min_cost: in particular p, way and
\* j0 always index columns of the cost matrix.
THEOREM AssignmentTypeCorrect == Spec => []TypeOK
<1>1. IInv => TypeOK
  BY DEF IInv
<1> QED
  BY <1>1, SpecIInv, PTL

\* After every step of the loops of _hungarian_min_cost the potentials are
\* feasible for the rows assigned so far, tight on the matched pairs and zero on
\* the columns left over: the certificate of a minimum-cost assignment.
THEOREM PotentialsCertify == Spec => []PotentialsCertifyTheMatching
<1>1. IInv => PotentialsCertifyTheMatching
  BY DEF IInv, DualInv
<1> QED
  BY <1>1, SpecIInv, PTL

\* _max_weight_matching resolves ties to the lowest finding index: no bug is
\* credited with a finding while an earlier one of the same weight is left over,
\* for any number of bugs and findings and any weights.
THEOREM FirstFindingWinsTies == Spec => []TiesTakeTheFirstFinding
<1>1. ASSUME IInv, pc = "done", NEW x \in Matching, NEW f \in Columns,
             f < x[2], weights[x[1]][f] = weights[x[1]][x[2]]
      PROVE  \E y \in Matching : y[2] = f
  <2>1. /\ x[1] \in Row /\ x[2] \in Columns /\ weights[x[1]][x[2]] # None
        /\ \E c \in 1..real_cols : p[c] = x[1] /\ FindingOf(c) = x[2]
    BY DEF Matching
  <2>2. PICK r \in Row, c \in 1..real_cols : r = x[1] /\ p[c] = r /\ FindingOf(c) = x[2]
    BY <2>1
  <2>3. PICK d \in 1..real_cols : d < c /\ FindingOf(d) = f
    BY <1>1, <2>1, <2>2, PlaceFact, FindingFact
  <2>4. /\ c \in Col /\ d \in Col /\ c \in Live /\ d \in Live
        /\ ~(c > real_cols) /\ ~(d > real_cols) /\ d <= real_cols
    <3>1. real_cols \in Nat /\ Bugs \in Nat
      BY ColumnsFact, SentinelAssumption DEF SentinelAssumption
    <3>2. c \in Col /\ d \in Col
      BY <3>1 DEF Col
    <3>3. Live = AllCols \ {0}
      BY <1>1 DEF Live
    <3> QED
      BY <3>1, <3>2, <3>3, ColumnsFact
  <2>5. Cost(r, d) = Cost(r, c)
    BY <1>1, <2>2, <2>3, <2>4 DEF Cost
  <2>6. p[d] # 0
    <3> SUFFICES ASSUME p[d] = 0 PROVE FALSE
      OBVIOUS
    <3>1. r \in Covered
      <4>1. Covered = 1..i
        BY <1>1 DEF Covered
      <4>2. p[c] <= i /\ i \in Int
        BY <1>1, <2>4, ColumnsFact DEF IInv, SlotInv, TypeOK
      <4> QED
        BY <2>2, <4>1, <4>2 DEF Row
    <3>2. r # 0
      BY DEF Row
    <3>3. Reduced(r, c) = 0 /\ Reduced(r, d) >= 0 /\ v[d] = 0 /\ v[c] <= 0 /\ v[c] \in Int
      BY <1>1, <2>2, <2>4, <3>1, <3>2, DualFact
    <3>4. u[r] \in Int /\ Cost(r, c) \in Int
      BY <1>1, <2>4, DualFact
    <3>5. Cost(r, c) - u[r] - v[c] = 0 /\ Cost(r, c) - u[r] - 0 >= 0
      BY <2>5, <3>3 DEF Reduced
    <3>6. v[c] = 0
      BY <3>3, <3>4, <3>5
    <3>7. TieFree(r, c)
      BY <1>1, <2>2, <2>4, <3>2 DEF IInv, TieInv
    <3> QED
      BY <2>3, <2>4, <2>5, <3>6, <3>7 DEF TieFree
  <2>7. <<p[d], f>> \in Matching
    BY <1>1, <2>3, <2>6, RealColumnsMatch
  <2> QED
    BY <2>7
<1>2. IInv => TiesTakeTheFirstFinding
  BY <1>1 DEF TiesTakeTheFirstFinding
<1> QED
  BY <1>2, SpecIInv, PTL


\* "This returns the exact maximum-weight matching with no approximation": what
\* _max_weight_matching returns is one to one, and no way to pair bugs and
\* findings one to one has a greater total weight, for any number of bugs and
\* findings and any weights.
THEOREM MatchingIsOptimal == Spec => []MaximumWeight
<1>1. ASSUME IInv, pc = "done"
      PROVE  /\ OneToOne(Matching)
             /\ \A m \in SUBSET (Row \X Columns) : OneToOne(m) => Total(m) <= Total(Matching)
  BY <1>1, MatchingOneToOne, PricesBound
<1>2. IInv => MaximumWeight
  BY <1>1 DEF MaximumWeight
<1> QED
  BY <1>2, SpecIInv, PTL

=============================================================================
