------------------------- MODULE FindingAssignment -------------------------
(***************************************************************************)
(* Which finding is credited to which ground-truth bug: the maximum-weight *)
(* one-to-one assignment of arena/scoring/scorer.py and the Hungarian      *)
(* algorithm under it, one iteration of its loops per step, and the        *)
(* classification of the findings by score_case.                           *)
(*                                                                         *)
(* The weight of a pair (its concept, file, line, severity and fix ratios  *)
(* scaled by the case's weights) is an integer, or None when the pair is   *)
(* ineligible; the code's are floats.  Rows, bugs and columns count from 1 *)
(* as they do inside _hungarian_min_cost; column 0 is its virtual column.  *)
(***************************************************************************)
EXTENDS Integers, FiniteSets, FiniteSetsExt

CONSTANTS Bugs,      \* number of ground-truth bugs
          Findings,  \* number of findings of the answer
          Values,    \* weights an eligible pair may have
          None,
          Forbidden, \* _FORBIDDEN_COST
          Inf        \* float("inf")

\* MAX_BUGS_PER_CASE and MAX_FINDINGS_PER_RESPONSE bound the input, and the
\* sentinels exceed every total.
ASSUME SentinelAssumption ==
    /\ Bugs \in Nat \ {0} /\ Findings \in Nat /\ Values \subseteq Nat
    /\ Forbidden \in Nat /\ Inf \in Nat \ {0}
    /\ \A w \in Values : Bugs * w < Forbidden
    /\ \A w \in Values : Bugs * (Forbidden + w) < Inf

VARIABLES
    weights,  \* the weights of the eligible pairs
    pc,       \* "row", "scan", "augment" or "done"
    i,        \* the row being assigned
    j0,       \* the column at the end of the alternating path
    u, v,     \* potentials of the rows and columns
    p,        \* p[j]: the row matched to column j, 0 for none
    way,      \* the column before j on the cheapest path
    minv,     \* slack of the columns not yet on a path
    used      \* columns on the path

vars == <<weights, pc, i, j0, u, v, p, way, minv, used>>

Row == 1..Bugs

\* finding_ids: only findings that are eligible for some bug have a column.
Columns == {f \in 1..Findings : \E b \in Row : weights[b][f] # None}
real_cols == Cardinality(Columns)
Col == 1..(real_cols + Bugs)
FindingOf(c) == CHOOSE f \in Columns : Cardinality({g \in Columns : g <= f}) = c

\* The columns after the real ones are the zero-cost "unmatched" slots.
Cost(b, c) ==
    IF c > real_cols THEN 0
    ELSE IF weights[b][FindingOf(c)] = None THEN Forbidden
    ELSE -weights[b][FindingOf(c)]

AllCols == 0..(Findings + Bugs)

Init ==
    /\ weights \in [Row -> [1..Findings -> Values \cup {None}]]
    /\ pc = IF Columns = {} THEN "done" ELSE "row"
    /\ i = 0
    /\ j0 = 0
    /\ u = [r \in Row |-> 0]
    /\ v = [c \in AllCols |-> 0]
    /\ p = [c \in AllCols |-> 0]
    /\ way = [c \in AllCols |-> 0]
    /\ minv = [c \in AllCols |-> Inf]
    /\ used = {}

-----------------------------------------------------------------------------
(* _hungarian_min_cost *)

StartRow ==
    /\ pc = "row"
    /\ i < Bugs
    /\ i' = i + 1
    /\ p' = [p EXCEPT ![0] = i + 1]
    /\ j0' = 0
    /\ minv' = [c \in AllCols |-> Inf]
    /\ used' = {}
    /\ pc' = "scan"
    /\ UNCHANGED <<weights, u, v, way>>

\* Reduced cost of a row and a column under the potentials.
Reduced(r, c) == Cost(r, c) - u[r] - v[c]

\* Mutant of Better: the path may only be entered from the virtual column.
BetterAtFirst(c) == j0 = 0 /\ Reduced(p[j0], c) < minv[c]

\* Column c is reached more cheaply through j0 than before.
Better(c) == Reduced(p[j0], c) < minv[c]

\* Mutant of Cheapest: ties resolve to the highest column.
CheapestLast(slack, free) ==
    CHOOSE c \in free : \A d \in free : slack[c] < slack[d] \/ (slack[c] = slack[d] /\ c >= d)

\* The next column of the path, the lowest one on a tie.
Cheapest(slack, free) ==
    CHOOSE c \in free : \A d \in free : slack[c] < slack[d] \/ (slack[c] = slack[d] /\ c <= d)

\* One round of the inner loop: relax the free columns from the row matched to
\* j0, move the potentials of everything on the path by the smallest slack, and
\* extend the path.  It ends at a column that is not matched yet.
Scan ==
    LET on    == used \cup {j0}
        free  == Col \ on
        slack == [c \in AllCols |->
                    IF c \in free /\ Better(c) THEN Reduced(p[j0], c) ELSE minv[c]]
        j1    == Cheapest(slack, free)
        delta == slack[j1]
    IN  /\ pc = "scan"
        /\ used' = on
        /\ way' = [c \in AllCols |-> IF c \in free /\ Better(c) THEN j0 ELSE way[c]]
        /\ u' = [r \in Row |-> IF \E c \in on : p[c] = r THEN u[r] + delta ELSE u[r]]
        /\ v' = [c \in AllCols |-> IF c \in on THEN v[c] - delta ELSE v[c]]
        /\ minv' = [c \in AllCols |-> IF c \in free THEN slack[c] - delta ELSE slack[c]]
        /\ j0' = j1
        /\ pc' = IF p[j1] = 0 THEN "augment" ELSE "scan"
        /\ UNCHANGED <<weights, i, p>>

\* One round of the loop that hands the matches along the path back to front.
Augment ==
    /\ pc = "augment"
    /\ p' = [p EXCEPT ![j0] = p[way[j0]]]
    /\ j0' = way[j0]
    /\ pc' = IF way[j0] = 0 THEN "row" ELSE "augment"
    /\ UNCHANGED <<weights, i, u, v, way, minv, used>>

Assigned ==
    /\ pc = "row"
    /\ i = Bugs
    /\ pc' = "done"
    /\ UNCHANGED <<weights, i, j0, u, v, p, way, minv, used>>

Done == pc = "done" /\ UNCHANGED vars

Next == StartRow \/ Scan \/ Augment \/ Assigned \/ Done

Spec == Init /\ [][Next]_vars

-----------------------------------------------------------------------------
(* What the callers make of it. *)

\* _max_weight_matching: bugs in a real, eligible column are matched.
Matching ==
    {x \in Row \X Columns :
        /\ weights[x[1]][x[2]] # None
        /\ \E c \in 1..real_cols : p[c] = x[1] /\ FindingOf(c) = x[2]}

TypeOK ==
    /\ weights \in [Row -> [1..Findings -> Values \cup {None}]]
    /\ i \in 0..Bugs /\ j0 \in AllCols /\ used \subseteq AllCols
    /\ u \in [Row -> Int] /\ v \in [AllCols -> Int] /\ minv \in [AllCols -> Int]
    /\ p \in [AllCols -> 0..Bugs] /\ way \in [AllCols -> AllCols]
    /\ pc \in {"row", "scan", "augment", "done"}

\* The rows the potentials cover: a row enters with the first scan from it.
Covered == IF pc = "scan" /\ used = {} THEN 1..(i - 1) ELSE 1..i

\* What makes the result optimal, after every step of the loops of
\* _hungarian_min_cost: no pair undercuts the potentials, every matched pair
\* attains them, and a column has a price only once it is matched.
PotentialsCertifyTheMatching ==
    \A c \in Col :
        /\ \A r \in Covered : Reduced(r, c) >= 0
        /\ p[c] # 0 => Reduced(p[c], c) = 0
        /\ v[c] <= 0
        /\ p[c] = 0 => v[c] = 0

\* The reference: a matching pairs bugs and eligible findings one to one.
OneToOne(m) ==
    /\ \A x \in m : weights[x[1]][x[2]] # None
    /\ \A x, y \in m : x[1] = y[1] \/ x[2] = y[2] => x = y

Total(m) == MapThenSumSet(LAMBDA x : weights[x[1]][x[2]], m)

\* _max_weight_matching: "This returns the exact maximum-weight matching with no
\* approximation", over all ways to pair bugs with findings.
MaximumWeight ==
    pc = "done" =>
        /\ OneToOne(Matching)
        /\ \A m \in SUBSET (Row \X Columns) : OneToOne(m) => Total(m) <= Total(Matching)

\* "Ties resolve to the lowest finding index": no bug is credited with a finding
\* while an earlier one of the same weight is left over.
TiesTakeTheFirstFinding ==
    pc = "done" =>
        \A x \in Matching : \A f \in Columns :
            f < x[2] /\ weights[x[1]][f] = weights[x[1]][x[2]]
                => \E y \in Matching : y[2] = f

=============================================================================
