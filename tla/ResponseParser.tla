--------------------------- MODULE ResponseParser ---------------------------
(***************************************************************************)
(* What the program takes from a reviewer's answer: parse_reviewer_output  *)
(* in arena/reviewers/response_parser.py, the transports in front of it    *)
(* (custom_command.py and http.py), and what score_case and                *)
(* _select_case_patch read of the result.                                  *)
(*                                                                         *)
(* An answer is a document and the text it comes in: "plain" decodes as it *)
(* is; "fenced" (a fence around it, or trailing commas) and "prose" (text  *)
(* around it, a list's brackets are text too) only after the tolerant      *)
(* transforms; "garbage" not at all.  A finding is an object, known by the *)
(* bug it matches (0 for none), whether the case accepts it, whether it    *)
(* passes the schema and the path rules, and whether it carries a patch;   *)
(* what is kept of the findings are those at the places that pass.         *)
(***************************************************************************)
EXTENDS Naturals, Sequences, FiniteSets

Documents ==
    [shape : {"object", "list", "scalar"}, container : {"list", "other"},
     fields : {"given", "missing", "bad"}, proposed_patch : BOOLEAN,
     findings : Seq([bug : Nat, acceptable : BOOLEAN, valid : BOOLEAN, patch : BOOLEAN])]

\* The findings that pass, and the ones with a patch, by their places.
Valid(findings) == {i \in DOMAIN findings : findings[i].valid}
WithPatch(findings) == {i \in DOMAIN findings : findings[i].patch}

\* Everything ReviewResult asks for beside the findings.
Complete(doc) == doc.shape = "object" /\ doc.container = "list" /\ doc.fields = "given"

AllValid(findings) == Valid(findings) = DOMAIN findings

Invalid == [status |-> "invalid", findings |-> <<>>, proposed_patch |-> FALSE]

Parsed(status, doc) ==
    [status |-> status, findings |-> [i \in Valid(doc.findings) |-> doc.findings[i]],
     proposed_patch |-> doc.proposed_patch]

\* _try_exact
TryExact(answer) ==
    IF answer.text = "plain" /\ Complete(answer.doc) /\ AllValid(answer.doc.findings)
    THEN Parsed("exact", answer.doc) ELSE Invalid

\* Whether the text of a findings list decodes to one.  The extraction of an
\* object cuts a list that needs the transforms to what lies between its first and
\* its last brace, which is no answer; an empty list has no brace to cut at, but
\* prose around it stays.
ListSurvives(answer) ==
    answer.text = "plain" \/ (answer.text = "fenced" /\ answer.doc.findings = <<>>)

\* _try_repair: a bare list is wrapped, missing fields get defaults, and the
\* findings that do not pass are dropped.  A findings container is never made up.
TryRepair(answer) ==
    LET doc == answer.doc
    IN  IF /\ answer.text # "garbage"
           /\ \/ doc.shape = "list" /\ ListSurvives(answer)
              \/ doc.shape = "object" /\ doc.container = "list" /\ doc.fields # "bad"
        THEN Parsed("repaired", [doc EXCEPT !.proposed_patch = @ /\ doc.shape = "object"])
        ELSE Invalid

\* Mutant of TryTolerant: the findings that do not pass are dropped here too.
TryTolerantDropping(answer) ==
    IF answer.text \in {"fenced", "prose"} /\ Complete(answer.doc)
    THEN Parsed("tolerant", answer.doc) ELSE TryRepair(answer)

\* _try_tolerant, which drops nothing and otherwise falls through.
TryTolerant(answer) ==
    IF answer.text \in {"fenced", "prose"} /\ Complete(answer.doc) /\ AllValid(answer.doc.findings)
    THEN Parsed("tolerant", answer.doc) ELSE TryRepair(answer)

\* parse_reviewer_output
Parse(answer, enable_repair) ==
    LET exact == TryExact(answer)
    IN  IF exact.status = "exact" \/ ~enable_repair THEN exact ELSE TryTolerant(answer)

\* review of the command and HTTP reviewers: an answer that did not arrive
\* whole (no process, timeout, output limit, exit code, status, encoding,
\* envelope) is invalid whatever it contains.
Response(answer, delivered, enable_repair) ==
    IF delivered THEN Parse(answer, enable_repair) ELSE Invalid

\* score_case: the bugs that get a finding, and the places of the findings that
\* may serve them, one for each (which one is FindingAssignment's question).
Matched(parsed) == {parsed.findings[i].bug : i \in DOMAIN parsed.findings} \ {0}

Servings(parsed) ==
    {tp \in SUBSET DOMAIN parsed.findings :
        /\ \A i \in tp : parsed.findings[i].bug \in Matched(parsed)
        /\ \A b \in Matched(parsed) :
             Cardinality({i \in tp : parsed.findings[i].bug = b}) = 1}

\* The findings left over: the ones the case accepts, and the others.
Neutral(parsed, tp) == {i \in DOMAIN parsed.findings \ tp : parsed.findings[i].acceptable}
FalsePositives(parsed, tp) == DOMAIN parsed.findings \ (tp \cup Neutral(parsed, tp))

\* _select_case_patch
PatchSource(parsed) ==
    LET patches == Cardinality(WithPatch(parsed.findings))
    IN  IF parsed.proposed_patch THEN "proposed_patch"
        ELSE IF patches = 1 THEN "single_finding"
        ELSE IF patches > 1 THEN "ambiguous"
        ELSE "none"

=============================================================================
