-------------------------- MODULE MCCaseEvaluation --------------------------
(* TLC instance of CaseEvaluation: the case configurations to evaluate. *)
EXTENDS CaseEvaluation

\* Every gate and backend combination, with one or two seeded bugs and up to
\* two test commands.
MCCases ==
    {c \in [run_tests : BOOLEAN, commands : 0..2, docker_image : BOOLEAN,
            static_analysis : BOOLEAN, tests_dir : BOOLEAN, bugs : 1..2,
            patch_required : BOOLEAN, tests_required : BOOLEAN,
            structural_validators : BOOLEAN, max_false_positives : {0},
            detection_requirement : {"all_bugs", "at_least_one"}] :
        /\ ~c.run_tests => c.commands = 0 /\ ~c.docker_image
        /\ c.bugs = 1 => c.detection_requirement = "all_bugs"}

MCFindings ==
    [bug : 0..2, acceptable : {FALSE}, valid : {TRUE}, patch : BOOLEAN]
    \cup [bug : 0..1, acceptable : {TRUE}, valid : {TRUE}, patch : {FALSE}]
    \cup [bug : {0}, acceptable : {FALSE}, valid : {FALSE}, patch : BOOLEAN]

Document(shape, container, fields, proposed, findings) ==
    [shape |-> shape, container |-> container, fields |-> fields,
     proposed_patch |-> proposed, findings |-> findings]

\* Well-formed documents with up to two findings, and for each way a document
\* can deviate one with a finding in it.
MCAnswers ==
    LET findings == {<<>>} \cup {<<f>> : f \in MCFindings}
                    \cup {<<f, g>> : f, g \in MCFindings}
        good == [bug |-> 1, acceptable |-> FALSE, valid |-> TRUE, patch |-> TRUE]
        bad == [bug |-> 0, acceptable |-> FALSE, valid |-> FALSE, patch |-> TRUE]
        deviant == {Document("object", "list", fields, TRUE, <<good, bad>>) :
                        fields \in {"missing", "bad"}}
                   \cup {Document("object", "other", "given", TRUE, <<>>),
                         Document("scalar", "other", "missing", FALSE, <<>>),
                         Document("list", "other", "missing", FALSE, <<>>),
                         Document("list", "other", "missing", FALSE, <<good, bad>>)}
    IN  [text : {"plain", "fenced", "prose"},
         doc : deviant \cup {Document("object", "list", "given", proposed, fs) :
                                proposed \in BOOLEAN, fs \in findings}]
        \cup {[text |-> "garbage", doc |-> Document("scalar", "other", "bad", FALSE, <<>>)]}

=============================================================================
