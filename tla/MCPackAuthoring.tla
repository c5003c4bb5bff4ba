-------------------------- MODULE MCPackAuthoring --------------------------
(* TLC instance of PackAuthoring. *)
EXTENDS PackAuthoring, TLC

\* A case whose directory sorts before manifest.yaml, and one that sorts after
\* pack.sha256.
CaseFirstOrLast ==
    <<<<"case", "manifest", "pack.sha256">>, <<"manifest", "pack.sha256", "case">>>>

\* Writers are interchangeable.
Permuted == Permutations(Writers)

=============================================================================
