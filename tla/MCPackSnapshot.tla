--------------------------- MODULE MCPackSnapshot ---------------------------
(* TLC instance of PackSnapshot. *)
EXTENDS PackSnapshot, TLC

CONSTANTS f1, f2, root, sub, a, b

\* One file beside a directory, one file in it.
Nested == (f1 :> root) @@ (f2 :> sub)
InRoot == sub :> root

\* Contents that differ.
OneChunk == {<<a>>, <<b>>}

Symmetric == Permutations({a, b})

=============================================================================
