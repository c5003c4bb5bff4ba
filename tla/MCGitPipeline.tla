--------------------------- MODULE MCGitPipeline ---------------------------
(* TLC instance of GitPipeline. *)
EXTENDS GitPipeline

CONSTANTS a, b, prot, bad

\* a and b differ in case only; prot is protected; bad is refused by the path
\* policy.
MCPaths == {a, b, prot, bad}
MCKey == [p \in MCPaths |-> IF p = b THEN a ELSE p]

File(blob) == [mode |-> "100644", blob |-> blob]
Script(blob) == [mode |-> "100755", blob |-> blob]
Symlink == [mode |-> "120000", blob |-> 0]
Gitlink == [mode |-> "160000", blob |-> 0]

\* Any of the paths with a plain file, and two trees with other modes.
MCSources ==
    [MCPaths -> {Absent, File(0)}]
      \cup {[Nowhere EXCEPT ![a] = e] : e \in {Script(0), Symlink}}

\* Patches of up to two paths, and one too large.
MCTexts ==
    {t \in [MCPaths -> {Keep, Absent, File(0), File(1), Script(0), Symlink, Gitlink}] :
        Cardinality({p \in MCPaths : t[p] # Keep}) <= 2}
      \cup {[p \in MCPaths |-> File(1)]}

MCLeftovers == {Nowhere, [Nowhere EXCEPT ![a] = File(1)]}

=============================================================================
