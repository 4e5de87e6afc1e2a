----------------------------- MODULE MCSurface ------------------------------
(* Small instances of Surface for TLC.                                     *)
EXTENDS Surface, TLC

CONSTANTS t1, t2, b1, b2, x1, x2, s1, s2, null

TwoThreads == {t1, t2}
TwoBos == {b1, b2}
TwoPrivs == {x1, x2}
TwoSurfs == {s1, s2}
Symmetry == Permutations(TwoThreads) \cup Permutations(TwoBos)
                \cup Permutations(TwoPrivs) \cup Permutations(TwoSurfs)

\* Two surfaces that share bos, without backend locks; one surface and bos
\* that both threads lock and map, and creations that fail on a NULL bo.
ShareAndMap ==
    [env \in {"none", "always"} |->
        IF env = "none"
        THEN [surfs |-> 2, refs |-> 1, maps |-> 1, null_bos |-> FALSE]
        ELSE [surfs |-> 1, refs |-> 1, maps |-> 2, null_bos |-> TRUE]]
=============================================================================
