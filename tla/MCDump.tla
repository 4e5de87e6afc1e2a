------------------------------- MODULE MCDump -------------------------------
(* A small instance of Dump for TLC.                                       *)
EXTENDS Dump

CONSTANTS t1, b1, b2, b3, x1, x2, x3, s1, null

OneThread == {t1}
ThreeBos == {b1, b2, b3}
ThreePrivs == {x1, x2, x3}
OneSurf == {s1}
Symmetry == Permutations(ThreeBos) \cup Permutations(ThreePrivs)

\* The environment of the process, and its bounds.
Process ==
    [env \in {"once"} |->
        [surfs |-> 1, refs |-> 1, maps |-> 2, null_bos |-> TRUE]]
=============================================================================
