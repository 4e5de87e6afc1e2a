----------------------------- MODULE MCUserData -----------------------------
(* A small instance of UserData and DebugData for TLC.                     *)
EXTENDS DebugData

CONSTANTS t1, b1, b2, x1, x2, s1, s2, k1, k2, d1, d2, null

OneThread == {t1}
TwoBos == {b1, b2}
TwoPrivs == {x1, x2}
TwoSurfs == {s1, s2}
TwoKeys == {k1, k2}
TwoData == {d1, d2}
Symmetry == Permutations(TwoBos) \cup Permutations(TwoPrivs)
                \cup Permutations(TwoSurfs) \cup Permutations(TwoKeys)
                \cup Permutations(TwoData)

\* User data of a surface and two bos; debug data of two surfaces.
UserOrDebug ==
    [env \in {"always", "none"} |->
        [surfs |-> IF env = "none" THEN 2 ELSE 1, refs |-> 1, maps |-> 0,
         null_bos |-> FALSE]]
Debugged == {"none"}
OneKey == {"id"}
Values == {<<1>>, <<1, 2>>}
=============================================================================
