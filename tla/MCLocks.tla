------------------------------ MODULE MCLocks -------------------------------
(* Three threads of libtbm for TLC.                                        *)
EXTENDS LockOrder, TbmLocks, TLC

CONSTANTS t1, t2, t3

Threads == {t1, t2, t3}
Symmetry == Permutations(Threads)
Calls == DOMAIN Programs
Mutexes == {Order[i] : i \in 1 .. Len(Order)}
RankOf == [x \in Mutexes |-> CHOOSE i \in 1 .. Len(Order) : Order[i] = x]
Lists == {"bo_list", "surf_list", "queue", "callbacks"}
GuardOf ==
    [d \in Lists |-> CASE d = "bo_list"   -> "bufmgr"
                       [] d = "surf_list" -> "surface"
                       [] d = "queue"     -> "surf_queue"
                       [] d = "callbacks" -> "surf_queue"]

\* The functions of libtbm keep the discipline that LockOrderProofs rests on.
ASSUME ProgramsKeepDiscipline == Discipline
=============================================================================
