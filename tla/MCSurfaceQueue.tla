--------------------------- MODULE MCSurfaceQueue ---------------------------
(* Small instances of SurfaceQueue for TLC.                                *)
EXTENDS SurfaceQueue, TLC

CONSTANTS s1, s2, s3, s4, p1

Surfaces4 == {s1, s2, s3, s4}
Surfaces3 == {s1, s2, s3}
Symmetry == Permutations(Surfaces3)

SizesUpTo3 == {1, 2, 3}
Prods == {p1}

\* Clients of both implementations that cancel and flush, with an alloc_cb.
CancelAndFlush ==
    [surfaces |-> Surfaces3, out |-> 3, impls |-> {"default", "sequence"},
     alloc_cb |-> TRUE, liberties |-> {"cancel", "flush_busy"}]

\* Clients that shrink a busy queue, with some number of surfaces out.
Shrink(out) ==
    [surfaces |-> Surfaces4, out |-> out, impls |-> {"default"},
     alloc_cb |-> FALSE, liberties |-> {"shrink_busy"}]

Proper == {CancelAndFlush, Shrink(1)}
ShrinkBusy == {Shrink(2)}
=============================================================================
