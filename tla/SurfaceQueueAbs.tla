--------------------------- MODULE SurfaceQueueAbs ---------------------------
(***************************************************************************)
(* What a tbm_surface_queue promises to its producer and its consumer,     *)
(* with no list pointers, node types or implementation interface: every    *)
(* attached surface is in exactly one place (waiting to be dequeued,       *)
(* waiting to be acquired, or out in a client's hands), both waiting lines *)
(* are first-in first-out, and no more surfaces are attached than the      *)
(* queue's size.  SurfaceQueue.tla is shown to implement this module.      *)
(***************************************************************************)
EXTENDS Integers, Sequences, FiniteSets

CONSTANT
    Surface   \* the surfaces that can ever be attached

VARIABLES
    free,     \* surfaces that can be dequeued, the oldest first
    dirty,    \* surfaces that can be acquired, the oldest first
    out,      \* surfaces a producer or a consumer holds
    limit     \* the number of surfaces that may be attached

vars == <<free, dirty, out, limit>>

\* The surfaces in a waiting line.
Elems(s) == {s[i] : i \in 1..Len(s)}

NoRepeats(s) == \A i, j \in 1..Len(s) : s[i] = s[j] => i = j

Attached == Elems(free) \cup Elems(dirty) \cup out

NumAttached == Len(free) + Len(dirty) + Cardinality(out)

TypeOK ==
    /\ free \in Seq(Surface)
    /\ dirty \in Seq(Surface)
    /\ out \subseteq Surface
    /\ IsFiniteSet(out)
    /\ limit \in Nat

Init ==
    /\ free = << >>
    /\ dirty = << >>
    /\ out = {}
    /\ limit \in Nat
-----------------------------------------------------------------------------
\* The queue attaches a new surface when it is below its limit.
Attach(s) ==
    /\ s \notin Attached
    /\ NumAttached < limit
    /\ free' = Append(free, s)
    /\ UNCHANGED <<dirty, out, limit>>

\* A producer takes the oldest free surface.
Dequeue ==
    /\ free # << >>
    /\ free' = Tail(free)
    /\ out' = out \cup {Head(free)}
    /\ UNCHANGED <<dirty, limit>>

\* The queue attaches a surface and hands out the oldest free one in one call.
AttachDequeue(s) ==
    /\ s \notin Attached
    /\ NumAttached < limit
    /\ free' = Tail(Append(free, s))
    /\ out' = out \cup {Head(Append(free, s))}
    /\ UNCHANGED <<dirty, limit>>

\* The non-empty sequences of surfaces that are out.
Batches == UNION {[1..n -> out] : n \in 1..Cardinality(out)}

\* One call makes the surfaces of batch acquirable.
Enqueue(batch) ==
    /\ NoRepeats(batch)
    /\ dirty' = dirty \o batch
    /\ out' = out \ Elems(batch)
    /\ UNCHANGED <<free, limit>>

\* A consumer takes the oldest acquirable surface.
Acquire ==
    /\ dirty # << >>
    /\ dirty' = Tail(dirty)
    /\ out' = out \cup {Head(dirty)}
    /\ UNCHANGED <<free, limit>>

\* A surface comes back and can be dequeued again.
Release(s) ==
    /\ s \in out
    /\ free' = Append(free, s)
    /\ out' = out \ {s}
    /\ UNCHANGED <<dirty, limit>>

\* The limit changes; the n oldest free surfaces are dropped, enough of them
\* for the rest to fit.
Resize(n) ==
    /\ limit' \in Nat
    /\ NumAttached - n <= limit'
    /\ free' = SubSeq(free, n + 1, Len(free))
    /\ UNCHANGED <<dirty, out>>

\* Every surface is dropped at once (flush, reset, destroy, create).
Clear ==
    /\ free' = << >>
    /\ dirty' = << >>
    /\ out' = {}
    /\ limit' \in Nat

Next ==
    \/ \E s \in Surface : Attach(s) \/ AttachDequeue(s) \/ Release(s)
    \/ Dequeue
    \/ Acquire
    \/ \E batch \in Batches : Enqueue(batch)
    \/ \E n \in 0..Len(free) : Resize(n)
    \/ Clear

Spec == Init /\ [][Next]_vars
-----------------------------------------------------------------------------
\* Every attached surface is in exactly one place: no surface waits twice,
\* waits in both lines, or waits while a client holds it.
OnePlace ==
    /\ NoRepeats(free)
    /\ NoRepeats(dirty)
    /\ Elems(free) \cap Elems(dirty) = {}
    /\ Elems(free) \cap out = {}
    /\ Elems(dirty) \cap out = {}

\* The queue never attaches more surfaces than its size allows.
Bounded == NumAttached <= limit
=============================================================================
