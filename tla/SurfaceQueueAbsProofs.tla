----------------------- MODULE SurfaceQueueAbsProofs -----------------------
(***************************************************************************)
(* The promises of SurfaceQueueAbs, proved for every set of surfaces and   *)
(* every queue size: a surface is in one place at a time, and the number   *)
(* of attached surfaces never exceeds the limit.                           *)
(***************************************************************************)
EXTENDS SurfaceQueueAbs, SequenceTheorems, FiniteSetTheorems, TLAPS

\* The inductive invariant.  Bounded is not inductive alone: that a surface
\* which moves between a line and a client's hands is counted once needs
\* OnePlace, and that sequences and cardinalities are numbers needs TypeOK.
IInv == TypeOK /\ OnePlace /\ Bounded

(***************************************************************************)
(* Facts about the waiting lines.                                          *)
(***************************************************************************)

\* Appending a surface adds it to the line's elements, and repeats nothing
\* if it was not there (attach, release).
LEMMA AppendFacts ==
    ASSUME NEW S, NEW s \in Seq(S), NEW x \in S
    PROVE  /\ Append(s, x) \in Seq(S)
           /\ Len(Append(s, x)) = Len(s) + 1
           /\ Elems(Append(s, x)) = Elems(s) \cup {x}
           /\ NoRepeats(s) /\ x \notin Elems(s) => NoRepeats(Append(s, x))
  <1> DEFINE a == Append(s, x)
  <1>1. /\ a \in Seq(S) /\ Len(a) = Len(s) + 1 /\ Len(s) \in Nat
        /\ \A i \in 1..Len(s) : a[i] = s[i]
        /\ a[Len(s) + 1] = x
    BY AppendProperties, LenProperties
  <1> HIDE DEF a
  <1>2. Elems(a) = Elems(s) \cup {x}
    <2>1. ASSUME NEW y \in Elems(a) PROVE y \in Elems(s) \cup {x}
      BY <1>1 DEF Elems
    <2>2. ASSUME NEW y \in Elems(s) PROVE y \in Elems(a)
      BY <1>1 DEF Elems
    <2>3. x \in Elems(a)
      BY <1>1 DEF Elems
    <2> QED BY <2>1, <2>2, <2>3
  <1>3. ASSUME NoRepeats(s), x \notin Elems(s) PROVE NoRepeats(a)
    BY <1>1, <1>3 DEF NoRepeats, Elems
  <1> QED BY <1>1, <1>2, <1>3 DEF a

\* Taking the head off a line without repeats leaves the other elements
\* (dequeue, acquire).
LEMMA TailFacts ==
    ASSUME NEW S, NEW s \in Seq(S), s # << >>, NoRepeats(s)
    PROVE  /\ Head(s) \in Elems(s)
           /\ Tail(s) \in Seq(S)
           /\ Len(Tail(s)) = Len(s) - 1
           /\ Elems(Tail(s)) = Elems(s) \ {Head(s)}
           /\ NoRepeats(Tail(s))
  <1> DEFINE t == Tail(s)
  <1>1. /\ Len(s) \in Nat \ {0}
        /\ Head(s) = s[1]
        /\ t \in Seq(S) /\ Len(t) = Len(s) - 1
        /\ \A i \in 1..Len(t) : t[i] = s[i + 1]
    BY HeadTailProperties, EmptySeq
  <1> HIDE DEF t
  <1>2. Head(s) \in Elems(s)
    BY <1>1 DEF Elems
  <1>3. NoRepeats(t)
    BY <1>1 DEF NoRepeats
  <1>4. Elems(t) = Elems(s) \ {Head(s)}
    <2>1. ASSUME NEW y \in Elems(t) PROVE y \in Elems(s) /\ y # Head(s)
      BY <1>1, SMTT(30) DEF Elems, NoRepeats
    <2>2. ASSUME NEW y \in Elems(s), y # Head(s) PROVE y \in Elems(t)
      <3>1. PICK i \in 1..Len(s) : y = s[i]
        BY DEF Elems
      <3>2. i - 1 \in 1..Len(t) /\ t[i - 1] = y
        BY <1>1, <2>2, <3>1
      <3> QED BY <3>2 DEF Elems
    <2> QED BY <2>1, <2>2
  <1> QED BY <1>1, <1>2, <1>3, <1>4 DEF t

\* Dropping the n oldest surfaces leaves a line of the others (set_size).
LEMMA DropFacts ==
    ASSUME NEW S, NEW s \in Seq(S), NEW n \in 0..Len(s)
    PROVE  /\ SubSeq(s, n + 1, Len(s)) \in Seq(S)
           /\ Len(SubSeq(s, n + 1, Len(s))) = Len(s) - n
           /\ Elems(SubSeq(s, n + 1, Len(s))) \subseteq Elems(s)
           /\ NoRepeats(s) => NoRepeats(SubSeq(s, n + 1, Len(s)))
  <1> DEFINE d == SubSeq(s, n + 1, Len(s))
  <1>1. Len(s) \in Nat /\ \A i \in (n + 1)..Len(s) : s[i] \in S
    BY LenProperties, ElementOfSeq
  <1>2. /\ d \in Seq(S)
        /\ Len(d) = IF n + 1 <= Len(s) THEN Len(s) - (n + 1) + 1 ELSE 0
        /\ \A i \in 1..(Len(s) - (n + 1) + 1) : d[i] = s[(n + 1) + i - 1]
    BY <1>1, SubSeqProperties
  <1> HIDE DEF d
  <1>3. Len(d) = Len(s) - n /\ \A i \in 1..Len(d) : d[i] = s[n + i]
    BY <1>1, <1>2
  <1>4. Elems(d) \subseteq Elems(s)
    BY <1>1, <1>3 DEF Elems
  <1>5. NoRepeats(s) => NoRepeats(d)
    BY <1>1, <1>3 DEF NoRepeats
  <1> QED BY <1>2, <1>3, <1>4, <1>5 DEF d

\* Appending a batch without repeats that shares nothing with the line
\* (enqueue).
LEMMA ConcatFacts ==
    ASSUME NEW S, NEW s \in Seq(S), NEW b \in Seq(S)
    PROVE  /\ s \o b \in Seq(S)
           /\ Len(s \o b) = Len(s) + Len(b)
           /\ Elems(s \o b) = Elems(s) \cup Elems(b)
           /\ NoRepeats(s) /\ NoRepeats(b) /\ Elems(s) \cap Elems(b) = {}
                => NoRepeats(s \o b)
  <1> DEFINE c == s \o b
  <1>1. /\ c \in Seq(S) /\ Len(c) = Len(s) + Len(b)
        /\ \A i \in 1..(Len(s) + Len(b)) :
             c[i] = IF i <= Len(s) THEN s[i] ELSE b[i - Len(s)]
        /\ Len(s) \in Nat /\ Len(b) \in Nat
    BY ConcatProperties, LenProperties
  <1> HIDE DEF c
  <1>2. \A i \in 1..Len(s) : i \in 1..Len(c) /\ c[i] = s[i]
    BY <1>1
  <1>3. \A i \in 1..Len(b) : Len(s) + i \in 1..Len(c) /\ c[Len(s) + i] = b[i]
    BY <1>1, SMTT(30)
  <1>4. \A i \in 1..Len(c) : \/ i \in 1..Len(s) /\ c[i] = s[i]
                             \/ i - Len(s) \in 1..Len(b) /\ c[i] = b[i - Len(s)]
    BY <1>1
  <1>5. Elems(c) = Elems(s) \cup Elems(b)
    <2>1. ASSUME NEW y \in Elems(c) PROVE y \in Elems(s) \cup Elems(b)
      BY <1>4 DEF Elems
    <2>2. ASSUME NEW y \in Elems(s) PROVE y \in Elems(c)
      BY <1>2 DEF Elems
    <2>3. ASSUME NEW y \in Elems(b) PROVE y \in Elems(c)
      BY <1>3 DEF Elems
    <2> QED BY <2>1, <2>2, <2>3
  <1>6. ASSUME NoRepeats(s), NoRepeats(b), Elems(s) \cap Elems(b) = {}
        PROVE  NoRepeats(c)
    <2> SUFFICES ASSUME NEW i \in 1..Len(c), NEW j \in 1..Len(c), c[i] = c[j]
                 PROVE  i = j
      BY DEF NoRepeats
    <2>1. CASE i \in 1..Len(s) /\ j \in 1..Len(s)
      BY <1>2, <1>6, <2>1 DEF NoRepeats
    <2>2. CASE i - Len(s) \in 1..Len(b) /\ j - Len(s) \in 1..Len(b)
      BY <1>1, <1>4, <1>6, <2>2 DEF NoRepeats
    <2>3. ASSUME NEW k \in 1..Len(s), NEW m \in 1..Len(b) PROVE s[k] # b[m]
      BY <1>6 DEF Elems
    <2> QED BY <1>4, <2>1, <2>2, <2>3
  <1> QED BY <1>1, <1>5, <1>6 DEF c

\* A line without repeats has as many elements as its length.
LEMMA CountFacts ==
    ASSUME NEW S, NEW n \in Nat, NEW b \in [1..n -> S], NoRepeats(b), Len(b) = n
    PROVE  IsFiniteSet(Elems(b)) /\ Cardinality(Elems(b)) = n
  <1>1. b \in Bijection(1..n, Elems(b))
    BY DEF Bijection, Injection, Surjection, IsInjective, Elems, NoRepeats
  <1>2. ExistsBijection(1..n, Elems(b))
    BY <1>1 DEF ExistsBijection
  <1>3. IsFiniteSet(1..n) /\ Cardinality(1..n) = n
    BY FS_Interval
  <1> QED BY <1>2, <1>3, FS_Bijection

(***************************************************************************)
(* The invariant is inductive.                                             *)
(***************************************************************************)

\* The empty queue that tbm_surface_queue_create makes satisfies the invariant.
LEMMA InitIInv == Init => IInv
  <1> SUFFICES ASSUME Init PROVE IInv
    OBVIOUS
  <1>1. Elems(<< >>) = {} /\ NoRepeats(<< >>)
    BY DEF Elems, NoRepeats
  <1>2. Len(<< >>) = 0 /\ << >> \in Seq(Surface)
    BY EmptySeq
  <1> QED
    BY <1>1, <1>2, FS_EmptySet
    DEF Init, IInv, TypeOK, OnePlace, Bounded, NumAttached

\* Attaching a surface that is not in the queue (need_attach of dequeue) keeps
\* the invariant.
LEMMA AttachIInv ==
    ASSUME IInv, NEW s \in Surface, Attach(s) PROVE IInv'
  <1> USE DEF IInv, Attach
  <1>1. /\ free' \in Seq(Surface)
        /\ Len(free') = Len(free) + 1
        /\ Elems(free') = Elems(free) \cup {s}
        /\ NoRepeats(free')
    BY AppendFacts DEF TypeOK, OnePlace, Attached
  <1>2. TypeOK'
    BY <1>1 DEF TypeOK
  <1>3. OnePlace'
    BY <1>1 DEF OnePlace, Attached
  <1>4. Bounded'
    <2>1. Len(free) \in Nat /\ Len(dirty) \in Nat /\ Cardinality(out) \in Nat
          /\ limit \in Nat
      BY LenProperties, FS_CardinalityType DEF TypeOK
    <2> QED BY <1>1, <2>1 DEF Bounded, NumAttached
  <1> QED BY <1>2, <1>3, <1>4

\* The numbers that make up NumAttached.
LEMMA Numbers ==
    ASSUME TypeOK
    PROVE  /\ Len(free) \in Nat /\ Len(dirty) \in Nat
           /\ Cardinality(out) \in Nat
           /\ limit \in Nat
  BY LenProperties, FS_CardinalityType DEF TypeOK

\* Handing the oldest free surface to the producer keeps the invariant.
LEMMA DequeueIInv ==
    ASSUME IInv, Dequeue PROVE IInv'
  <1> USE DEF IInv, Dequeue
  <1>1. /\ Head(free) \in Elems(free)
        /\ free' \in Seq(Surface)
        /\ Len(free') = Len(free) - 1
        /\ Elems(free') = Elems(free) \ {Head(free)}
        /\ NoRepeats(free')
    BY TailFacts DEF TypeOK, OnePlace
  <1>2. Head(free) \in Surface
    BY HeadTailProperties DEF TypeOK
  <1>3. Head(free) \notin out /\ Head(free) \notin Elems(dirty)
    BY <1>1 DEF OnePlace
  <1>4. IsFiniteSet(out') /\ Cardinality(out') = Cardinality(out) + 1
    BY <1>3, FS_AddElement DEF TypeOK
  <1>5. TypeOK'
    BY <1>1, <1>2, <1>4 DEF TypeOK
  <1>6. OnePlace'
    BY <1>1, <1>3 DEF OnePlace
  <1>7. Bounded'
    BY <1>1, <1>4, Numbers DEF Bounded, NumAttached
  <1> QED BY <1>5, <1>6, <1>7

\* Handing the oldest dirty surface to the consumer keeps the invariant.
LEMMA AcquireIInv ==
    ASSUME IInv, Acquire PROVE IInv'
  <1> USE DEF IInv, Acquire
  <1>1. /\ Head(dirty) \in Elems(dirty)
        /\ dirty' \in Seq(Surface)
        /\ Len(dirty') = Len(dirty) - 1
        /\ Elems(dirty') = Elems(dirty) \ {Head(dirty)}
        /\ NoRepeats(dirty')
    BY TailFacts DEF TypeOK, OnePlace
  <1>2. Head(dirty) \in Surface
    BY HeadTailProperties DEF TypeOK
  <1>3. Head(dirty) \notin out /\ Head(dirty) \notin Elems(free)
    BY <1>1 DEF OnePlace
  <1>4. IsFiniteSet(out') /\ Cardinality(out') = Cardinality(out) + 1
    BY <1>3, FS_AddElement DEF TypeOK
  <1>5. TypeOK'
    BY <1>1, <1>2, <1>4 DEF TypeOK
  <1>6. OnePlace'
    BY <1>1, <1>3 DEF OnePlace
  <1>7. Bounded'
    BY <1>1, <1>4, Numbers DEF Bounded, NumAttached
  <1> QED BY <1>5, <1>6, <1>7

\* Attaching and dequeuing in one call is an attach followed by a dequeue.
LEMMA AttachDequeueIInv ==
    ASSUME IInv, NEW s \in Surface, AttachDequeue(s) PROVE IInv'
  <1> USE DEF IInv, AttachDequeue
  <1> DEFINE f == Append(free, s)
  <1>1. /\ f \in Seq(Surface)
        /\ f # << >>
        /\ Len(f) = Len(free) + 1
        /\ Elems(f) = Elems(free) \cup {s}
        /\ NoRepeats(f)
    BY AppendFacts, AppendProperties DEF TypeOK, OnePlace, Attached
  <1>2. Elems(f) \cap out = {} /\ Elems(f) \cap Elems(dirty) = {}
    BY <1>1 DEF OnePlace, Attached
  <1>3. free' = Tail(f) /\ out' = out \cup {Head(f)}
    OBVIOUS
  <1> HIDE DEF f
  <1>4. /\ Head(f) \in Elems(f)
        /\ free' \in Seq(Surface)
        /\ Len(free') = Len(f) - 1
        /\ Elems(free') = Elems(f) \ {Head(f)}
        /\ NoRepeats(free')
    BY <1>1, <1>3, TailFacts
  <1>5. Head(f) \in Surface /\ Head(f) \notin out /\ Head(f) \notin Elems(dirty)
    BY <1>1, <1>2, <1>4, HeadTailProperties
  <1>6. IsFiniteSet(out') /\ Cardinality(out') = Cardinality(out) + 1
    BY <1>3, <1>5, FS_AddElement DEF TypeOK
  <1>7. TypeOK'
    BY <1>3, <1>4, <1>5, <1>6 DEF TypeOK
  <1>8. OnePlace'
    BY <1>2, <1>3, <1>4, <1>5 DEF OnePlace
  <1>9. Bounded'
    <2>0. Len(free) \in Nat /\ Len(dirty) \in Nat /\ Cardinality(out) \in Nat
          /\ limit \in Nat
      BY Numbers
    <2>2. dirty' = dirty /\ limit' = limit
          /\ Len(free) + Len(dirty) + Cardinality(out) < limit
      BY DEF NumAttached
    <2> HIDE DEF AttachDequeue, IInv
    <2>1. Len(free') = Len(free) /\ Cardinality(out') = Cardinality(out) + 1
      BY <1>1, <1>4, <1>6, <2>0
    <2> QED BY <2>0, <2>1, <2>2 DEF Bounded, NumAttached
  <1> QED BY <1>7, <1>8, <1>9

\* A release or a cancelled dequeue that gives the surface back to free_queue
\* keeps the invariant.
LEMMA ReleaseIInv ==
    ASSUME IInv, NEW s \in Surface, Release(s) PROVE IInv'
  <1> USE DEF IInv, Release
  <1>1. /\ free' \in Seq(Surface)
        /\ Len(free') = Len(free) + 1
        /\ Elems(free') = Elems(free) \cup {s}
        /\ NoRepeats(free')
    BY AppendFacts DEF TypeOK, OnePlace
  <1>2. IsFiniteSet(out') /\ Cardinality(out') = Cardinality(out) - 1
    BY FS_RemoveElement DEF TypeOK
  <1>3. TypeOK'
    BY <1>1, <1>2 DEF TypeOK
  <1>4. OnePlace'
    BY <1>1 DEF OnePlace
  <1>5. Bounded'
    BY <1>1, <1>2, Numbers DEF Bounded, NumAttached
  <1> QED BY <1>3, <1>4, <1>5

\* An enqueue, which may make several surfaces of a sequence queue dirty at
\* once, keeps the invariant.
LEMMA EnqueueIInv ==
    ASSUME IInv, NEW batch \in Batches, Enqueue(batch) PROVE IInv'
  <1> USE DEF IInv, Enqueue
  <1>0. Cardinality(out) \in Nat
    BY Numbers
  <1>1. PICK n \in 1..Cardinality(out) : batch \in [1..n -> out]
    BY DEF Batches
  <1>2. n \in Nat /\ batch \in Seq(out) /\ Len(batch) = n
    <2>1. n \in Nat
      BY <1>0
    <2> QED BY <1>1, <2>1, SeqDef
  <1>3. batch \in Seq(Surface)
    BY <1>2, SeqMonotonic DEF TypeOK
  <1>4. Elems(batch) \subseteq out
    BY <1>1, <1>2 DEF Elems
  <1>5. IsFiniteSet(Elems(batch)) /\ Cardinality(Elems(batch)) = n
    BY <1>1, <1>2, CountFacts
  <1>6. IsFiniteSet(out') /\ Cardinality(out') = Cardinality(out) - n
    <2>1. IsFiniteSet(out \ Elems(batch))
      BY FS_Difference DEF TypeOK
    <2>2. out \cap Elems(batch) = Elems(batch)
      BY <1>4
    <2>3. Cardinality(out \ Elems(batch))
            = Cardinality(out) - Cardinality(out \cap Elems(batch))
      BY FS_Difference DEF TypeOK
    <2> QED BY <1>5, <2>1, <2>2, <2>3
  <1>7. /\ dirty' \in Seq(Surface)
        /\ Len(dirty') = Len(dirty) + n
        /\ Elems(dirty') = Elems(dirty) \cup Elems(batch)
        /\ NoRepeats(dirty')
    <2>1. Elems(dirty) \cap Elems(batch) = {}
      BY <1>4 DEF OnePlace
    <2>2. dirty \in Seq(Surface) /\ NoRepeats(dirty) /\ NoRepeats(batch)
      BY DEF TypeOK, OnePlace
    <2>3. dirty' = dirty \o batch
      OBVIOUS
    <2> HIDE DEF IInv, Enqueue
    <2>4. /\ dirty \o batch \in Seq(Surface)
          /\ Len(dirty \o batch) = Len(dirty) + Len(batch)
          /\ Elems(dirty \o batch) = Elems(dirty) \cup Elems(batch)
          /\ NoRepeats(dirty \o batch)
      BY <1>3, <2>1, <2>2, ConcatFacts
    <2> QED BY <1>2, <2>3, <2>4
  <1>8. TypeOK'
    BY <1>6, <1>7 DEF TypeOK
  <1>9. OnePlace'
    BY <1>4, <1>7 DEF OnePlace
  <1>10. Bounded'
    BY <1>2, <1>6, <1>7, Numbers DEF Bounded, NumAttached
  <1> QED BY <1>8, <1>9, <1>10

\* set_size with the free surfaces it drops keeps the invariant.
LEMMA ResizeIInv ==
    ASSUME IInv, NEW n \in 0..Len(free), Resize(n)
    PROVE  IInv'
  <1> USE DEF IInv, Resize
  <1>1. /\ free' \in Seq(Surface)
        /\ Len(free') = Len(free) - n
        /\ Elems(free') \subseteq Elems(free)
        /\ NoRepeats(free')
    BY DropFacts DEF TypeOK, OnePlace
  <1>2. TypeOK'
    BY <1>1 DEF TypeOK
  <1>3. OnePlace'
    BY <1>1 DEF OnePlace
  <1>4. Bounded'
    BY <1>1, Numbers DEF Bounded, NumAttached
  <1> QED BY <1>2, <1>3, <1>4

\* A flush or reset keeps the invariant.
LEMMA ClearIInv ==
    ASSUME Clear PROVE IInv'
  <1> USE DEF Clear
  <1>1. Elems(<< >>) = {} /\ NoRepeats(<< >>)
    BY DEF Elems, NoRepeats
  <1>2. Len(<< >>) = 0 /\ << >> \in Seq(Surface)
    BY EmptySeq
  <1>3. IsFiniteSet({}) /\ Cardinality({}) = 0
    BY FS_EmptySet
  <1> QED
    BY <1>1, <1>2, <1>3
    DEF IInv, TypeOK, OnePlace, Bounded, NumAttached

\* Every step of the abstract queue keeps the invariant.
LEMMA StepIInv == IInv /\ [Next]_vars => IInv'
  <1> SUFFICES ASSUME IInv, [Next]_vars PROVE IInv'
    OBVIOUS
  <1>1. ASSUME NEW s \in Surface, Attach(s) PROVE IInv'
    BY <1>1, AttachIInv
  <1>2. ASSUME NEW s \in Surface, AttachDequeue(s) PROVE IInv'
    BY <1>2, AttachDequeueIInv
  <1>3. ASSUME NEW s \in Surface, Release(s) PROVE IInv'
    BY <1>3, ReleaseIInv
  <1>4. CASE Dequeue
    BY <1>4, DequeueIInv
  <1>5. CASE Acquire
    BY <1>5, AcquireIInv
  <1>6. ASSUME NEW batch \in Batches, Enqueue(batch) PROVE IInv'
    BY <1>6, EnqueueIInv
  <1>7. ASSUME NEW n \in 0..Len(free), Resize(n) PROVE IInv'
    BY <1>7, ResizeIInv
  <1>8. CASE Clear
    BY <1>8, ClearIInv
  <1>9. CASE UNCHANGED vars
    <2>1. free' = free /\ dirty' = dirty /\ out' = out /\ limit' = limit
      BY <1>9 DEF vars
    <2>2. TypeOK'
      BY <2>1, Zenon DEF IInv, TypeOK
    <2>3. OnePlace'
      BY <2>1 DEF IInv, OnePlace
    <2>4. Bounded'
      BY <2>1, Zenon DEF IInv, Bounded, NumAttached
    <2> QED
      BY <2>2, <2>3, <2>4 DEF IInv
  <1> QED
    BY <1>1, <1>2, <1>3, <1>4, <1>5, <1>6, <1>7, <1>8, <1>9 DEF Next

\* The invariant holds in every reachable state of the abstract queue.
LEMMA Invariance == Spec => []IInv
  BY InitIInv, StepIInv, PTL DEF Spec

(***************************************************************************)
(* The theorems.                                                           *)
(***************************************************************************)

\* Whatever the clients of a queue do, a surface never waits twice, waits in
\* both lines, or waits while a client holds it: no dequeue or acquire hands
\* out a surface that somebody else is using.
THEOREM OnePlaceTheorem == Spec => []OnePlace
  BY Invariance, PTL DEF IInv

\* A queue never has more surfaces attached than its size, whatever sequence
\* of attach, release, resize and flush led there.
THEOREM BoundedTheorem == Spec => []Bounded
  BY Invariance, PTL DEF IInv
=============================================================================
