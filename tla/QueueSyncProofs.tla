--------------------------- MODULE QueueSyncProofs ---------------------------
(***************************************************************************)
(* Safety of QueueSync for any number of threads, any queue sizes and any  *)
(* number of calls, with the queue destroyed at any moment.                *)
(*                                                                         *)
(* None of the properties is inductive alone: who is between lock and      *)
(* unlock rests on LockOwnership, the counts on nobody else being there,   *)
(* the bound on the surfaces under way in the alloc_cb window, and the     *)
(* places of a stale access on what G keeps from being destroyed.          *)
(***************************************************************************)
EXTENDS QueueSync, FiniteSetTheorems, TLAPS

DequeueOps == {"dequeue", "can_dequeue"}

\* Only producers dequeue.
OpsOK == \A t \in Threads : op[t] \in DequeueOps => t \in Producers

\* Only they are in the alloc_cb window.
WindowOK ==
    \A t \in Threads : pc[t] \in Window => AllocCb /\ op[t] \in DequeueOps

\* There is room for what is attached and for what is on its way.
Booked == overbooked \/ attached + Cardinality(InWindow) <= size

\* Between its look-up and the unlock of G a thread knows the queue is there.
LookedUp == \A t \in Threads : pc[t] \in {"lockL", "body", "signal"} => valid

IInv ==
    /\ TypeOK
    /\ LockOwnership
    /\ Conservation
    /\ OpsOK
    /\ WindowOK
    /\ LookedUp
    /\ StaleOnlyUnlocked

\* The invariant holds before the first call.
LEMMA InitIInv == Init => IInv /\ Booked
<1> SUFFICES ASSUME Init PROVE IInv /\ Booked
  OBVIOUS
<1>1. TypeOK
  BY QueueSyncAssumption DEF Init, TypeOK, Labels, OpNames
<1>2. LockOwnership
  BY QueueSyncAssumption DEF Init, LockOwnership, HoldsG, HoldsL
<1>3. Conservation /\ StaleOnlyUnlocked
  BY QueueSyncAssumption DEF Init, Conservation, StaleOnlyUnlocked
<1>4. OpsOK /\ WindowOK /\ LookedUp
  BY DEF Init, OpsOK, WindowOK, LookedUp, DequeueOps, Window
<1>5. Booked
  <2>1. InWindow = {}
    BY DEF Init, InWindow, Window
  <2>2. Cardinality(InWindow) = 0
    BY <2>1, FS_EmptySet
  <2> QED
    BY <2>2, QueueSyncAssumption DEF Init, Booked
<1> QED
  BY <1>1, <1>2, <1>3, <1>4, <1>5 DEF IInv

\* A client that makes a call is outside the queue, and does not enter it.
LEMMA CallIInv ==
    ASSUME IInv, NEW t \in Threads, NEW f \in Ops(t), Call(t, f)
    PROVE  IInv'
BY QueueSyncAssumption
   DEF Call, Goto, Ops, data, IInv, TypeOK, LockOwnership, Conservation,
       OpsOK, WindowOK, LookedUp, StaleOnlyUnlocked, Labels, HoldsG, HoldsL,
       OpNames, DequeueOps, Window

\* Calls come in, pass through their stretches without a lock and return.
LEMMA PassIInv ==
    ASSUME IInv, NEW t \in Threads,
           Precheck(t) \/ Notify(t) \/ Emit(t) \/ AllocCbReturns(t)
    PROVE  IInv'
<1> USE QueueSyncAssumption
    DEF Goto, data, IInv, TypeOK, LockOwnership, Conservation, OpsOK,
        WindowOK, LookedUp, StaleOnlyUnlocked, Labels, HoldsG, HoldsL,
        OpNames, DequeueOps, Window, Deref
<1>1. CASE Precheck(t)
  BY <1>1 DEF Precheck
<1>2. CASE Notify(t)
  BY <1>2 DEF Notify
<1>3. CASE Emit(t)
  BY <1>3 DEF Emit
<1>4. CASE AllocCbReturns(t)
  BY <1>4 DEF AllocCbReturns
<1> QED
  BY <1>1, <1>2, <1>3, <1>4

\* Taking and dropping the mutexes, on the way in, around alloc_cb and on
\* the way out.
LEMMA LockIInv ==
    ASSUME IInv, NEW t \in Threads,
           \/ LockG(t) \/ LockL(t) \/ ReturnEarly(t) \/ CallAllocCb(t)
           \/ RelockG(t) \/ RelockL(t) \/ UnlockG(t)
    PROVE  IInv'
<1> USE QueueSyncAssumption
    DEF Goto, data, IInv, TypeOK, LockOwnership, Conservation, OpsOK,
        WindowOK, LookedUp, StaleOnlyUnlocked, Labels, HoldsG, HoldsL,
        OpNames, DequeueOps, Window, Deref
<1>1. CASE LockG(t)
  BY <1>1 DEF LockG
<1>2. CASE LockL(t)
  BY <1>2 DEF LockL
<1>3. CASE ReturnEarly(t)
  BY <1>3 DEF ReturnEarly
<1>4. CASE CallAllocCb(t)
  BY <1>4 DEF CallAllocCb, NeedsAttach
<1>5. CASE RelockG(t)
  BY <1>5 DEF RelockG
<1>6. CASE RelockL(t)
  BY <1>6 DEF RelockL
<1>7. CASE UnlockG(t)
  BY <1>7 DEF UnlockG
<1> QED
  BY <1>1, <1>2, <1>3, <1>4, <1>5, <1>6, <1>7

\* Sleeping, being woken, and the return from the wait.
LEMMA WaitIInv ==
    ASSUME IInv, NEW t \in Threads,
           \/ Signal(t) \/ CondWait(t)
           \/ CondWaitReturns(t) \/ RegainG(t) \/ Woken(t)
    PROVE  IInv'
<1> USE QueueSyncAssumption
    DEF Goto, data, IInv, TypeOK, LockOwnership, Conservation, OpsOK,
        WindowOK, LookedUp, StaleOnlyUnlocked, Labels, HoldsG, HoldsL,
        OpNames, DequeueOps, Window, Deref
<1>1. CASE Signal(t)
  BY <1>1 DEF Signal, Sleepers, SleepsOn, Signals
<1>2. CASE CondWait(t)
  BY <1>2 DEF CondWait
<1>3. CASE CondWaitReturns(t)
  BY <1>3 DEF CondWaitReturns
<1>4. CASE RegainG(t)
  BY <1>4 DEF RegainG
<1>5. CASE Woken(t)
  BY <1>5 DEF Woken
<1> QED
  BY <1>1, <1>2, <1>3, <1>4, <1>5

\* What dequeue, enqueue, acquire and release do to the counts with both
\* locks held.
LEMMA BodyIInv ==
    ASSUME IInv, NEW t \in Threads,
           \/ DequeueBody(t) \/ AttachBody(t) \/ CanDequeueInvalid(t)
           \/ EnqueueBody(t) \/ AcquireBody(t) \/ CanAcquireBody(t)
           \/ ReleaseBody(t)
    PROVE  IInv'
<1> USE QueueSyncAssumption
    DEF Goto, data, IInv, TypeOK, LockOwnership, Conservation, OpsOK,
        WindowOK, LookedUp, StaleOnlyUnlocked, Labels, HoldsG, HoldsL,
        OpNames, DequeueOps, Window
<1>1. CASE DequeueBody(t)
  <2>1. TypeOK'
    <3>1. answer' \in [Threads -> BOOLEAN]
      <4>1. \/ answer' = answer
            \/ answer' = [answer EXCEPT ![t] = nfree > 0]
            \/ answer' = [answer EXCEPT ![t] = nfree + 1 > 0]
        BY <1>1 DEF DequeueBody, Tail, DequeueTail, CanDequeueTail, NeedsAttach
      <4>2. CASE answer' = [answer EXCEPT ![t] = nfree > 0]
        BY <4>2
      <4>3. CASE answer' = [answer EXCEPT ![t] = nfree + 1 > 0]
        BY <4>3
      <4> QED
        BY <4>1, <4>2, <4>3
    <3>2. overbooked' \in BOOLEAN /\ valid' \in BOOLEAN
      BY <1>1, Zenon DEF DequeueBody, Tail, DequeueTail, CanDequeueTail, NeedsAttach
    <3>3. pc' \in [Threads -> Labels] /\ op' \in [Threads -> OpNames]
      BY <1>1 DEF DequeueBody, Tail, DequeueTail, CanDequeueTail, NeedsAttach, Done
    <3> QED
      BY <1>1, <3>1, <3>2, <3>3 DEF DequeueBody, Tail, DequeueTail, CanDequeueTail, NeedsAttach, Done
  <2>2. LockOwnership'
    BY <1>1 DEF DequeueBody, Tail, DequeueTail, CanDequeueTail, NeedsAttach, Done
  <2>3. Conservation'
    BY <1>1 DEF DequeueBody, Tail, DequeueTail, CanDequeueTail, NeedsAttach
  <2>4. OpsOK' /\ WindowOK' /\ LookedUp' /\ StaleOnlyUnlocked'
    BY <1>1 DEF DequeueBody, Tail, DequeueTail, CanDequeueTail, NeedsAttach, Done
  <2> QED
    BY <2>1, <2>2, <2>3, <2>4
<1>2. CASE AttachBody(t)
  <2>1. TypeOK'
    <3>1. answer' \in [Threads -> BOOLEAN]
      <4>1. \/ answer' = answer
            \/ answer' = [answer EXCEPT ![t] = nfree > 0]
            \/ answer' = [answer EXCEPT ![t] = nfree + 1 > 0]
        BY <1>2 DEF AttachBody, Tail, DequeueTail, CanDequeueTail
      <4>2. CASE answer' = [answer EXCEPT ![t] = nfree > 0]
        BY <4>2
      <4>3. CASE answer' = [answer EXCEPT ![t] = nfree + 1 > 0]
        BY <4>3
      <4> QED
        BY <4>1, <4>2, <4>3
    <3>2. overbooked' \in BOOLEAN /\ valid' \in BOOLEAN
      BY <1>2, Zenon DEF AttachBody, Tail, DequeueTail, CanDequeueTail
    <3>3. pc' \in [Threads -> Labels] /\ op' \in [Threads -> OpNames]
      BY <1>2 DEF AttachBody, Tail, DequeueTail, CanDequeueTail, Done
    <3> QED
      BY <1>2, <3>1, <3>2, <3>3 DEF AttachBody, Tail, DequeueTail, CanDequeueTail, Done
  <2>2. LockOwnership'
    BY <1>2 DEF AttachBody, Tail, DequeueTail, CanDequeueTail, Done
  <2>3. Conservation'
    BY <1>2 DEF AttachBody, Tail, DequeueTail, CanDequeueTail
  <2>4. OpsOK' /\ WindowOK' /\ LookedUp' /\ StaleOnlyUnlocked'
    BY <1>2 DEF AttachBody, Tail, DequeueTail, CanDequeueTail, Done
  <2> QED
    BY <2>1, <2>2, <2>3, <2>4
<1>3. CASE CanDequeueInvalid(t)
  BY <1>3 DEF CanDequeueInvalid
<1>4. CASE EnqueueBody(t)
  BY <1>4 DEF EnqueueBody, Done
<1>5. CASE AcquireBody(t)
  <2>1. CASE ndirty = 0
    BY <1>5, <2>1 DEF AcquireBody, Done
  <2>2. CASE ndirty # 0
    <3>1. /\ ndirty' = ndirty - 1 /\ nacq' = nacq + 1
          /\ nfree' = nfree /\ ndeq' = ndeq /\ attached' = attached
      BY <1>5, <2>2 DEF AcquireBody
    <3>2. TypeOK' /\ LockOwnership'
      BY <1>5, <2>2, <3>1 DEF AcquireBody, Done
    <3>3. Conservation'
      BY <3>1
    <3>4. OpsOK' /\ WindowOK' /\ LookedUp' /\ StaleOnlyUnlocked'
      BY <1>5, <2>2 DEF AcquireBody, Done
    <3> QED
      BY <3>2, <3>3, <3>4
  <2> QED
    BY <2>1, <2>2
<1>6. CASE CanAcquireBody(t)
  <2>1. TypeOK'
    <3>1. answer' \in [Threads -> BOOLEAN]
      <4>1. \/ answer' = answer
            \/ answer' = [answer EXCEPT ![t] = ndirty > 0]
        BY <1>6 DEF CanAcquireBody
      <4>2. CASE answer' = [answer EXCEPT ![t] = ndirty > 0]
        BY <4>2
      <4> QED
        BY <4>1, <4>2
    <3>2. overbooked' \in BOOLEAN /\ valid' \in BOOLEAN
      BY <1>6, Zenon DEF CanAcquireBody
    <3>3. pc' \in [Threads -> Labels] /\ op' \in [Threads -> OpNames]
      BY <1>6 DEF CanAcquireBody, Done
    <3> QED
      BY <1>6, <3>1, <3>2, <3>3 DEF CanAcquireBody, Done
  <2>2. LockOwnership'
    BY <1>6 DEF CanAcquireBody, Done
  <2>3. Conservation'
    BY <1>6 DEF CanAcquireBody
  <2>4. OpsOK' /\ WindowOK' /\ LookedUp' /\ StaleOnlyUnlocked'
    BY <1>6 DEF CanAcquireBody, Done
  <2> QED
    BY <2>1, <2>2, <2>3, <2>4
<1>7. CASE ReleaseBody(t)
  BY <1>7 DEF ReleaseBody, Done
<1> QED
  BY <1>1, <1>2, <1>3, <1>4, <1>5, <1>6, <1>7

\* What flush, reset, set_size and destroy do to them.
LEMMA ManageIInv ==
    ASSUME IInv, NEW t \in Threads,
           \/ FlushBody(t) \/ ResetBody(t) \/ SetSizeFlushBody(t)
           \/ SetSizeBody(t) \/ Destroy(t)
    PROVE  IInv'
<1> USE QueueSyncAssumption
    DEF Goto, data, IInv, TypeOK, LockOwnership, Conservation, OpsOK,
        WindowOK, LookedUp, StaleOnlyUnlocked, Labels, HoldsG, HoldsL,
        OpNames, DequeueOps, Window, Emptied
<1>1. CASE FlushBody(t)
  BY <1>1 DEF FlushBody, Done
<1>2. CASE ResetBody(t)
  BY <1>2 DEF ResetBody, Done
<1>3. CASE SetSizeFlushBody(t)
  BY <1>3 DEF SetSizeFlushBody, Done
<1>4. CASE SetSizeBody(t)
  <2>1. PICK n \in Sizes \ {size}, d \in Nat :
            /\ d <= nfree
            /\ size' = n /\ nfree' = nfree - d /\ attached' = attached - d
            /\ overbooked' =
                  (overbooked \/ attached - d + Cardinality(InWindow) > n)
    BY <1>4 DEF SetSizeBody
  <2>2. /\ nfree' \in Nat /\ attached' \in Nat /\ size' \in Nat \ {0}
        /\ overbooked' \in BOOLEAN
        /\ nfree' + ndirty + ndeq + nacq = attached'
    BY <2>1
  <2>3. TypeOK' /\ LockOwnership' /\ Conservation'
    BY <1>4, <2>2 DEF SetSizeBody, Done
  <2>4. OpsOK' /\ WindowOK' /\ LookedUp' /\ StaleOnlyUnlocked'
    BY <1>4 DEF SetSizeBody, Done
  <2> QED
    BY <2>3, <2>4
<1>5. CASE Destroy(t)
  <2>1. TypeOK'
    <3>1. stale' = stale /\ valid' = FALSE
      BY <1>5 DEF Destroy, Deref
    <3>2. overbooked' \in BOOLEAN
      BY <1>5 DEF Destroy
    <3>3. pc' \in [Threads -> Labels]
      BY <1>5 DEF Destroy
    <3> QED
      BY <1>5, <3>1, <3>2, <3>3 DEF Destroy
  <2>2. LockOwnership'
    BY <1>5 DEF Destroy
  <2>3. Conservation' /\ StaleOnlyUnlocked'
    BY <1>5 DEF Destroy, Deref
  <2>4. OpsOK' /\ WindowOK' /\ LookedUp'
    BY <1>5 DEF Destroy
  <2> QED
    BY <2>1, <2>2, <2>3, <2>4
<1> QED
  BY <1>1, <1>2, <1>3, <1>4, <1>5

\* Every step preserves the invariant.
LEMMA NextIInv == IInv /\ [Next]_vars => IInv'
<1> SUFFICES ASSUME IInv, [Next]_vars PROVE IInv'
  OBVIOUS
<1>1. ASSUME NEW t \in Threads, Step(t) PROVE IInv'
  BY <1>1, PassIInv, LockIInv, WaitIInv, BodyIInv, ManageIInv DEF Step
<1>2. ASSUME NEW t \in Threads, NEW f \in Ops(t), Call(t, f) PROVE IInv'
  BY <1>2, CallIInv
<1>3. CASE UNCHANGED vars
  BY <1>3
     DEF vars, data, IInv, TypeOK, LockOwnership, Conservation, OpsOK,
         WindowOK, LookedUp, StaleOnlyUnlocked
<1> QED
  BY <1>1, <1>2, <1>3 DEF Next, Rest

\* The threads in the window can be counted.
LEMMA WindowFinite ==
    IsFiniteSet(InWindow) /\ Cardinality(InWindow) \in Nat
<1>1. IsFiniteSet(InWindow)
  BY QueueSyncAssumption, FS_Subset DEF InWindow
<1> QED
  BY <1>1, FS_CardinalityType

\* A step that neither enters nor leaves the window, attaches nothing and
\* keeps the size keeps the booking.
LEMMA BookedKept ==
    ASSUME IInv, Booked, InWindow' = InWindow,
           attached' \in Nat, attached' <= attached,
           size' = size, overbooked' = overbooked
    PROVE  Booked'
BY WindowFinite DEF IInv, TypeOK, Booked

\* The booking holds through every step: a thread enters the window where
\* there is room or the queue is marked as overbooked, and it attaches at
\* most one surface when it leaves.
LEMMA StepBooked ==
    ASSUME IInv, Booked, NEW t \in Threads, Step(t)
    PROVE  Booked'
<1> USE DEF IInv, TypeOK, Goto, data, Window, InWindow
<1>1. CASE \/ Precheck(t) \/ Notify(t) \/ LockG(t) \/ LockL(t)
           \/ ReturnEarly(t) \/ AllocCbReturns(t) \/ RelockG(t)
           \/ RelockL(t)
  <2>1. InWindow' = InWindow
    BY <1>1
       DEF Precheck, Notify, LockG, LockL, ReturnEarly, AllocCbReturns,
           RelockG, RelockL
  <2>2. UNCHANGED data
    BY <1>1
       DEF Precheck, Notify, LockG, LockL, ReturnEarly, AllocCbReturns,
           RelockG, RelockL
  <2> QED
    BY <2>1, <2>2, BookedKept
<1>2. CASE \/ Signal(t) \/ UnlockG(t) \/ Emit(t) \/ CondWait(t)
           \/ CondWaitReturns(t) \/ RegainG(t) \/ Woken(t)
  <2>1. InWindow' = InWindow
    BY <1>2
       DEF Signal, Sleepers, UnlockG, Emit, CondWait, CondWaitReturns,
           RegainG, Woken
  <2>2. UNCHANGED data
    BY <1>2
       DEF Signal, UnlockG, Emit, CondWait, CondWaitReturns, RegainG, Woken
  <2> QED
    BY <2>1, <2>2, BookedKept
<1>3. CASE \/ EnqueueBody(t) \/ AcquireBody(t) \/ CanAcquireBody(t)
           \/ ReleaseBody(t)
  <2>1. InWindow' = InWindow
    BY <1>3
       DEF EnqueueBody, AcquireBody, CanAcquireBody, ReleaseBody, Done
  <2>2. /\ attached' \in Nat /\ attached' <= attached
        /\ size' = size /\ overbooked' = overbooked
    BY <1>3, NextIInv
       DEF Next, Step, EnqueueBody, AcquireBody, CanAcquireBody, ReleaseBody,
           Conservation
  <2> QED
    BY <2>1, <2>2, BookedKept
<1>4. CASE FlushBody(t) \/ ResetBody(t) \/ SetSizeFlushBody(t) \/ Destroy(t)
  <2>1. InWindow' = InWindow
    BY <1>4 DEF FlushBody, ResetBody, SetSizeFlushBody, Destroy, Done
  <2>2. /\ attached' = 0 /\ size' \in Nat
        /\ overbooked' = (Cardinality(InWindow) > size')
    BY <1>4, QueueSyncAssumption
       DEF FlushBody, ResetBody, SetSizeFlushBody, Destroy, Emptied
  <2> HIDE DEF InWindow
  <2>3. CASE overbooked'
    BY <2>3 DEF Booked
  <2>4. CASE ~overbooked'
    <3>1. ~(Cardinality(InWindow) > size')
      BY <2>2, <2>4
    <3>2. attached' + Cardinality(InWindow) <= size'
      BY <2>2, <3>1, WindowFinite
    <3> QED
      BY <2>1, <3>2 DEF Booked
  <2> QED
    BY <2>3, <2>4
<1>5. CASE SetSizeBody(t)
  <2>1. InWindow' = InWindow
    BY <1>5 DEF SetSizeBody, Done
  <2>2. /\ attached' \in Int /\ size' \in Nat
        /\ overbooked' =
              (overbooked \/ attached' + Cardinality(InWindow) > size')
    BY <1>5, QueueSyncAssumption DEF SetSizeBody
  <2> HIDE DEF InWindow
  <2>3. CASE overbooked'
    BY <2>3 DEF Booked
  <2>4. CASE ~overbooked'
    <3>1. ~(attached' + Cardinality(InWindow) > size')
      BY <2>2, <2>4
    <3>2. attached' + Cardinality(InWindow) <= size'
      BY <2>2, <3>1, WindowFinite
    <3> QED
      BY <2>1, <3>2 DEF Booked
  <2> QED
    BY <2>3, <2>4
<1>6. CASE DequeueBody(t)
  <2>1. InWindow' = InWindow
    BY <1>6
       DEF DequeueBody, Tail, DequeueTail, CanDequeueTail, Done
  <2>2. size' = size /\ overbooked' = overbooked
    BY <1>6 DEF DequeueBody, Tail, DequeueTail, CanDequeueTail
  <2>3. CASE attached' = attached
    BY <2>1, <2>2, <2>3, BookedKept
  <2>4. CASE attached' # attached
    <3>1. ~AllocCb /\ attached # size /\ attached' = attached + 1
      BY <1>6, <2>4
         DEF DequeueBody, Tail, DequeueTail, CanDequeueTail, NeedsAttach
    <3>2. InWindow = {}
      BY <3>1 DEF WindowOK
    <3>3. Cardinality(InWindow) = 0
      BY <3>2, FS_EmptySet
    <3> HIDE DEF InWindow
    <3> QED
      BY <2>1, <2>2, <3>1, <3>3 DEF Booked
  <2> QED
    BY <2>3, <2>4
<1>7. CASE CallAllocCb(t)
  <2>1. t \notin InWindow /\ InWindow' = InWindow \cup {t}
    BY <1>7 DEF CallAllocCb
  <2>2. /\ attached' = attached /\ size' = size
        /\ overbooked' =
              (\/ overbooked
               \/ InWindow # {} /\ attached + Cardinality(InWindow) >= size)
        /\ attached # size
    BY <1>7 DEF CallAllocCb, NeedsAttach
  <2> HIDE DEF InWindow
  <2>3. Cardinality(InWindow') = Cardinality(InWindow) + 1
    BY <2>1, WindowFinite, FS_AddElement
  <2>4. CASE overbooked'
    BY <2>4 DEF Booked
  <2>5. CASE ~overbooked'
    <3>1. ~(attached + Cardinality(InWindow) >= size)
      <4>1. CASE InWindow # {}
        BY <2>2, <2>5, <4>1
      <4>2. CASE InWindow = {}
        <5>1. Cardinality(InWindow) = 0
          BY <4>2, FS_EmptySet
        <5>2. attached + Cardinality(InWindow) <= size
          BY <2>2, <2>5 DEF Booked
        <5> QED
          BY <2>2, <5>1, <5>2
      <4> QED
        BY <4>1, <4>2
    <3>2. attached' + Cardinality(InWindow') <= size'
      BY <2>2, <2>3, <3>1, WindowFinite
    <3> QED
      BY <3>2 DEF Booked
  <2> QED
    BY <2>4, <2>5
<1>8. CASE AttachBody(t) \/ CanDequeueInvalid(t)
  <2>1. t \in InWindow /\ InWindow' = InWindow \ {t}
    BY <1>8
       DEF AttachBody, CanDequeueInvalid, Tail, DequeueTail, CanDequeueTail,
           Done
  <2>2. /\ attached' \in {attached, attached + 1}
        /\ size' = size /\ overbooked' = overbooked
    BY <1>8
       DEF AttachBody, CanDequeueInvalid, Tail, DequeueTail, CanDequeueTail
  <2> HIDE DEF InWindow
  <2>3. Cardinality(InWindow') = Cardinality(InWindow) - 1
    BY <2>1, WindowFinite, FS_RemoveElement
  <2> QED
    BY <2>2, <2>3, WindowFinite DEF Booked
<1> QED
  BY <1>1, <1>2, <1>3, <1>4, <1>5, <1>6, <1>7, <1>8 DEF Step

\* Every step keeps the booking.
LEMMA NextBooked == IInv /\ Booked /\ [Next]_vars => Booked'
<1> SUFFICES ASSUME IInv, Booked, [Next]_vars PROVE Booked'
  OBVIOUS
<1>1. ASSUME NEW t \in Threads, Step(t) PROVE Booked'
  BY <1>1, StepBooked
<1>2. ASSUME NEW t \in Threads, NEW f \in Ops(t), Call(t, f) PROVE Booked'
  <2>1. InWindow' = InWindow /\ UNCHANGED data
    BY <1>2 DEF Call, Goto, InWindow, Window, IInv, TypeOK
  <2> QED
    BY <2>1, BookedKept DEF data, IInv, TypeOK
<1>3. CASE UNCHANGED vars
  <2>1. InWindow' = InWindow /\ UNCHANGED data
    BY <1>3 DEF vars, InWindow
  <2> QED
    BY <2>1, BookedKept DEF data, IInv, TypeOK
<1> QED
  BY <1>1, <1>2, <1>3 DEF Next, Rest

\* The invariant holds throughout every behaviour.
LEMMA Invariance == Spec => [](IInv /\ Booked)
BY InitIInv, NextIInv, NextBooked, PTL DEF Spec

\* Every count stays a natural number and every thread at a known place.
THEOREM TypeTheorem == Spec => []TypeOK
<1>1. IInv => TypeOK
  BY DEF IInv
<1> QED
  BY <1>1, Invariance, PTL

\* No two threads are between the lock and unlock calls of the queue at
\* once, and no path but can_dequeue's on a destroyed queue leaves a mutex
\* locked.
THEOREM LockOwnershipTheorem == Spec => []LockOwnership
<1>1. IInv => LockOwnership
  BY DEF IInv
<1> QED
  BY <1>1, Invariance, PTL

\* num_attached always counts the nodes, across every alloc_cb window and
\* whatever size the queue is given in it.
THEOREM ConservationTheorem == Spec => []Conservation
<1>1. IInv => Conservation
  BY DEF IInv
<1> QED
  BY <1>1, Invariance, PTL

\* At most queue_size surfaces are attached, unless more were asked of
\* alloc_cb than there was room for or the size was lowered under them.
THEOREM AttachBoundTheorem == Spec => []AttachBound
<1>1. IInv /\ Booked => AttachBound
  BY WindowFinite DEF IInv, TypeOK, Booked, AttachBound
<1> QED
  BY <1>1, Invariance, PTL

\* Whenever destroy comes, only the stretches without the global lock, and
\* what follows alloc_cb and a wait, use the destroyed queue.
THEOREM StaleOnlyUnlockedTheorem == Spec => []StaleOnlyUnlocked
<1>1. IInv => StaleOnlyUnlocked
  BY DEF IInv
<1> QED
  BY <1>1, Invariance, PTL
-----------------------------------------------------------------------------
(* The waits of can_dequeue and can_acquire between one producer and one   *)
(* consumer: no wakeup is lost, and an answer of 1 can be relied upon.     *)

\* One thread on either side of the queue, and nobody to flush it.
Handoff ==
    /\ \A t, u \in Producers : t = u
    /\ \A t, u \in Consumers : t = u
    /\ Managers = {}
    /\ ~Spurious

\* The surface a thread that called can_dequeue or can_acquire looks for.
Ready(t) == IF op[t] = "can_dequeue" THEN nfree > 0 ELSE ndirty > 0

\* Who may be in which function.
Roles ==
    \A t \in Threads :
        /\ op[t] \in {"acquire", "can_acquire"} => t \in Consumers
        /\ op[t] \notin {"flush", "reset", "set_size", "set_size_flush",
                         "destroy"}

\* So the queue keeps its size, and the lone producer never finds another
\* one in the window.
Undisturbed == valid /\ ~overbooked

\* Only the two can_ functions wait.
Places ==
    \A t \in Threads :
        pc[t] \in {"presleep", "sleep", "relock", "regainG", "woken"} =>
            op[t] \in {"can_dequeue", "can_acquire"}

\* What made a thread decide to wait is true until it sleeps, and no signal
\* from before is under way: the thread has held L since it held both locks.
Sleepy ==
    \A t \in Threads : pc[t] = "presleep" =>
        /\ Owed(t)
        /\ \A u \in Threads : pc[u] # "signal"

\* A thread that sends a signal has made the surface available ...
Coming ==
    \A t, u \in Threads :
        (pc[u] = "signal" /\ pc[t] = "sleep" /\ SleepsOn(t) = Signals(u))
            => Ready(t)

\* ... and it still is when the sleeper wakes up.
Woke ==
    \A t \in Threads : pc[t] \in {"relock", "regainG", "woken"} => Ready(t)

\* An answer is given at the end of a call, and it is true.
Answered ==
    \A t \in Threads : answer[t] =>
        /\ pc[t] \in {"returnG", "idle"}
        /\ op[t] \in {"can_dequeue", "can_acquire"}
        /\ Ready(t)

HInv ==
    /\ Roles
    /\ Undisturbed
    /\ Places
    /\ Sleepy
    /\ NoLostWakeup
    /\ Coming
    /\ Woke
    /\ Answered

\* The handoff invariant holds before the first call.
LEMMA InitHInv == Handoff /\ Init => HInv
BY DEF Handoff, Init, HInv, Roles, Undisturbed, Places, Sleepy, NoLostWakeup, Coming, Woke,
       Answered

\* A call starts with no answer, outside the queue.
LEMMA CallHInv ==
    ASSUME Handoff, IInv, Booked, HInv,
           NEW t \in Threads, NEW f \in Ops(t), Call(t, f)
    PROVE  HInv'
BY DEF Call, Ops, IInv, TypeOK, Goto, data, Handoff, HInv, Roles,
       Undisturbed, Places, Sleepy, NoLostWakeup, Coming, Woke, Answered, Ready, Owed, Signals,
       SleepsOn

\* Steps without a lock, and the taking and dropping of locks, move no
\* surface.
LEMMA PassHInv ==
    ASSUME Handoff, IInv, Booked, HInv, NEW t \in Threads,
           \/ Precheck(t) \/ Notify(t) \/ Emit(t) \/ AllocCbReturns(t)
           \/ LockG(t) \/ LockL(t) \/ ReturnEarly(t) \/ CallAllocCb(t)
           \/ RelockG(t) \/ RelockL(t) \/ UnlockG(t)
    PROVE  HInv'
<1> USE QueueSyncAssumption
    DEF Goto, data, Handoff, IInv, TypeOK, LockOwnership, OpsOK, HoldsG,
        HoldsL, DequeueOps, HInv, Roles, Undisturbed, Places, Sleepy,
        NoLostWakeup, Coming, Woke, Answered, Ready, Owed, Signals, SleepsOn
<1>1. CASE Precheck(t)
  BY <1>1 DEF Precheck
<1>2. CASE Notify(t)
  BY <1>2 DEF Notify
<1>3. CASE Emit(t)
  BY <1>3 DEF Emit
<1>4. CASE AllocCbReturns(t)
  BY <1>4 DEF AllocCbReturns
<1>5. CASE LockG(t)
  BY <1>5 DEF LockG
<1>6. CASE LockL(t)
  BY <1>6 DEF LockL
<1>7. CASE ReturnEarly(t)
  BY <1>7 DEF ReturnEarly
<1>8. CASE CallAllocCb(t)
  <2>1. InWindow = {}
    BY <1>8 DEF CallAllocCb, WindowOK, InWindow, Window
  <2>2. Cardinality(InWindow) = 0
    BY <2>1, FS_EmptySet
  <2>3. attached + Cardinality(InWindow) < size
    BY <1>8, <2>2 DEF CallAllocCb, NeedsAttach, Booked
  <2>4. ~overbooked'
    BY <1>8, <2>2, <2>3 DEF CallAllocCb
  <2> QED
    BY <1>8, <2>4 DEF CallAllocCb
<1>9. CASE RelockG(t)
  BY <1>9 DEF RelockG
<1>10. CASE RelockL(t)
  BY <1>10 DEF RelockL
<1>11. CASE UnlockG(t)
  BY <1>11 DEF UnlockG
<1> QED
  BY <1>1, <1>2, <1>3, <1>4, <1>5, <1>6, <1>7, <1>8, <1>9, <1>10, <1>11

\* The sleeper that a signal finds is the only one on its condition.
LEMMA WaitHInv ==
    ASSUME Handoff, IInv, Booked, HInv, NEW t \in Threads,
           \/ Signal(t) \/ CondWait(t) \/ CondWaitReturns(t)
           \/ RegainG(t) \/ Woken(t)
    PROVE  HInv'
<1> USE QueueSyncAssumption
    DEF Goto, data, Handoff, IInv, TypeOK, LockOwnership, OpsOK, HoldsG,
        HoldsL, DequeueOps, HInv, Roles, Undisturbed, Places, Sleepy,
        NoLostWakeup, Coming, Woke, Answered, Ready, Owed, Signals, SleepsOn
<1>1. CASE Signal(t)
  BY <1>1 DEF Signal, Sleepers
<1>2. CASE CondWait(t)
  BY <1>2 DEF CondWait
<1>3. CASE CondWaitReturns(t)
  BY <1>3 DEF CondWaitReturns
<1>4. CASE RegainG(t)
  BY <1>4 DEF RegainG
<1>5. CASE Woken(t)
  BY <1>5 DEF Woken
<1> QED
  BY <1>1, <1>2, <1>3, <1>4, <1>5

\* Only the waiting thread itself could take the surface it waits for, and
\* who gives one back goes on to signal.
LEMMA BodyHInv ==
    ASSUME Handoff, IInv, Booked, HInv, NEW t \in Threads,
           \/ DequeueBody(t) \/ AttachBody(t) \/ CanDequeueInvalid(t)
           \/ EnqueueBody(t) \/ AcquireBody(t) \/ CanAcquireBody(t)
           \/ ReleaseBody(t) \/ FlushBody(t) \/ ResetBody(t)
           \/ SetSizeFlushBody(t) \/ SetSizeBody(t) \/ Destroy(t)
    PROVE  HInv'
<1> USE QueueSyncAssumption
    DEF Goto, data, Handoff, IInv, TypeOK, LockOwnership, OpsOK, HoldsG,
        HoldsL, DequeueOps, HInv, Roles, Undisturbed, Places, Sleepy,
        NoLostWakeup, Coming, Woke, Answered, Ready, Owed, Signals, SleepsOn
<1>1. CASE DequeueBody(t)
  BY <1>1 DEF DequeueBody, Tail, DequeueTail, CanDequeueTail, NeedsAttach, Done
<1>2. CASE AttachBody(t)
  BY <1>2 DEF AttachBody, Tail, DequeueTail, CanDequeueTail, Done
<1>3. CASE EnqueueBody(t)
  BY <1>3 DEF EnqueueBody, Done
<1>4. CASE AcquireBody(t)
  BY <1>4 DEF AcquireBody, Done
<1>5. CASE CanAcquireBody(t)
  BY <1>5 DEF CanAcquireBody, Done
<1>6. CASE ReleaseBody(t)
  <2>1. attached <= size
    BY WindowFinite DEF Booked
  <2> QED
    BY <1>6, <2>1 DEF ReleaseBody, Done
<1>7. CASE CanDequeueInvalid(t)
  BY <1>7 DEF CanDequeueInvalid
<1>8. CASE \/ FlushBody(t) \/ ResetBody(t) \/ SetSizeFlushBody(t)
           \/ SetSizeBody(t) \/ Destroy(t)
  BY <1>8
     DEF FlushBody, ResetBody, SetSizeFlushBody, SetSizeBody, Destroy
<1> QED
  BY <1>1, <1>2, <1>3, <1>4, <1>5, <1>6, <1>7, <1>8

\* Every step preserves the handoff invariant.
LEMMA NextHInv == Handoff /\ IInv /\ Booked /\ HInv /\ [Next]_vars => HInv'
<1> SUFFICES ASSUME Handoff, IInv, Booked, HInv, [Next]_vars PROVE HInv'
  OBVIOUS
<1>1. ASSUME NEW t \in Threads, Step(t) PROVE HInv'
  BY <1>1, PassHInv, WaitHInv, BodyHInv DEF Step
<1>2. ASSUME NEW t \in Threads, NEW f \in Ops(t), Call(t, f) PROVE HInv'
  BY <1>2, CallHInv
<1>3. CASE UNCHANGED vars
  BY <1>3
     DEF vars, data, HInv, Roles, Undisturbed, Places, Sleepy, NoLostWakeup, Coming, Woke,
         Answered, Ready, Owed, Signals, SleepsOn
<1> QED
  BY <1>1, <1>2, <1>3 DEF Next, Rest

\* The handoff invariant holds throughout every behaviour.
LEMMA HandoffInvariance == ASSUME Handoff PROVE Spec => []HInv
<1>1. Init => HInv
  BY InitHInv
<1>2. IInv /\ Booked /\ HInv /\ [Next]_vars => HInv'
  BY NextHInv
<1> QED
  BY <1>1, <1>2, Invariance, PTL DEF Spec

\* Between one producer and one consumer no wakeup is lost: a thread asleep
\* in can_dequeue or can_acquire is owed a surface or about to be signalled.
THEOREM NoLostWakeupTheorem == ASSUME Handoff PROVE Spec => []NoLostWakeup
<1>1. HInv => NoLostWakeup
  BY DEF HInv
<1> QED
  BY <1>1, HandoffInvariance, PTL

\* Between one producer and one consumer the answer 1 of can_dequeue and of
\* can_acquire is true until the next call, although a woken thread does not
\* look at the queue again.
THEOREM AnswerHonestTheorem == ASSUME Handoff PROVE Spec => []AnswerHonest
<1>1. HInv => AnswerHonest
  BY DEF HInv, Answered, Ready, AnswerHonest
<1> QED
  BY <1>1, HandoffInvariance, PTL
=============================================================================
