------------------------------ MODULE QueueSync ------------------------------
(***************************************************************************)
(* Threads calling one surface queue of src/src/tbm_surface_queue.c, at    *)
(* the level of its two mutexes and two condition variables: the global    *)
(* tbm_surf_queue_lock (G), the queue's own lock (L), free_cond and        *)
(* dirty_cond.                                                             *)
(*                                                                         *)
(* The nodes are reduced to how many are in each state; which node is      *)
(* where is the subject of SurfaceQueue.tla.  A thread's pc says where it  *)
(* is in an API function; everything between two lock operations is one    *)
(* step.                                                                   *)
(*                                                                         *)
(* Destroy may come at any moment.  What a destroyed queue's memory holds  *)
(* is undefined; the model goes on as though it were intact, which is one  *)
(* of the outcomes, and stale records where that happened.                 *)
(***************************************************************************)
EXTENDS Integers, FiniteSets

CONSTANTS
    Producers,   \* threads that call can_dequeue, dequeue, enqueue
    Consumers,   \* threads that call can_acquire, acquire, release
    Managers,    \* threads that call flush, reset, set_size and destroy
    QueueSize,   \* queue_size of the new queue
    Sizes,       \* the sizes set_size is called with
    Wait,        \* the wait argument of can_dequeue and can_acquire
    AllocCb,     \* an alloc_cb is set
    Spurious,    \* pthread_cond_wait may return without a signal
    MaxCalls,    \* bound on the calls a thread makes
    NoThread     \* a mutex nobody holds

Threads == Producers \cup Consumers \cup Managers

ASSUME QueueSyncAssumption ==
    /\ QueueSize \in Nat \ {0} /\ Sizes \subseteq Nat \ {0}
    /\ IsFiniteSet(Threads)
    /\ MaxCalls \in Nat
    /\ Wait \in BOOLEAN /\ AllocCb \in BOOLEAN /\ Spurious \in BOOLEAN
    /\ NoThread \notin Threads

VARIABLES
    G, L,                        \* the holders of the two mutexes
    pc,                          \* where each thread is
    op,                          \* the API function it is in
    calls,                       \* the number of calls it made
    answer,                      \* TRUE: its last can_* call answered 1
    nfree, ndirty, ndeq, nacq,   \* nodes free, dirty, dequeued, acquired
    attached,                    \* num_attached
    size,                        \* queue_size
    valid,                       \* the queue is not destroyed
    stale,                       \* history: where a destroyed queue was used
    overbooked                   \* history: since the queue was last emptied,
                                 \* threads were in alloc_cb together for
                                 \* more surfaces than there was room for, or
                                 \* the size went below what was attached

data == <<nfree, ndirty, ndeq, nacq, attached, size, overbooked>>
vars == <<G, L, pc, op, calls, answer, data, valid, stale>>

Ops(t) ==
    (IF t \in Producers THEN {"can_dequeue", "dequeue", "enqueue"} ELSE {})
    \cup
    (IF t \in Consumers THEN {"can_acquire", "acquire", "release"} ELSE {})
    \cup
    (IF t \in Managers
     THEN {"flush", "reset", "set_size", "set_size_flush", "destroy"} ELSE {})

OpNames == {"none", "can_dequeue", "dequeue", "enqueue",
            "can_acquire", "acquire", "release",
            "flush", "reset", "set_size", "set_size_flush", "destroy"}

(***************************************************************************)
(* The values of pc.  In HoldsG the thread holds G, in HoldsL it holds L.  *)
(***************************************************************************)
HoldsG == {"lockL", "body", "signal", "unlockG", "returnG", "relockL",
           "attach", "woken"}
HoldsL == {"body", "attach", "presleep", "regainG", "woken"}
Labels == HoldsG \cup HoldsL \cup
          {"idle", "precheck", "notify", "lockG", "emit", "alloc", "relockG",
           "sleep", "relock"}

Goto(t, label) == pc' = [pc EXCEPT ![t] = label]

\* The threads between the call of alloc_cb and the attach.
Window == {"alloc", "relockG", "relockL", "attach"}
InWindow == {t \in Threads : pc[t] \in Window}

\* A thread dereferences the queue, destroyed or not.
Deref(t) == stale' = IF valid THEN stale ELSE stale \cup {pc[t]}

Init ==
    /\ G = NoThread /\ L = NoThread
    /\ pc = [t \in Threads |-> "idle"]
    /\ op = [t \in Threads |-> "none"]
    /\ calls = [t \in Threads |-> 0]
    /\ answer = [t \in Threads |-> FALSE]
    /\ nfree = 0 /\ ndirty = 0 /\ ndeq = 0 /\ nacq = 0 /\ attached = 0
    /\ size = QueueSize
    /\ valid = TRUE /\ stale = {} /\ overbooked = FALSE
-----------------------------------------------------------------------------
\* A client calls an API function.  An earlier answer is forgotten.
Call(t, f) ==
    /\ pc[t] = "idle" /\ calls[t] < MaxCalls
    /\ calls' = [calls EXCEPT ![t] = @ + 1]
    /\ op' = [op EXCEPT ![t] = f]
    /\ answer' = [answer EXCEPT ![t] = FALSE]
    /\ Goto(t, IF f = "can_dequeue" THEN "precheck" ELSE "lockG")
    /\ UNCHANGED <<G, L, data, valid, stale>>

\* can_dequeue takes and drops G once before it runs its callbacks.
Precheck(t) ==
    /\ pc[t] = "precheck" /\ G = NoThread
    /\ Goto(t, IF valid THEN "notify" ELSE "idle")
    /\ UNCHANGED <<G, L, op, calls, answer, data, valid, stale>>

\* can_dequeue emits can_dequeue_noti with no lock held.
Notify(t) ==
    /\ pc[t] = "notify"
    /\ Goto(t, "lockG")
    /\ Deref(t)
    /\ UNCHANGED <<G, L, op, calls, answer, data, valid>>

\* Mutant: the queue is not looked up again under G.
LockGUnchecked(t) ==
    /\ pc[t] = "lockG" /\ G = NoThread
    /\ G' = t /\ Goto(t, "lockL")
    /\ UNCHANGED <<L, op, calls, answer, data, valid, stale>>

\* Take G; give it back at once if _tbm_surface_queue_is_valid fails.
LockG(t) ==
    /\ pc[t] = "lockG" /\ G = NoThread
    /\ IF valid THEN G' = t /\ Goto(t, "lockL")
                ELSE G' = G /\ Goto(t, "idle")
    /\ UNCHANGED <<L, op, calls, answer, data, valid, stale>>

\* The calls that return before they take L: flush with nothing attached,
\* reset to the geometry the queue has, set_size to the size it has.
NothingToDo(t) ==
    \/ op[t] = "flush" /\ attached = 0
    \/ op[t] = "reset"
    \/ op[t] = "set_size" /\ size \in Sizes

\* Take L.
LockL(t) ==
    /\ pc[t] = "lockL" /\ op[t] # "destroy"
    /\ ~(op[t] = "flush" /\ attached = 0)
    /\ ~(op[t] = "set_size" /\ Sizes \subseteq {size})
    /\ L = NoThread
    /\ L' = t
    /\ Goto(t, "body")
    /\ Deref(t)
    /\ UNCHANGED <<G, op, calls, answer, data, valid>>

\* Mutant: the early return keeps G.
ReturnEarlyLeaksG(t) ==
    /\ pc[t] = "lockL" /\ NothingToDo(t)
    /\ Goto(t, "idle")
    /\ UNCHANGED <<G, L, op, calls, answer, data, valid, stale>>

ReturnEarly(t) ==
    /\ pc[t] = "lockL" /\ NothingToDo(t)
    /\ Goto(t, "returnG")
    /\ Deref(t)
    /\ UNCHANGED <<G, L, op, calls, answer, data, valid>>

-----------------------------------------------------------------------------
(* What the functions do with both locks held.  Done(t, label) drops L and *)
(* goes on.                                                                *)

Done(t, label) == L' = NoThread /\ G' = G /\ Goto(t, label)

\* dequeue after need_attach, which left f free and a attached nodes.
DequeueTail(t, f, a) ==
    /\ attached' = a
    /\ IF f = 0
       THEN nfree' = f /\ ndeq' = ndeq /\ Done(t, "returnG")
       ELSE nfree' = f - 1 /\ ndeq' = ndeq + 1 /\ Done(t, "unlockG")
    /\ UNCHANGED <<ndirty, nacq, answer, size, overbooked>>

\* Mutant: instead of the answer 0 the call starts again.
CanDequeueSpins(t, f, a) ==
    /\ attached' = a /\ nfree' = f
    /\ G' = NoThread /\ L' = NoThread
    /\ Goto(t, IF f = 0 THEN "lockG" ELSE "idle")
    /\ answer' = [answer EXCEPT ![t] = f > 0]
    /\ UNCHANGED <<ndirty, ndeq, nacq, size, overbooked>>

\* Mutant: the call answers 1 where it should wait.
CanDequeueDoesNotWait(t, f, a) ==
    /\ attached' = a /\ nfree' = f
    /\ Done(t, "returnG")
    /\ answer' = [answer EXCEPT ![t] = f > 0 \/ nacq > 0]
    /\ UNCHANGED <<ndirty, ndeq, nacq, size, overbooked>>

\* can_dequeue after need_attach.  Before it sleeps it drops G, and the
\* wait itself drops L.
CanDequeueTail(t, f, a) ==
    /\ attached' = a /\ nfree' = f
    /\ IF f = 0 /\ Wait /\ nacq > 0
       THEN /\ G' = NoThread /\ L' = L /\ Goto(t, "presleep")
            /\ answer' = answer
       ELSE /\ Done(t, "returnG")
            /\ answer' = [answer EXCEPT ![t] = f > 0]
    /\ UNCHANGED <<ndirty, ndeq, nacq, size, overbooked>>

Tail(t, f, a) ==
    \/ op[t] = "dequeue" /\ DequeueTail(t, f, a)
    \/ op[t] = "can_dequeue" /\ CanDequeueTail(t, f, a)

\* Mutant: off by one.
NeedsAttachTooMany == nfree = 0 /\ attached # size + 1

\* need_attach asks whether the queue is exactly full: once num_attached is
\* past queue_size nothing holds it back.
NeedsAttach == nfree = 0 /\ attached # size

\* dequeue and can_dequeue; without alloc_cb need_attach creates a surface,
\* which can fail.
DequeueBody(t) ==
    /\ pc[t] = "body"
    /\ ~(NeedsAttach /\ AllocCb)
    /\ \/ Tail(t, nfree, attached)
       \/ NeedsAttach /\ Tail(t, nfree + 1, attached + 1)
    /\ UNCHANGED <<op, calls, valid, stale>>

\* need_attach with alloc_cb drops both locks and calls it.
CallAllocCb(t) ==
    /\ pc[t] = "body" /\ op[t] \in {"dequeue", "can_dequeue"}
    /\ NeedsAttach /\ AllocCb
    /\ L' = NoThread /\ G' = NoThread
    /\ Goto(t, "alloc")
    /\ overbooked' = (\/ overbooked
                      \/ /\ InWindow # {}
                         /\ attached + Cardinality(InWindow) >= size)
    /\ UNCHANGED <<op, calls, answer, nfree, ndirty, ndeq, nacq, attached, size,
                   valid, stale>>

AllocCbReturns(t) ==
    /\ pc[t] = "alloc"
    /\ Goto(t, "relockG")
    /\ UNCHANGED <<G, L, op, calls, answer, data, valid, stale>>

RelockG(t) ==
    /\ pc[t] = "relockG" /\ G = NoThread
    /\ G' = t
    /\ Goto(t, "relockL")
    /\ UNCHANGED <<L, op, calls, answer, data, valid, stale>>

RelockL(t) ==
    /\ pc[t] = "relockL" /\ L = NoThread
    /\ L' = t
    /\ Goto(t, "attach")
    /\ Deref(t)
    /\ UNCHANGED <<G, op, calls, answer, data, valid>>

\* The callback's surface, if it gave one, is attached.  can_dequeue then
\* looks the queue up again; dequeue does not.
AttachBody(t) ==
    /\ pc[t] = "attach"
    /\ op[t] = "can_dequeue" => valid
    /\ \/ Tail(t, nfree, attached)
       \/ Tail(t, nfree + 1, attached + 1)
    /\ UNCHANGED <<op, calls, valid, stale>>

\* can_dequeue finds that the queue was destroyed in the window.  It drops G
\* but not the lock of the queue, which it took in memory already freed.
CanDequeueInvalid(t) ==
    /\ pc[t] = "attach" /\ op[t] = "can_dequeue" /\ ~valid
    /\ \E n \in {0, 1} : nfree' = nfree + n /\ attached' = attached + n
    /\ G' = NoThread /\ L' = L
    /\ Goto(t, "idle")
    /\ UNCHANGED <<op, calls, answer, ndirty, ndeq, nacq, size, overbooked,
                   valid, stale>>

\* Mutant: dirty_cond is not signalled.
EnqueueSilently(t) ==
    /\ pc[t] = "body" /\ op[t] = "enqueue"
    /\ IF ndeq = 0
       THEN UNCHANGED <<ndeq, ndirty>> /\ Done(t, "returnG")
       ELSE ndeq' = ndeq - 1 /\ ndirty' = ndirty + 1 /\ Done(t, "unlockG")
    /\ UNCHANGED <<op, calls, answer, nfree, nacq, attached, size, overbooked,
                   valid, stale>>

EnqueueBody(t) ==
    /\ pc[t] = "body" /\ op[t] = "enqueue"
    /\ IF ndeq = 0
       THEN UNCHANGED <<ndeq, ndirty>> /\ Done(t, "returnG")
       ELSE ndeq' = ndeq - 1 /\ ndirty' = ndirty + 1 /\ Done(t, "signal")
    /\ UNCHANGED <<op, calls, answer, nfree, nacq, attached, size, overbooked,
                   valid, stale>>

AcquireBody(t) ==
    /\ pc[t] = "body" /\ op[t] = "acquire"
    /\ IF ndirty = 0
       THEN UNCHANGED <<ndirty, nacq>> /\ Done(t, "returnG")
       ELSE ndirty' = ndirty - 1 /\ nacq' = nacq + 1 /\ Done(t, "unlockG")
    /\ UNCHANGED <<op, calls, answer, nfree, ndeq, attached, size, overbooked,
                   valid, stale>>

CanAcquireBody(t) ==
    /\ pc[t] = "body" /\ op[t] = "can_acquire"
    /\ IF ndirty = 0 /\ Wait /\ ndeq > 0
       THEN /\ G' = NoThread /\ L' = L /\ Goto(t, "presleep")
            /\ answer' = answer
       ELSE /\ Done(t, "returnG")
            /\ answer' = [answer EXCEPT ![t] = ndirty > 0]
    /\ UNCHANGED <<op, calls, data, valid, stale>>

\* release detaches the surface when too many are attached, and then tells
\* nobody.
ReleaseBody(t) ==
    /\ pc[t] = "body" /\ op[t] = "release"
    /\ \/ /\ nacq = 0
          /\ UNCHANGED <<nacq, nfree, attached>> /\ Done(t, "returnG")
       \/ /\ nacq > 0 /\ size < attached
          /\ nacq' = nacq - 1 /\ attached' = attached - 1 /\ nfree' = nfree
          /\ Done(t, "returnG")
       \/ /\ nacq > 0 /\ size >= attached
          /\ nacq' = nacq - 1 /\ nfree' = nfree + 1 /\ attached' = attached
          /\ Done(t, "signal")
    /\ UNCHANGED <<op, calls, answer, ndirty, ndeq, size, overbooked, valid, stale>>

\* Every node is deleted, the queue has size n.  Threads in the alloc_cb
\* window will attach to it all the same.
Emptied(n) ==
    /\ nfree' = 0 /\ ndirty' = 0 /\ ndeq' = 0 /\ nacq' = 0 /\ attached' = 0
    /\ size' = n
    /\ overbooked' = (Cardinality(InWindow) > n)

\* Mutant: num_attached is not reset.
FlushKeepsCount(t) ==
    /\ pc[t] = "body" /\ op[t] = "flush"
    /\ nfree' = 0 /\ ndirty' = 0 /\ ndeq' = 0 /\ nacq' = 0
    /\ Done(t, "signal")
    /\ UNCHANGED <<attached, size, overbooked, op, calls, answer, valid, stale>>

FlushBody(t) ==
    /\ pc[t] = "body" /\ op[t] = "flush"
    /\ Emptied(size)
    /\ Done(t, "signal")
    /\ UNCHANGED <<op, calls, answer, valid, stale>>

\* reset to another geometry.
ResetBody(t) ==
    /\ pc[t] = "body" /\ op[t] = "reset"
    /\ Emptied(size)
    /\ Done(t, "signal")
    /\ UNCHANGED <<op, calls, answer, valid, stale>>

SetSizeFlushBody(t) ==
    /\ pc[t] = "body" /\ op[t] = "set_size_flush"
    /\ \E n \in Sizes : Emptied(n)
    /\ Done(t, "signal")
    /\ UNCHANGED <<op, calls, answer, valid, stale>>

\* set_size without flush detaches free nodes, as many as the size shrinks
\* by if there are so many.  It signals nobody.
SetSizeBody(t) ==
    /\ pc[t] = "body" /\ op[t] = "set_size"
    /\ \E n \in Sizes \ {size} :
       LET need_del == IF n < size THEN size - n ELSE 0
           d == IF nfree < need_del THEN nfree ELSE need_del
       IN /\ size' = n
          /\ nfree' = nfree - d /\ attached' = attached - d
          /\ overbooked' =
                (overbooked \/ attached - d + Cardinality(InWindow) > n)
    /\ Done(t, "returnG")
    /\ UNCHANGED <<ndirty, ndeq, nacq, op, calls, answer, valid, stale>>

\* tbm_surface_queue_destroy takes G only.
Destroy(t) ==
    /\ pc[t] = "lockL" /\ op[t] = "destroy"
    /\ valid' = FALSE
    /\ Emptied(size)
    /\ Goto(t, "returnG")
    /\ Deref(t)
    /\ UNCHANGED <<G, L, op, calls, answer>>
-----------------------------------------------------------------------------
\* The condition variable a thread sleeps on, and the one a call signals.
SleepsOn(t) == IF op[t] = "can_dequeue" THEN "free_cond" ELSE "dirty_cond"
Signals(t) == IF op[t] = "enqueue" THEN "dirty_cond" ELSE "free_cond"

Sleepers(cond) == {u \in Threads : pc[u] = "sleep" /\ SleepsOn(u) = cond}

\* pthread_cond_signal after L is dropped: it wakes one sleeper if there is
\* one.
Signal(t) ==
    /\ pc[t] = "signal"
    /\ LET s == Sleepers(Signals(t))
       IN  IF s = {} THEN Goto(t, "unlockG")
           ELSE \E u \in s :
                  pc' = [pc EXCEPT ![t] = "unlockG", ![u] = "relock"]
    /\ Deref(t)
    /\ UNCHANGED <<G, L, op, calls, answer, data, valid>>

\* Drop G, then run the callbacks ("unlockG") or return ("returnG").
UnlockG(t) ==
    /\ pc[t] \in {"unlockG", "returnG"}
    /\ G' = NoThread
    /\ Goto(t, IF pc[t] = "unlockG" THEN "emit" ELSE "idle")
    /\ UNCHANGED <<L, op, calls, answer, data, valid, stale>>

\* _trace_emit and _notify_emit walk the queue's lists with no lock held.
Emit(t) ==
    /\ pc[t] = "emit"
    /\ Goto(t, "idle")
    /\ Deref(t)
    /\ UNCHANGED <<G, L, op, calls, answer, data, valid>>

\* pthread_cond_wait drops L and sleeps, in one step.  A thread that is woken
\* without a signal goes on to wait for L, for as long as it likes.
CondWait(t) ==
    /\ pc[t] = "presleep"
    /\ L' = NoThread
    /\ \E l \in {"sleep", "relock"} : (l = "relock" => Spurious) /\ Goto(t, l)
    /\ Deref(t)
    /\ UNCHANGED <<G, op, calls, answer, data, valid>>

\* pthread_cond_wait takes L again before it returns.
CondWaitReturns(t) ==
    /\ pc[t] = "relock" /\ L = NoThread
    /\ L' = t
    /\ Goto(t, "regainG")
    /\ Deref(t)
    /\ UNCHANGED <<G, op, calls, answer, data, valid>>

\* The woken thread takes G while it holds L: the reverse of the order in
\* which every other call takes them.
RegainG(t) ==
    /\ pc[t] = "regainG" /\ G = NoThread
    /\ G' = t
    /\ Goto(t, "woken")
    /\ UNCHANGED <<L, op, calls, answer, data, valid, stale>>

\* It answers 1 on a valid queue, without a look at the queue's contents,
\* and drops L in either case.
Woken(t) ==
    /\ pc[t] = "woken"
    /\ L' = NoThread /\ G' = NoThread
    /\ answer' = [answer EXCEPT ![t] = valid]
    /\ Goto(t, "idle")
    /\ Deref(t)
    /\ UNCHANGED <<op, calls, data, valid>>

Step(t) ==
    \/ Precheck(t) \/ Notify(t) \/ LockG(t) \/ LockL(t) \/ ReturnEarly(t)
    \/ DequeueBody(t) \/ CallAllocCb(t) \/ AllocCbReturns(t)
    \/ RelockG(t) \/ RelockL(t) \/ AttachBody(t) \/ CanDequeueInvalid(t)
    \/ EnqueueBody(t) \/ AcquireBody(t) \/ CanAcquireBody(t)
    \/ ReleaseBody(t) \/ FlushBody(t) \/ ResetBody(t) \/ SetSizeFlushBody(t)
    \/ SetSizeBody(t) \/ Destroy(t)
    \/ Signal(t) \/ UnlockG(t) \/ Emit(t)
    \/ CondWait(t) \/ CondWaitReturns(t) \/ RegainG(t) \/ Woken(t)

\* Clients may stop at any time between two calls.
AllIdle == \A t \in Threads : pc[t] = "idle"
Rest == AllIdle /\ UNCHANGED vars

Next ==
    \/ \E t \in Threads : Step(t)
    \/ \E t \in Threads : \E f \in Ops(t) : Call(t, f)
    \/ Rest

\* A thread that can go on inside an API function eventually does; nothing
\* is assumed of clients, or of the order in which a mutex is granted.
Fairness == \A t \in Threads : WF_vars(Step(t))

Spec == Init /\ [][Next]_vars /\ Fairness
-----------------------------------------------------------------------------
\* The types of the variables.
TypeOK ==
    /\ G \in Threads \cup {NoThread}
    /\ L \in Threads \cup {NoThread}
    /\ pc \in [Threads -> Labels]
    /\ op \in [Threads -> OpNames]
    /\ calls \in [Threads -> Nat]
    /\ answer \in [Threads -> BOOLEAN]
    /\ nfree \in Nat /\ ndirty \in Nat /\ ndeq \in Nat /\ nacq \in Nat
    /\ attached \in Nat
    /\ size \in Nat \ {0}
    /\ valid \in BOOLEAN /\ overbooked \in BOOLEAN
    /\ stale \subseteq Labels

\* Two threads are never inside the queue at the same time, and no path
\* leaves a mutex locked, through the early returns, the alloc_cb window and
\* the two waits; the one exception is can_dequeue, which keeps the lock of
\* the queue when it finds the queue destroyed.
LockOwnership ==
    \A t \in Threads :
        /\ pc[t] \in HoldsG <=> G = t
        /\ pc[t] \in HoldsL => L = t
        /\ L = t => pc[t] \in HoldsL \/ ~valid

\* num_attached counts the surfaces in the four states, whatever another
\* thread does in the alloc_cb window: dequeue, flush, reset, set_size.
Conservation == nfree + ndirty + ndeq + nacq = attached

\* num_attached stays within queue_size, unless alloc_cb was asked for more
\* surfaces at once than there was room for, or the size was lowered below
\* what is attached or on its way.  Emptying the queue makes up for either.
AttachBound == overbooked \/ attached <= size

\* Where a queue destroyed by another thread can be used: in the callbacks
\* before and after the locked part, when the locks are taken again after
\* alloc_cb, and around a wait.  Between a look-up under G and the unlock of
\* G it cannot.
StaleOnlyUnlocked ==
    stale \subseteq {"notify", "emit", "relockL", "presleep", "relock", "woken"}

\* An answer of 1 holds until the asking thread's next call: with one thread
\* on either side, no flush and no spurious wakeup, nobody takes the surface
\* that can_dequeue or can_acquire announced, awake or woken.
AnswerHonest ==
    \A t \in Threads : (pc[t] = "idle" /\ answer[t]) =>
        /\ op[t] = "can_dequeue" => nfree > 0
        /\ op[t] = "can_acquire" => ndirty > 0

\* What a sleeper waits for: a surface that the other side still has.
Owed(t) == IF op[t] = "can_dequeue" THEN nacq > 0 ELSE ndeq > 0

\* No wakeup is lost between the test and the wait: a thread asleep in
\* can_dequeue or can_acquire is owed a surface, or its signal is coming.
NoLostWakeup ==
    \A t \in Threads : pc[t] = "sleep" =>
        \/ Owed(t)
        \/ \E u \in Threads : pc[u] = "signal" /\ Signals(u) = SleepsOn(t)

\* Every call returns when nobody waits for a condition, as long as no
\* destroyed queue is used: no order of locking and no alloc_cb window makes
\* a call hang.
EveryCallReturns ==
    \A t \in Threads : pc[t] # "idle" ~> (pc[t] = "idle" \/ stale # {})

\* A woken thread that holds L wants G, whose holder wants L.
LockCycle(t, u) == pc[t] = "regainG" /\ G = u /\ pc[u] = "lockL" /\ L = t

\* With waits, calls end in one of three ways: they return, they sleep for a
\* surface that the other side still has, or a woken thread and a caller
\* hold each other's lock.
Settles ==
    <>[](\/ \E t, u \in Threads : LockCycle(t, u)
         \/ \A t \in Threads :
                pc[t] = "idle" \/ (pc[t] = "sleep" /\ Owed(t)))
=============================================================================
