---------------------------- MODULE SurfaceQueue ----------------------------
(***************************************************************************)
(* One surface queue of src/src/tbm_surface_queue.c with its two           *)
(* implementations (default and sequence), at the level of the list        *)
(* pointers the code manipulates, and the producer and the consumer that   *)
(* use it.                                                                 *)
(*                                                                         *)
(* A queue_node and the surface it carries are created and deleted         *)
(* together and identified here.  An API function runs under the global    *)
(* lock and the queue's lock from its first to its last access of the      *)
(* queue, so it is one action; the exception is the window in which        *)
(* need_attach drops both locks around the user's alloc_cb, which splits   *)
(* dequeue and can_dequeue in two.  Locks and condition variables          *)
(* themselves are modelled in QueueSync.tla.                               *)
(***************************************************************************)
EXTENDS ListHead, FiniteSets, SequencesExt

CONSTANTS
    Surface,     \* surfaces; a freed one can come back as a new allocation
    Producers,   \* threads that dequeue
    Sizes,       \* sizes that create and set_size are called with
    Manners      \* the ways clients use the queue, see below

(***************************************************************************)
(* The manners of the clients of a process:                                *)
(*   surfaces    the surfaces that can be allocated in the process;        *)
(*   out         bound: surfaces clients hold when they ask for another;   *)
(*   impls       "default", "sequence" or both: the queues they create;    *)
(*   alloc_cb    whether they set an alloc_cb on the queue;                *)
(*   liberties   what they do besides the plain cycle:                     *)
(*     cancel       release a surface that was dequeued, or enqueue one    *)
(*                  that was acquired (with a default queue);              *)
(*     flush_busy   flush, reset or destroy while surfaces are out;        *)
(*     shrink_busy  shrink by more surfaces than are free.                 *)
(***************************************************************************)
Manner ==
    [surfaces : SUBSET Surface, out : Nat, impls : SUBSET {"default", "sequence"},
     alloc_cb : BOOLEAN,
     liberties : SUBSET {"cancel", "flush_busy", "shrink_busy"}]

VARIABLES
    q,           \* struct _tbm_surface_queue, with its nodes
    valid,       \* the queue is on g_surf_queue_bufmgr->surf_queue_list
    allocating,  \* producers inside alloc_cb: the call that got them there
    prod,        \* surfaces producers dequeued and have not given back
    cons,        \* surfaces consumers acquired and have not given back
    order,       \* surfaces in the order consumers must get them
    manner       \* how the clients of this process behave, which stays

vars == <<q, valid, allocating, prod, cons, order, manner>>

Heads == {"free_queue", "dirty_queue", "dequeue_list"}
Cells == Heads \cup Surface
NodeTypes == {"NONE", "DEQUEUE", "ENQUEUE", "ACQUIRE", "RELEASE"}

ASSUME SurfaceQueueAssumption ==
    /\ IsFiniteSet(Surface)
    /\ Heads \cap Surface = {}
    /\ Sizes \subseteq Nat \ {0}
    /\ \A x \in Manners : x \in Manner

-----------------------------------------------------------------------------
(* Helpers on a queue record.                                              *)

\* The queue's interface is tbm_queue_sequence_impl.
IsSequence(u) == u.impl = "sequence"

\* The nodes that are allocated.
Nodes(u) == ToSet(u.list)

\* List operations on a freed node are recorded and not undone.
Touch(u, cells) ==
    [u EXCEPT !.uaf = @ \/ (cells \cap Surface) \ Nodes(u) # {}]

\* The elements of one of the lists, in order.
Walk(u, head) == ListWalk(u.heap, head, Cardinality(Surface))

\* _queue_init
QueueInit(u, head) == [u EXCEPT !.heap = ListInitHead(@, head)]

\* _queue_is_empty
IsEmpty(u, head) == ListIsEmpty(u.heap, head)

\* _queue_node_push_back
PushBack(u, head, n) ==
    [Touch(u, {u.heap.prev[head]}) EXCEPT !.heap = ListAddTail(@, n, head)]

\* _queue_node_pop
Pop(u, n) ==
    [Touch(u, {n, u.heap.prev[n], u.heap.next[n]}) EXCEPT
        !.heap = ListDel(@, n)]

\* _queue_get_node over all three lists: where the surface is found first.
GetNode(u, s) ==
    IF s \in ToSet(Walk(u, "free_queue")) THEN "FREE_QUEUE"
    ELSE IF s \in ToSet(Walk(u, "dirty_queue")) THEN "DIRTY_QUEUE"
    ELSE IF s \in Nodes(u) THEN "NODE_LIST"
    ELSE "NONE"

\* _queue_delete_node, _queue_node_delete: the node leaves whatever list its
\* item_link points into, then the node list, and is freed.  What a freed
\* node holds no longer matters, so it is given one value.
DeleteNode(u, n) ==
    [Pop(u, n) EXCEPT !.list = RemoveFirst(@, n),
                      !.heap = ListInitHead(@, n),
                      !.type[n] = "NONE",
                      !.priv_flags[n] = 0]

\* _tbm_surface_queue_get_node_count
NodeCount(u, t) == Cardinality({n \in Nodes(u) : u.type[n] = t})

\* _tbm_surface_queue_attach: a node from calloc, linked into the node list
\* and at the end of free_queue.
Attach(u, s) ==
    PushBack([u EXCEPT !.list = Append(@, s), !.num_attached = @ + 1],
             "free_queue", s)

\* Mutant: num_attached is left alone.
DetachUncounted(u, s) ==
    IF GetNode(u, s) = "NONE" THEN u ELSE DeleteNode(u, s)

\* _tbm_surface_queue_detach
Detach(u, s) ==
    IF GetNode(u, s) = "NONE" THEN u
    ELSE [DeleteNode(u, s) EXCEPT !.num_attached = @ - 1]

\* Mutant: the nodes in free_queue are freed but stay linked.
ClearAllKeepsFree(u) ==
    [QueueInit(u, "dirty_queue") EXCEPT !.list = << >>, !.num_attached = 0]

\* The common part of flush, reset and set_size with flush: delete every
\* node, then start over with empty lists.
ClearAll(u) ==
    LET d == FoldLeft(DeleteNode, u, u.list)
        e == QueueInit(QueueInit(d, "free_queue"), "dirty_queue")
        r == [e EXCEPT !.list = << >>, !.num_attached = 0]
    IN  IF IsSequence(u) THEN QueueInit(r, "dequeue_list") ELSE r

\* Mutant: the surface does not wait for the ones dequeued before it.
SequenceEnqueueAtOnce(u, s) ==
    PushBack(Pop([u EXCEPT !.priv_flags[s] = 0], s), "dirty_queue", s)

\* Mutant: the surface is not taken off dequeue_list.
SequenceEnqueueNoPop(u, s) ==
    PushBack([u EXCEPT !.priv_flags[s] = 0], "dirty_queue", s)

\* The body of the loop of __tbm_queue_sequence_enqueue.
MoveOn(u, n) == PushBack(Pop(u, n), "dirty_queue", n)

\* __tbm_queue_sequence_enqueue: the surfaces at the head of dequeue_list
\* that are already enqueued move on to dirty_queue.
SequenceEnqueue(u, s) ==
    LET m == [u EXCEPT !.priv_flags[s] = 0]
        w == Walk(m, "dequeue_list")
        Ready(k) == \A i \in 1..k : m.priv_flags[w[i]] = 0
        k == CHOOSE i \in 0..Len(w) :
               Ready(i) /\ \A j \in (i + 1)..Len(w) : ~Ready(j)
    IN  FoldLeft(MoveOn, m, SubSeq(w, 1, k))

\* Mutant: _queue_node_push_front.
ImplEnqueueFront(u, s) ==
    [u EXCEPT !.heap = ListAdd(@, s, "dirty_queue")]

\* impl->enqueue, or _tbm_surface_queue_enqueue when the interface has none.
ImplEnqueue(u, s) ==
    IF IsSequence(u) THEN SequenceEnqueue(u, s)
    ELSE PushBack(u, "dirty_queue", s)

\* The end of _tbm_surface_queue_dequeue and __tbm_queue_sequence_dequeue:
\* pop the oldest free node; a sequence queue keeps it on dequeue_list.
ImplDequeue(u, n) ==
    IF IsSequence(u)
    THEN [PushBack(Pop(u, n), "dequeue_list", n) EXCEPT !.priv_flags[n] = 1]
    ELSE Pop(u, n)

\* need_attach stops here when the queue is full.
Full(u) == u.queue_size = u.num_attached

\* A surface that can be allocated.  An address a client still holds a
\* handle to is assumed not to be reused.
Fresh(u) == manner.surfaces \ (Nodes(u) \cup prod \cup cons)

\* The queue after tbm_surface_internal_create_with_flags or alloc_cb
\* returned: it gave a surface or failed.
AfterAlloc(u) == {u} \cup {Attach(u, s) : s \in Fresh(u)}

\* need_attach without alloc_cb.
NeedAttach(u) == IF Full(u) THEN {u} ELSE AfterAlloc(u)

\* need_attach calls alloc_cb with both locks released.
CallsAllocCb(u) == IsEmpty(u, "free_queue") /\ ~Full(u) /\ u.alloc_cb
-----------------------------------------------------------------------------
(* The API.  On an invalid queue every function returns an error at once.   *)

\* A queue as _tbm_surface_queue_init leaves it.
NewQueue(size, impl) ==
    [impl |-> impl, queue_size |-> size,
     num_attached |-> 0, alloc_cb |-> FALSE,
     heap |-> [next |-> [c \in Cells |-> c], prev |-> [c \in Cells |-> c]],
     list |-> << >>,
     type |-> [s \in Surface |-> "NONE"],
     priv_flags |-> [s \in Surface |-> 0],
     uaf |-> FALSE]

Init ==
    /\ manner \in Manners
    /\ \E size \in Sizes, impl \in manner.impls : q = NewQueue(size, impl)
    /\ valid = TRUE
    /\ allocating = [p \in Producers |-> "no"]
    /\ prod = {} /\ cons = {} /\ order = << >>

Held == prod \cup cons

\* Clients that keep to the plain cycle have given everything back.
Quiet == "flush_busy" \in manner.liberties \/ Held \cap Nodes(q) = {}

MayCancel == "cancel" \in manner.liberties /\ ~IsSequence(q)

NoneAllocating == \A p \in Producers : allocating[p] = "no"

\* Mutant: the newest free surface is handed out.
FinishDequeueNewest(u) ==
    IF IsEmpty(u, "free_queue")
    THEN q' = u /\ UNCHANGED <<prod, order>>
    ELSE LET n == u.heap.prev["free_queue"]
         IN  /\ q' = [ImplDequeue(u, n) EXCEPT !.type[n] = "DEQUEUE"]
             /\ prod' = prod \cup {n}
             /\ order' = IF IsSequence(u) THEN Append(order, n) ELSE order

\* tbm_surface_queue_dequeue once need_attach is done, on the queue u.
FinishDequeue(u) ==
    IF IsEmpty(u, "free_queue")
    THEN q' = u /\ UNCHANGED <<prod, order>>
    ELSE LET n == u.heap.next["free_queue"]
         IN  /\ q' = [ImplDequeue(u, n) EXCEPT !.type[n] = "DEQUEUE"]
             /\ prod' = prod \cup {n}
             /\ order' = IF IsSequence(u) THEN Append(order, n) ELSE order

\* tbm_surface_queue_dequeue without a call of alloc_cb.
Dequeue(p) ==
    /\ valid
    /\ allocating[p] = "no" /\ Cardinality(Held) < manner.out
    /\ ~CallsAllocCb(q)
    /\ \E u \in IF IsEmpty(q, "free_queue") THEN NeedAttach(q) ELSE {q} :
         FinishDequeue(u)
    /\ UNCHANGED <<valid, allocating, cons, manner>>

\* dequeue, or can_dequeue, up to the call of alloc_cb.
CallAllocCb(p, call) ==
    /\ valid
    /\ allocating[p] = "no" /\ Cardinality(Held) < manner.out
    /\ CallsAllocCb(q)
    /\ allocating' = [allocating EXCEPT ![p] = call]
    /\ UNCHANGED <<q, valid, prod, cons, order, manner>>

\* alloc_cb returned; dequeue goes on without looking at queue_size again.
AllocCbReturnsToDequeue(p) ==
    /\ allocating[p] = "dequeue"
    /\ allocating' = [allocating EXCEPT ![p] = "no"]
    /\ \E u \in AfterAlloc(q) : FinishDequeue(u)
    /\ UNCHANGED <<valid, cons, manner>>

\* alloc_cb returned to can_dequeue.
AllocCbReturnsToCanDequeue(p) ==
    /\ allocating[p] = "can_dequeue"
    /\ allocating' = [allocating EXCEPT ![p] = "no"]
    /\ q' \in AfterAlloc(q)
    /\ UNCHANGED <<valid, prod, cons, order, manner>>

\* tbm_surface_queue_can_dequeue without a call of alloc_cb: it may attach
\* a surface, and answers 1 if one is free.
CanDequeue(p) ==
    /\ valid
    /\ allocating[p] = "no"
    /\ IsEmpty(q, "free_queue") /\ ~CallsAllocCb(q)
    /\ q' \in NeedAttach(q)
    /\ UNCHANGED <<valid, allocating, prod, cons, order, manner>>

\* tbm_surface_queue_enqueue, which anybody may call with any surface.
Enqueue(s) ==
    /\ valid
    /\ s \in cons => MayCancel
    /\ IF GetNode(q, s) # "NODE_LIST"
       THEN UNCHANGED <<q, order>>             \* ALREADY_EXIST
       ELSE LET u == ImplEnqueue(q, s)
            IN  /\ q' = IF IsEmpty(u, "dirty_queue")
                        THEN u                  \* UNKNOWN_SURFACE
                        ELSE [u EXCEPT !.type[s] = "ENQUEUE"]
                /\ order' = IF IsSequence(q) THEN order ELSE Append(order, s)
    /\ prod' = prod \ {s}
    /\ cons' = cons \ {s}
    /\ UNCHANGED <<valid, allocating, manner>>

\* tbm_surface_queue_acquire
Acquire ==
    /\ valid
    /\ Cardinality(Held) < manner.out
    /\ ~IsEmpty(q, "dirty_queue")
    /\ LET n == q.heap.next["dirty_queue"]
       IN  /\ q' = [Pop(q, n) EXCEPT !.type[n] = "ACQUIRE"]
           /\ cons' = cons \cup {n}
           /\ order' = RemoveFirst(order, n)
    /\ UNCHANGED <<valid, allocating, prod, manner>>

\* Mutant: the node keeps its type.
ReleaseKeepsType(s) ==
    /\ valid
    /\ s \notin cons => MayCancel \/ GetNode(q, s) # "NODE_LIST"
    /\ q' = IF GetNode(q, s) # "NODE_LIST" THEN q
            ELSE IF q.queue_size < q.num_attached THEN Detach(q, s)
            ELSE PushBack(q, "free_queue", s)
    /\ prod' = prod \ {s}
    /\ cons' = cons \ {s}
    /\ UNCHANGED <<valid, allocating, order, manner>>

\* tbm_surface_queue_release, which anybody may call with any surface.
Release(s) ==
    /\ valid
    /\ s \notin cons => MayCancel \/ GetNode(q, s) # "NODE_LIST"
    /\ q' = IF GetNode(q, s) # "NODE_LIST" THEN q      \* INVALID_SURFACE
            ELSE IF q.queue_size < q.num_attached THEN Detach(q, s)
            ELSE [PushBack(q, "free_queue", s) EXCEPT !.type[s] = "RELEASE"]
    /\ prod' = prod \ {s}
    /\ cons' = cons \ {s}
    /\ UNCHANGED <<valid, allocating, order, manner>>

\* tbm_surface_queue_flush, and tbm_surface_queue_reset with a new geometry;
\* flush does nothing when no surface is attached.
Flush ==
    /\ valid /\ Quiet
    /\ q.num_attached # 0
    /\ q' = ClearAll(q)
    /\ order' = << >>
    /\ UNCHANGED <<valid, allocating, prod, cons, manner>>

\* tbm_surface_queue_reset: as flush, but also with no surface attached.
Reset ==
    /\ valid /\ Quiet
    /\ q' = ClearAll(q)
    /\ order' = << >>
    /\ UNCHANGED <<valid, allocating, prod, cons, manner>>

\* tbm_surface_queue_set_size with flush.
SetSizeFlush(size) ==
    /\ valid /\ Quiet
    /\ q' = [ClearAll(q) EXCEPT !.queue_size = size]
    /\ order' = << >>
    /\ UNCHANGED <<valid, allocating, prod, cons, manner>>

\* Mutant: set_size drops from the node list instead of free_queue.
NeedDelAnyNode(size) ==
    IF q.queue_size > size
    THEN SubSeq(q.list, 1, Min({Len(q.list), q.queue_size - size}))
    ELSE << >>

\* What set_size drops: the oldest free surfaces, as many as the size goes
\* down by.
NeedDel(size) ==
    LET w == Walk(q, "free_queue")
    IN  IF q.queue_size > size
        THEN SubSeq(w, 1, Min({Len(w), q.queue_size - size}))
        ELSE << >>

\* tbm_surface_queue_set_size without flush.
SetSize(size) ==
    /\ valid
    /\ size # q.queue_size
    /\ LET attached == q.num_attached
                        + Cardinality({p \in Producers : allocating[p] # "no"})
       IN  attached - Len(NeedDel(size)) <= size \/ "shrink_busy" \in manner.liberties
    /\ q' = [FoldLeft(Detach, q, NeedDel(size)) EXCEPT !.queue_size = size]
    /\ UNCHANGED <<valid, allocating, prod, cons, order, manner>>

\* tbm_surface_queue_set_alloc_cb
SetAllocCb(on) ==
    /\ valid /\ (on => manner.alloc_cb)
    /\ q' = [q EXCEPT !.alloc_cb = on]
    /\ UNCHANGED <<valid, allocating, prod, cons, order, manner>>

\* tbm_surface_queue_destroy.  Destroying while a call is inside alloc_cb is
\* left to QueueSync.tla.
Destroy ==
    /\ valid /\ Quiet /\ NoneAllocating
    /\ valid' = FALSE
    /\ q' = [NewQueue(q.queue_size, q.impl) EXCEPT
                !.uaf = FoldLeft(DeleteNode, q, q.list).uaf]
    /\ order' = << >>
    /\ UNCHANGED <<allocating, prod, cons, manner>>

\* tbm_surface_queue_create, tbm_surface_queue_sequence_create.
Create(size, impl) ==
    /\ ~valid
    /\ valid' = TRUE
    /\ q' = [NewQueue(size, impl) EXCEPT !.uaf = q.uaf]
    /\ prod' = {} /\ cons' = {}
    /\ UNCHANGED <<allocating, order, manner>>

Next ==
    \/ \E p \in Producers :
         \/ Dequeue(p)
         \/ CanDequeue(p)
         \/ \E call \in {"dequeue", "can_dequeue"} : CallAllocCb(p, call)
         \/ AllocCbReturnsToDequeue(p)
         \/ AllocCbReturnsToCanDequeue(p)
    \/ \E s \in manner.surfaces : Enqueue(s) \/ Release(s)
    \/ Acquire
    \/ Flush \/ Reset
    \/ \E size \in Sizes :
         \/ SetSizeFlush(size)
         \/ SetSize(size)
         \/ \E impl \in manner.impls : Create(size, impl)
    \/ \E on \in BOOLEAN : SetAllocCb(on)
    \/ Destroy

Spec == Init /\ [][Next]_vars
-----------------------------------------------------------------------------
(* Properties.                                                             *)

\* Clients that keep within the promises of SurfaceQueueAbs: a queue that is
\* shrunk while it is busy holds more surfaces than its size, and goes on
\* attaching, since need_attach tests for equality.
Orderly == "shrink_busy" \notin manner.liberties

FreeQ == Walk(q, "free_queue")
DirtyQ == Walk(q, "dirty_queue")
DequeueL == Walk(q, "dequeue_list")

\* The live nodes that are on none of the item_link lists.
Loose == Nodes(q) \ (ToSet(FreeQ) \cup ToSet(DirtyQ) \cup ToSet(DequeueL))

\* The links written by attach, dequeue, enqueue, acquire, release, detach
\* and the deletion loops stay sound although list_del leaves stale links
\* behind: the heads and the listed nodes form proper rings, a list holds
\* only allocated nodes, a node is on one list at most, and a node on no
\* list is in a client's hands.
ListsSound ==
    LET listed == Nodes(q) \ Loose
    IN  /\ WellLinked(q.heap, Heads \cup listed)
        /\ ToSet(FreeQ \o DirtyQ \o DequeueL) \subseteq Nodes(q)
        /\ Len(FreeQ) + Len(DirtyQ) + Len(DequeueL) = Cardinality(listed)
        /\ Loose \subseteq Held

\* num_attached counts the node list through attach in the alloc_cb window,
\* release, detach and every kind of resize, and exceeds queue_size only when
\* clients shrink a busy queue.
AttachCount ==
    /\ q.num_attached = Len(q.list)
    /\ Orderly => q.num_attached <= q.queue_size

\* What can_dequeue(wait) and can_acquire(wait) test before they go to sleep
\* is right: there is an ACQUIRE node exactly if a consumer owes a release,
\* and with dirty_queue empty a DEQUEUE node exactly if a producer owes an
\* enqueue.  Otherwise a waiter would sleep for a call nobody will make, or
\* give up although one is due.
WaitJustified ==
    /\ NodeCount(q, "ACQUIRE") > 0 <=> cons \cap Nodes(q) # {}
    /\ IsEmpty(q, "dirty_queue") =>
         (NodeCount(q, "DEQUEUE") > 0 <=> prod \cap Nodes(q) # {})

\* Consumers get surfaces in order: the default queue in the order of the
\* enqueue calls, the sequence queue in the order of the dequeue calls
\* however the enqueue calls are reordered.
DeliveryOrder ==
    order = IF IsSequence(q) THEN DirtyQ \o DequeueL ELSE DirtyQ

\* No list operation takes a freed node, or writes through a stale link into
\* one, as long as clients have given everything back when the queue is
\* emptied: flush frees the nodes one after the other, and the stale links of
\* a node that is out may lead to one freed before.
NoUseAfterFree == "flush_busy" \notin manner.liberties => ~q.uaf

\* A surface in a client's hands stays attached until the client gives it
\* back or the whole queue is emptied: set_size never takes it away.
HeldSurfacesSurvive ==
    [][\A s \in Held \cap Nodes(q) :
         \/ s \in Nodes(q)'
         \/ s \notin Held'
         \/ Nodes(q)' = {}]_vars

\* The queue of orderly clients, seen through the contents of its lists, keeps
\* the promises of SurfaceQueueAbs: one place for every surface, lines first
\* in first out, no more surfaces than its size.
Abs == INSTANCE SurfaceQueueAbs WITH
         free  <- IF Orderly THEN FreeQ ELSE << >>,
         dirty <- IF Orderly THEN DirtyQ ELSE << >>,
         out   <- IF Orderly THEN Nodes(q) \ ToSet(FreeQ \o DirtyQ) ELSE {},
         limit <- IF Orderly THEN q.queue_size ELSE 0

Implements == Abs!Spec
=============================================================================
