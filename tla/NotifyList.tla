----------------------------- MODULE NotifyList -----------------------------
(***************************************************************************)
(* One callback list of a surface queue (destory_noti, dequeuable_noti,    *)
(* dequeue_noti, can_dequeue_noti, acquirable_noti, reset_noti,            *)
(* trace_noti): _notify_add, _notify_remove, _notify_remove_all and        *)
(* _notify_emit of src/src/tbm_surface_queue.c, and their _trace_ twins.   *)
(*                                                                         *)
(* Adding and removing run under the queue's locks, emitting runs without: *)
(* a callback may add and remove, and so may other threads.  The loop of   *)
(* LIST_FOR_EACH_ENTRY_SAFE keeps two pointers, pos and storage.           *)
(***************************************************************************)
EXTENDS ListHead, FiniteSets

CONSTANTS
    Item,      \* addresses a queue_notify can have
    Anchor,    \* the list head in the queue
    Walker,    \* threads that emit
    Removal    \* what is removed during an emission: "quiet" nothing,
               \*   "self" a callback removes itself while no other thread
               \*   emits, "any" while a callback runs, any item

ASSUME NotifyListAssumption ==
    /\ Anchor \notin Item
    /\ Removal \in {"quiet", "self", "any"}

VARIABLES
    links,    \* the links of the cells
    linked,   \* the items that are allocated and in the list
    walk,     \* the state of each thread's loop
    uaf,      \* a loop has read a freed item
    destroying    \* _notify_remove_all is at work

notifyVars == <<links, linked, walk, uaf, destroying>>

NotifyCells == Item \cup {Anchor}
Links == [next : [NotifyCells -> NotifyCells],
          prev : [NotifyCells -> NotifyCells]]

\* stay: the items there since the loop began; count: the calls of each.
NoWalk == [phase |-> "idle", pos |-> Anchor, storage |-> Anchor,
           stay |-> {}, count |-> [i \in Item |-> 0]]

NotifyInit ==
    /\ links = [next |-> [c \in NotifyCells |-> c],
                prev |-> [c \in NotifyCells |-> c]]
    /\ linked = {}
    /\ walk = [w \in Walker |-> NoWalk]
    /\ uaf = FALSE
    /\ destroying = FALSE

Silent == \A w \in Walker : walk[w].phase = "idle"

\* _notify_add: LIST_INITHEAD of the new item, then LIST_ADDTAIL.
NotifyAdd(heap, i) == ListAddTail(ListInitHead(heap, i), i, Anchor)

\* The add_..._cb functions; malloc may return the address of a freed item.
AddCb(i) ==
    /\ ~destroying /\ i \notin linked
    /\ links' = NotifyAdd(links, i)
    /\ linked' = linked \cup {i}
    /\ walk' = [w \in Walker |-> [walk[w] EXCEPT !.count[i] = 0]]
    /\ UNCHANGED <<uaf, destroying>>

MayRemove(i) ==
    \/ Silent
    \/ Removal = "self"
       /\ \E w \in Walker :
            /\ walk[w].phase = "in_cb" /\ walk[w].pos = i
            /\ \A v \in Walker \ {w} : walk[v].phase = "idle"
    \/ Removal = "any" /\ \E w \in Walker : walk[w].phase = "in_cb"

\* Mutant: the item is freed but stays linked.
FreeOnly(i) ==
    /\ ~destroying /\ i \in linked /\ MayRemove(i)
    /\ linked' = linked \ {i}
    /\ walk' = [w \in Walker |-> [walk[w] EXCEPT !.stay = @ \ {i}]]
    /\ UNCHANGED <<links, uaf, destroying>>

\* _notify_remove unlinks the item it finds, and frees it.
NotifyRemove(heap, i) == ListDel(heap, i)

\* The remove_..._cb functions.
RemoveCb(i) ==
    /\ ~destroying /\ i \in linked /\ MayRemove(i)
    /\ links' = NotifyRemove(links, i)
    /\ linked' = linked \ {i}
    /\ walk' = [w \in Walker |-> [walk[w] EXCEPT !.stay = @ \ {i}]]
    /\ UNCHANGED <<uaf, destroying>>

\* _notify_remove_all, when the queue is destroyed: nothing else happens to
\* the list until the loop is done.
RemoveAll ==
    /\ Silent /\ ~destroying
    /\ destroying' = TRUE
    /\ UNCHANGED <<links, linked, walk, uaf>>

RemoveOne ==
    /\ destroying
    /\ LET i == links.next[Anchor]
       IN  /\ i # Anchor
           /\ links' = ListDel(links, i)
           /\ linked' = linked \ {i}
    /\ UNCHANGED <<walk, uaf, destroying>>

\* A new queue starts with an empty list.
AllRemoved ==
    /\ destroying /\ links.next[Anchor] = Anchor
    /\ destroying' = FALSE
    /\ UNCHANGED <<links, linked, walk, uaf>>
-----------------------------------------------------------------------------
Freed(c) == c # Anchor /\ c \notin linked

\* The loop starts: pos and storage are the first two.
EmitStart(w) ==
    /\ ~destroying /\ walk[w].phase = "idle"
    /\ LET first == links.next[Anchor]
       IN  walk' = [walk EXCEPT ![w] =
                      [phase |-> "test", pos |-> first,
                       storage |-> links.next[first], stay |-> linked,
                       count |-> [i \in Item |-> 0]]]
    /\ UNCHANGED <<links, linked, uaf, destroying>>

\* The loop calls the item at pos.
Call(w) ==
    /\ walk[w].phase = "test" /\ walk[w].pos # Anchor
    /\ walk' = [walk EXCEPT ![w].phase = "in_cb",
                            ![w].count[walk[w].pos] = @ + 1]
    /\ uaf' = (uaf \/ Freed(walk[w].pos))
    /\ UNCHANGED <<links, linked, destroying>>

\* Mutant: LIST_FOR_EACH_ENTRY, which reads next of the item just called.
CallReturnsUnsafe(w) ==
    /\ walk[w].phase = "in_cb"
    /\ walk' = [walk EXCEPT ![w].phase = "test",
                            ![w].pos = links.next[walk[w].pos]]
    /\ uaf' = (uaf \/ Freed(walk[w].pos))
    /\ UNCHANGED <<links, linked, destroying>>

\* Mutant: pos skips one.
CallReturnsSkips(w) ==
    /\ walk[w].phase = "in_cb"
    /\ walk' = [walk EXCEPT ![w].phase = "test",
                            ![w].pos = links.next[walk[w].storage],
                            ![w].storage = links.next[walk[w].storage]]
    /\ UNCHANGED <<links, linked, uaf, destroying>>

\* The callback returns: pos becomes storage, and storage the next after it.
CallReturns(w) ==
    /\ walk[w].phase = "in_cb"
    /\ walk' = [walk EXCEPT ![w].phase = "test",
                            ![w].pos = walk[w].storage,
                            ![w].storage = links.next[walk[w].storage]]
    /\ uaf' = (uaf \/ Freed(walk[w].storage))
    /\ UNCHANGED <<links, linked, destroying>>

\* Mutant: the loop starts again.
EmitEndRestarts(w) ==
    /\ walk[w].phase = "test" /\ walk[w].pos = Anchor
    /\ LET first == links.next[Anchor]
       IN  walk' = [walk EXCEPT ![w] =
                      [phase |-> "test", pos |-> first,
                       storage |-> links.next[first], stay |-> linked,
                       count |-> [i \in Item |-> 0]]]
    /\ UNCHANGED <<links, linked, uaf, destroying>>

\* The loop is back at the head.
EmitEnd(w) ==
    /\ walk[w].phase = "test" /\ walk[w].pos = Anchor
    /\ walk' = [walk EXCEPT ![w] = NoWalk]
    /\ UNCHANGED <<links, linked, uaf, destroying>>

\* The pairs of functions that add and remove callbacks, each on its own list.
Registration == \E i \in Item : AddCb(i) \/ RemoveCb(i)

Loop(w) == Call(w) \/ CallReturns(w) \/ EmitEnd(w)

NotifyNext ==
    \/ Registration
    \/ RemoveAll \/ RemoveOne \/ AllRemoved
    \/ \E w \in Walker : EmitStart(w) \/ Loop(w)

\* Callbacks return, so a loop that has begun goes on.
Fairness == \A w \in Walker : WF_notifyVars(Loop(w))

NotifySpec == NotifyInit /\ [][NotifyNext]_notifyVars /\ Fairness
-----------------------------------------------------------------------------
\* The types of the variables.
TypeOK ==
    /\ links \in Links
    /\ linked \subseteq Item
    /\ \A w \in Walker :
         /\ walk[w].phase \in {"idle", "test", "in_cb"}
         /\ walk[w].pos \in NotifyCells /\ walk[w].storage \in NotifyCells
         /\ walk[w].stay \subseteq Item
         /\ walk[w].count \in [Item -> Nat]
    /\ uaf \in BOOLEAN
    /\ destroying \in BOOLEAN

\* next and prev of the items in the list lead to items in the list and are
\* inverse to each other, whatever callbacks add and remove: no link leads
\* to freed memory.
LinksSound == WellLinked(links, linked \cup {Anchor})

\* _notify_emit never reads an item that is freed.
NoFreedRead == ~uaf

\* An emission calls every callback that is registered throughout exactly
\* once, and no registration twice.
CalledOnce ==
    \A w \in Walker :
        /\ \A i \in Item : walk[w].count[i] <= 1
        /\ (walk[w].phase = "test" /\ walk[w].pos = Anchor) =>
               \A i \in walk[w].stay : walk[w].count[i] = 1

\* Only callbacks that are registered without end keep an emission going:
\* one that goes on for ever sees infinitely many additions.  (The loop runs
\* on to the items a callback appends, so nothing else bounds it.)
EmissionEnds ==
    \/ []<><<\E i \in Item : AddCb(i)>>_notifyVars
    \/ \A w \in Walker : walk[w].phase # "idle" ~> walk[w].phase = "idle"
=============================================================================
