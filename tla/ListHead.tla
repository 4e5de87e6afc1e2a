------------------------------ MODULE ListHead ------------------------------
(***************************************************************************)
(* The intrusive doubly linked list of src/src/list.h.                     *)
(*                                                                         *)
(* A heap is a record with two functions, next and prev, over a set of     *)
(* cells.  A cell is a struct list_head: the head of a list or the link    *)
(* member embedded in an element.  The C macros write through pointers,    *)
(* one assignment after the other; the operators below give the heap after *)
(* the last assignment, also when cells coincide (a cell that is already   *)
(* the tail, a cell that points to itself, a cell whose links are stale).  *)
(***************************************************************************)
EXTENDS Integers, Sequences

\* list_inithead: the empty list is a head that points to itself.
ListInitHead(h, item) ==
    [next |-> [h.next EXCEPT ![item] = item],
     prev |-> [h.prev EXCEPT ![item] = item]]

\* list_add: insert item right after the head.
ListAdd(h, item, list) ==
    [next |-> [h.next EXCEPT ![item] = h.next[list], ![list] = item],
     prev |-> [h.prev EXCEPT ![item] = list, ![h.next[list]] = item]]

\* list_addtail: insert item right before the head.
ListAddTail(h, item, list) ==
    [next |-> [h.next EXCEPT ![item] = list, ![h.prev[list]] = item],
     prev |-> [h.prev EXCEPT ![item] = h.prev[list], ![list] = item]]

\* list_del: the neighbours item points to are joined.  The links of item
\* itself are left as they are, so they go stale; a second list_del of the
\* same item writes through the stale links.
ListDel(h, item) ==
    [next |-> [h.next EXCEPT ![h.prev[item]] = h.next[item]],
     prev |-> [h.prev EXCEPT ![h.next[item]] = h.prev[item]]]

\* LIST_IS_EMPTY.
ListIsEmpty(h, list) == h.next[list] = list

\* The first n cells a LIST_FOR_EACH_ENTRY over list visits: it starts at
\* next[list] and stops when it is back at the head.
ListWalk(h, list, n) ==
    LET walk[k \in 0..n] ==
          IF k = 0 THEN << >>
          ELSE LET w == walk[k - 1]
                   c == IF w = << >> THEN list ELSE w[Len(w)]
               IN  IF Len(w) < k - 1 \/ h.next[c] = list
                   THEN w
                   ELSE Append(w, h.next[c])
    IN  walk[n]

\* The links of the cells in S form rings: next and prev stay in S and are
\* inverse to each other there.
WellLinked(h, S) ==
    \A c \in S : /\ h.next[c] \in S /\ h.prev[c] \in S
                 /\ h.prev[h.next[c]] = c
                 /\ h.next[h.prev[c]] = c
=============================================================================
